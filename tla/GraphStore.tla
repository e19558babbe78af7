----------------------------- MODULE GraphStore -----------------------------
(***************************************************************************)
(* One graph collection: its four tables, the operations of                *)
(* src/engine/graph.rs and graph_rag.rs that change them, the check of the  *)
(* chunks' profiles with its cache (graph_validation.rs), and the ingestion *)
(* of src/api/graph.rs, which reads, embeds outside any lock and writes.    *)
(*                                                                          *)
(* An operation of the engine is one step, under the catalog's write lock.  *)
(* Any client may also edit the tables with SQL.  Every commit is logged as *)
(* SQL text; "replica" is the collection that replaying the log gives.      *)
(*                                                                          *)
(* A body stands for a document's title, source, text and chunking; its     *)
(* chunks, and how near they are to others, are constants.  "meta" is the   *)
(* free part of the metadata, "field" the one custom column, an INTEGER     *)
(* UNIQUE that may be Null.  A fingerprint is the value it is the hash of.  *)
(***************************************************************************)
EXTENDS Rows

CONSTANTS
    Clients,           \* HTTP requests under way
    Requests,          \* documents that may be ingested: id, body, meta, field
    Null,              \* SQL's null
    MinInt,            \* i64::MIN
    Pieces,            \* the chunks of a body, a sequence
    Similarity,        \* of two pieces, in hundredths
    Profiles,          \* provider, model, dimensions
    NoProfile,         \* the collection does not exist
    Threshold,         \* semantic_threshold
    SemanticNeighbors, \* semantic_neighbors
    MaxChunks, MaxEdges,  \* MAX_CHUNKS, MAX_EDGES
    MaxText,           \* MAX_COLLECTION_TEXT_BYTES, one unit per row
    MaxGenerations,    \* MAX_VALIDATED_GENERATIONS
    MaxRevision,       \* bound: commits
    MaxOverlap,        \* bound: commits while a request is under way
    MaxEdits           \* bound: edits with SQL

Documents == {r.id : r \in Requests}

\* validate_document: a body has a chunk; similarities are clamped.
ASSUME GraphStoreAssumption ==
    /\ NoProfile \notin Profiles
    /\ \A x, y \in DOMAIN Similarity : Similarity[x][y] \in -100 .. 100
    /\ \A r \in Requests : Pieces[r.body] \in Seq(DOMAIN Similarity) \ {<<>>}
    /\ MinInt # Null
    /\ {Threshold, SemanticNeighbors, MaxChunks, MaxEdges, MaxText, MaxRevision,
        MaxOverlap, MaxEdits}
         \subseteq Nat
    /\ MaxGenerations \in Nat \ {0}

VARIABLES
    tables,      \* config, documents, chunks, edges
    revision,    \* Catalog::revision
    generation,  \* storage_id of the chunks' vectors: the revision that made them
    validated,   \* the cache of checked generations, the oldest first
    client,      \* the state of each request
    replica,     \* what replaying the log gives; NoProfile if it is refused
    edits        \* edits with SQL so far

vars == <<tables, revision, generation, validated, client, replica, edits>>

-----------------------------------------------------------------------------
(* Rows.  A generated chunk id is the document's id and the ordinal, a       *)
(* generated edge id the kind and both ends.                                 *)

Empty(profile) == [config |-> profile, documents |-> <<>>, chunks |-> <<>>, edges |-> <<>>]

ChunkId(d, ordinal) == <<d, ordinal>>
Edge(from, to, kind, weight) ==
    [id |-> <<kind, from, to>>, from |-> from, to |-> to, kind |-> kind, weight |-> weight]

RowsOf(chunks, d) == Where(chunks, LAMBDA row : row.doc = d)
RowsNotOf(chunks, d) == Where(chunks, LAMBDA row : row.doc # d)
Others(documents, d) == Where(documents, LAMBDA row : row.id # d)
Fingerprint(body, meta, rows) ==
    <<body, meta, SortSeq(rows, LAMBDA x, y : x.ordinal < y.ordinal)>>

IdsOf(rows) == {rows[i].id : i \in DOMAIN rows}
Find(t, d) == Where(t.documents, LAMBDA row : row.id = d)
Exists(t, d) == d \in IdsOf(t.documents)

\* A mutant of DocumentChunkIds: ends of edges are not looked at.
StoredChunkIds(t, d) == IdsOf(RowsOf(t.chunks, d))

\* document_chunk_ids: stored chunks, and ends of edges in the document's namespace.
DocumentChunkIds(t, d) ==
    IdsOf(RowsOf(t.chunks, d))
        \cup {id \in UNION {{t.edges[i].from, t.edges[i].to} : i \in DOMAIN t.edges} : id[1] = d}

Touches(edge, ids) == edge.from \in ids \/ edge.to \in ids
Apart(edges, ids) == Where(edges, LAMBDA e : ~Touches(e, ids))

\* document_fields: the column's value, unless another document has it.
FieldFree(t, d, field) ==
    field = Null \/ \A i \in DOMAIN t.documents : t.documents[i].field = field => t.documents[i].id = d

-----------------------------------------------------------------------------
(* The log's statements and what executing them does.                       *)

Insert(table, rows) == [op |-> "insert", table |-> table, rows |-> rows]
Legible(field) == field # MinInt   \* its digits, without the sign, are no i64

ExecuteInsert(t, table, rows) ==
    CASE table = "documents" ->
           IF \E i \in DOMAIN rows : ~Legible(rows[i].field) THEN Empty(NoProfile)
           ELSE [t EXCEPT !.documents = @ \o rows]
      [] table = "chunks" -> [t EXCEPT !.chunks = @ \o rows]
      [] table = "edges" -> [t EXCEPT !.edges = @ \o rows]

ExecuteUpdate(t, row) ==
    IF ~Legible(row.field) THEN Empty(NoProfile)
    ELSE [t EXCEPT !.documents =
            [i \in DOMAIN @ |-> IF @[i].id # row.id THEN @[i]
                                ELSE [@[i] EXCEPT !.meta = row.meta, !.print = row.print,
                                                  !.field = row.field]]]

Execute(t, s) ==
    CASE s.op = "create" -> Empty(s.config)
      [] s.op = "insert" -> ExecuteInsert(t, s.table, s.rows)
      [] s.op = "update" -> ExecuteUpdate(t, s.row)
      [] s.op = "delete_ends" ->
           [t EXCEPT !.edges = Apart(@, s.ids)]
      [] s.op = "delete_relation" ->
           [t EXCEPT !.edges = Where(@, LAMBDA e : <<e.kind, e.from, e.to>> # s.relation)]
      [] s.op = "delete_document" ->
           [t EXCEPT !.chunks = RowsNotOf(@, s.id), !.documents = Others(@, s.id)]
      [] s.op = "edit" -> s.tables   \* a client's own statement

Replay(t, log) ==
    LET after[n \in 0 .. Len(log)] == IF n = 0 THEN t ELSE Execute(after[n - 1], log[n])
    IN  after[Len(log)]

-----------------------------------------------------------------------------
(* Reading a collection: collection() with its check of the profiles.        *)

SameProfile(t) == \A i \in DOMAIN t.chunks : t.chunks[i].profile = t.config
Checked == <<generation, tables.config>> \in ToSet(validated)
\* A mutant of Collection: the chunks are not looked at.
Configured == tables.config # NoProfile
Collection == tables.config # NoProfile /\ (Checked \/ SameProfile(tables))

\* A known entry becomes the newest; a new one may drop the oldest.
Remember(cache, entry) ==
    IF entry \in ToSet(cache)
    THEN Append(RemoveAt(cache, Min({i \in DOMAIN cache : cache[i] = entry})), entry)
    ELSE IF Len(cache) < MaxGenerations THEN Append(cache, entry)
    ELSE Append(Tail(cache), entry)
Validate == validated' = Remember(validated, <<generation, tables.config>>)

\* read_document: what was asked for is what is stored, and undamaged.
Intact(t, d) ==
    LET rows == RowsOf(t.chunks, d)
        row == Find(t, d)[1]
    IN  /\ Exists(t, d)
        /\ rows # <<>>
        /\ row.print = Fingerprint(row.body, row.meta, rows)
        /\ \A i \in DOMAIN rows :
              /\ rows[i].ordinal \in DOMAIN Pieces[row.body]
              /\ rows[i].piece = Pieces[row.body][rows[i].ordinal]

-----------------------------------------------------------------------------
(* The rows of a new document.                                               *)

BothWays(from, to, kind, weight) == <<Edge(from, to, kind, weight), Edge(to, from, kind, weight)>>

Adjacent(r) ==
    FlattenSeq([n \in 1 .. Len(Pieces[r.body]) - 1 |->
        BothWays(ChunkId(r.id, n), ChunkId(r.id, n + 1), "adjacent", 100)])

\* The nearest of the chunks at these places, the first stored one among equals.
Closest(chunks, piece, places) ==
    LET near(n) == Similarity[piece][chunks[n].piece]
    IN  CHOOSE m \in places :
          \A n \in places \ {m} : near(m) > near(n) \/ (near(m) = near(n) /\ m < n)

\* The nearest stored chunks, the nearest first.
Nearest(chunks, piece) ==
    LET left[k \in 0 .. Len(chunks)] ==
          IF k = 0 THEN DOMAIN chunks
          ELSE left[k - 1] \ {Closest(chunks, piece, left[k - 1])}
    IN  [k \in 1 .. Min({SemanticNeighbors, Len(chunks)}) |->
            chunks[Closest(chunks, piece, left[k - 1])]]

Neighbors(chunks, piece) ==
    Where(Nearest(chunks, piece), LAMBDA row : Similarity[piece][row.piece] >= Threshold)

Links(chunks, r, n) ==
    LET piece == Pieces[r.body][n]
        near == Neighbors(chunks, piece)
    IN  FlattenSeq([k \in DOMAIN near |->
            BothWays(ChunkId(r.id, n), near[k].id, "semantic", Similarity[piece][near[k].piece])])

Semantic(t, r) == FlattenSeq([n \in DOMAIN Pieces[r.body] |-> Links(t.chunks, r, n)])

\* prepare_graph_document_rows, on tables without the document.
NewChunks(t, r) ==
    [n \in DOMAIN Pieces[r.body] |->
        [id |-> ChunkId(r.id, n), doc |-> r.id, ordinal |-> n,
         piece |-> Pieces[r.body][n], profile |-> t.config]]
NewDocument(r, chunks) ==
    [id |-> r.id, body |-> r.body, meta |-> r.meta, field |-> r.field,
     print |-> Fingerprint(r.body, r.meta, chunks)]
NewLog(t, r) ==
    <<Insert("documents", <<NewDocument(r, NewChunks(t, r))>>),
      Insert("chunks", NewChunks(t, r)),
      Insert("edges", Adjacent(r) \o Semantic(t, r))>>

\* A mutant of Without: edges that lead to the document stay.
WithoutSources(t, d) ==
    LET ids == DocumentChunkIds(t, d)
    IN  [t EXCEPT !.edges = Where(@, LAMBDA e : e.from \notin ids),
                  !.chunks = RowsNotOf(@, d), !.documents = Others(@, d)]

\* remove_document, in memory and in the log.
Without(t, d) ==
    LET ids == DocumentChunkIds(t, d)
    IN  [t EXCEPT !.edges = Apart(@, ids), !.chunks = RowsNotOf(@, d), !.documents = Others(@, d)]

\* A mutant of RemovalLog: only edges of stored chunks are deleted.
RemovalOfStored(t, d) ==
    <<[op |-> "delete_ends", ids |-> IdsOf(RowsOf(t.chunks, d))],
      [op |-> "delete_document", id |-> d]>>
RemovalLog(t, d) ==
    LET ids == DocumentChunkIds(t, d)
    IN  (IF ids = {} THEN <<>> ELSE <<[op |-> "delete_ends", ids |-> ids]>>)
            \o <<[op |-> "delete_document", id |-> d]>>

With(t, r) ==
    [t EXCEPT !.documents = Append(@, NewDocument(r, NewChunks(t, r))),
              !.chunks = @ \o NewChunks(t, r),
              !.edges = @ \o Adjacent(r) \o Semantic(t, r)]

\* The limits prepare_graph_document_rows, insert and validate_text_capacity
\* check on the tables that result.
Text(t) == Len(t.documents) + Len(t.chunks) + Len(t.edges)
DistinctIds(rows) == Cardinality(IdsOf(rows)) = Len(rows)
Within(t) ==
    /\ Len(t.chunks) <= MaxChunks
    /\ Len(t.edges) <= MaxEdges
    /\ Text(t) <= MaxText
    /\ DistinctIds(t.documents) /\ DistinctIds(t.chunks) /\ DistinctIds(t.edges)

-----------------------------------------------------------------------------
(* The check before embedding: a bound on what the commit will need.         *)

\* A mutant of Fanout: the mirrored edges are forgotten.
OneWay(t, r) ==
    Len(Pieces[r.body]) * Min({SemanticNeighbors, Len(t.chunks) - Len(RowsOf(t.chunks, r.id))})

\* Semantic edges if every chunk finds all the neighbors it may have.
Fanout(t, r) ==
    Len(Pieces[r.body])
        * Min({SemanticNeighbors, Len(t.chunks) - Len(RowsOf(t.chunks, r.id))}) * 2

CheckCapacity(t, r) ==
    LET ids == DocumentChunkIds(t, r.id)
        edges == Len(Apart(t.edges, ids))
                   + 2 * (Len(Pieces[r.body]) - 1) + Fanout(t, r)
        chunks == Len(t.chunks) - Len(RowsOf(t.chunks, r.id)) + Len(Pieces[r.body])
        text == Len(Others(t.documents, r.id)) + 1
                  + Len(Where(t.chunks, LAMBDA row : row.id \notin ids))
                  + Len(Pieces[r.body]) + edges
    IN  /\ FieldFree(t, r.id, r.field)
        /\ chunks <= MaxChunks
        /\ edges <= MaxEdges
        /\ text <= MaxText

-----------------------------------------------------------------------------
(* The operations of the engine.  Each changes the tables and says what it   *)
(* logs; a commit gives both the next revision.                              *)

Commit(t, log, chunksTouched) ==
    /\ revision < MaxRevision
    /\ revision' = revision + 1
    /\ tables' = t
    /\ replica' = Replay(replica, log)
    /\ generation' = IF chunksTouched THEN revision' ELSE generation

Overlaps == \A c \in Clients : client[c].at # "idle" => revision < client[c].revision + MaxOverlap

\* A mutant of Appendable: edges left behind by a deleted chunk are not looked for.
NotStored(t, r) == ~Exists(t, r.id) /\ RowsOf(t.chunks, r.id) = <<>>

\* try_graph_append_document applies: nothing of the document is left.
Appendable(t, r) == ~Exists(t, r.id) /\ DocumentChunkIds(t, r.id) = {}

Appends(t, r) == Appendable(t, r) /\ CheckCapacity(t, r) /\ Within(With(t, r))
Replaces(t, r) == CheckCapacity(t, r) /\ Within(With(Without(t, r.id), r))

AppendDocument(r) ==
    /\ Collection
    /\ Appends(tables, r)
    /\ Commit(With(tables, r), NewLog(tables, r), TRUE)
    /\ validated' = Remember(Remember(validated, <<generation, tables.config>>),
                             <<generation', tables.config>>)

ReplaceDocument(r) ==
    /\ Collection
    /\ Replaces(tables, r)
    /\ Commit(With(Without(tables, r.id), r),
              RemovalLog(tables, r.id) \o NewLog(Without(tables, r.id), r), TRUE)
    /\ Validate

Ingest(r) ==
    \/ AppendDocument(r)
    \/ ~Appendable(tables, r) /\ ReplaceDocument(r)

\* graph_update_document_metadata
UpdatedRow(t, d, meta, field) ==
    LET row == Find(t, d)[1]
    IN  [row EXCEPT !.meta = meta, !.field = field,
                    !.print = Fingerprint(row.body, meta, RowsOf(t.chunks, d))]
Updates(t, d, field) == Intact(t, d) /\ FieldFree(t, d, field) /\ Text(t) <= MaxText
UpdateMetadata(d, meta, field) ==
    LET row == UpdatedRow(tables, d, meta, field)
        documents == [i \in DOMAIN tables.documents |->
                        IF tables.documents[i].id = d THEN row ELSE tables.documents[i]]
    IN  /\ Collection
        /\ Updates(tables, d, field)
        /\ Commit([tables EXCEPT !.documents = documents],
                  <<[op |-> "update", row |-> row]>>, FALSE)
        /\ Validate

DeleteDocument(d) ==
    /\ Collection
    /\ Exists(tables, d)
    /\ Commit(Without(tables, d), RemovalLog(tables, d), RowsOf(tables.chunks, d) # <<>>)
    /\ Validate

IsRelation(e, kind, from, to) == e.kind = kind /\ e.from = from /\ e.to = to
RemoveRelation(t, kind, from, to) ==
    [t EXCEPT !.edges = Where(@, LAMBDA e : ~IsRelation(e, kind, from, to))]
RelationLog(t, kind, from, to) ==
    IF \E i \in DOMAIN t.edges : IsRelation(t.edges[i], kind, from, to)
    THEN <<[op |-> "delete_relation", relation |-> <<kind, from, to>>]>>
    ELSE <<>>

\* graph_upsert_relationship: duplicates made with SQL become one edge.
UpsertRelationship(kind, from, to, weight) ==
    LET rest == RemoveRelation(tables, kind, from, to)
        next == [rest EXCEPT !.edges = Append(@, Edge(from, to, kind, weight))]
    IN  /\ Collection
        /\ from # to /\ {from, to} \subseteq IdsOf(tables.chunks)
        /\ Within(next)
        /\ Commit(next, RelationLog(tables, kind, from, to)
                          \o <<Insert("edges", <<Edge(from, to, kind, weight)>>)>>, FALSE)
        /\ Validate

DeleteRelationship(kind, from, to) ==
    /\ Collection
    /\ {from, to} \subseteq IdsOf(tables.chunks)
    /\ RelationLog(tables, kind, from, to) # <<>>
    /\ Commit(RemoveRelation(tables, kind, from, to), RelationLog(tables, kind, from, to), FALSE)
    /\ Validate

\* graph_create_collection, with the profile p of the active settings.
CreateCollection(p) ==
    /\ tables.config = NoProfile
    /\ Commit(Empty(p), <<[op |-> "create", config |-> p]>>, TRUE)
    /\ validated' = Remember(validated, <<generation', p>>)

-----------------------------------------------------------------------------
(* Edits with SQL.                                                           *)

Edit(t, chunksTouched) ==
    /\ tables.config # NoProfile
    /\ edits < MaxEdits
    /\ Overlaps
    /\ edits' = edits + 1
    /\ Commit(t, <<[op |-> "edit", tables |-> t]>>, chunksTouched)
    /\ UNCHANGED <<validated, client>>

EditChunks ==
    \E i \in DOMAIN tables.chunks :
        \/ Edit([tables EXCEPT !.chunks = RemoveAt(@, i)], TRUE)
        \/ \E p \in Profiles \ {tables.chunks[i].profile} :
              Edit([tables EXCEPT !.chunks[i].profile = p], TRUE)
        \/ \E piece \in DOMAIN Similarity \ {tables.chunks[i].piece} :
              Edit([tables EXCEPT !.chunks[i].piece = piece], TRUE)

\* A document's row, with its chunks or without.
DeleteDocumentRow ==
    \E i \in DOMAIN tables.documents :
        LET rest == [tables EXCEPT !.documents = RemoveAt(@, i)]
            d == tables.documents[i].id
        IN  \/ Edit(rest, FALSE)
            \/ Edit([rest EXCEPT !.chunks = RowsNotOf(@, d)], TRUE)

\* A second row for a stored relation, under an id of the client's own.
DuplicateEdge ==
    \E i \in DOMAIN tables.edges :
        /\ <<"own", i>> \notin IdsOf(tables.edges)
        /\ Edit([tables EXCEPT !.edges = Append(@, [@[i] EXCEPT !.id = <<"own", i>>])], FALSE)

DropCollection == Edit(Empty(NoProfile), TRUE)

-----------------------------------------------------------------------------
(* The ingestion request: ingest_document of src/api/graph.rs.               *)

Idle == [at |-> "idle"]
Unchanged(t, r) == Find(t, r.id)[1].meta = r.meta /\ Find(t, r.id)[1].field = r.field
Stored(t, d) == <<Find(t, d), RowsOf(t.chunks, d)>>
Matches(t, r) ==
    /\ Intact(t, r.id)
    /\ Find(t, r.id)[1].body = r.body
    /\ Len(RowsOf(t.chunks, r.id)) = Len(Pieces[r.body])

Goto(c, at) == client' = [client EXCEPT ![c].at = at]
End(c) == client' = [client EXCEPT ![c] = Idle]
KeepTables == UNCHANGED <<tables, revision, generation, replica>>

ReadCollection(c, r) ==
    /\ client[c].at = "idle"
    /\ Collection
    /\ client' = [client EXCEPT ![c] =
                    [at |-> "document", request |-> r, revision |-> revision,
                     profile |-> tables.config, seen |-> Stored(tables, r.id)]]
    /\ Validate /\ KeepTables /\ UNCHANGED edits

\* The stored document, read under a lock of its own.
ReadDocument(c) ==
    /\ client[c].at = "document"
    /\ IF ~Collection THEN End(c) /\ UNCHANGED validated
       ELSE /\ Validate
            /\ IF ~Matches(tables, client[c].request) THEN Goto(c, "check")
               ELSE IF Unchanged(tables, client[c].request) THEN Goto(c, "unchanged")
               ELSE Goto(c, "changed")
    /\ KeepTables /\ UNCHANGED edits

\* revision() before an answer that uses what was read.
Recheck(c) ==
    /\ client[c].at \in {"unchanged", "changed"}
    /\ IF revision # client[c].revision THEN End(c)
       ELSE Goto(c, IF client[c].at = "unchanged" THEN "answer" ELSE "update")
    /\ KeepTables /\ UNCHANGED <<validated, edits>>

Answer(c) ==
    /\ client[c].at = "answer"
    /\ End(c)
    /\ KeepTables /\ UNCHANGED <<validated, edits>>

\* A call that fails changes nothing, but may have checked the profiles.
Refuse(checked) == KeepTables /\ IF checked THEN Validate ELSE UNCHANGED validated

\* A mutant of OrRefused: the revision is not compared.
OrInvalid(c, accepted, step) ==
    /\ IF Collection /\ accepted THEN step ELSE Refuse(Collection)
    /\ End(c)
    /\ UNCHANGED edits

\* A refusal under the lock ends the request.
OrRefused(c, accepted, step) ==
    /\ IF revision = client[c].revision /\ Collection /\ accepted
       THEN step ELSE Refuse(revision = client[c].revision /\ Collection)
    /\ End(c)
    /\ UNCHANGED edits

RequestUpdate(c) ==
    LET r == client[c].request
    IN  /\ client[c].at = "update"
        /\ OrRefused(c, Updates(tables, r.id, r.field), UpdateMetadata(r.id, r.meta, r.field))

CheckRequest(c) ==
    /\ client[c].at = "check"
    /\ IF Collection THEN Validate ELSE UNCHANGED validated
    /\ IF Collection /\ CheckCapacity(tables, client[c].request) /\ revision = client[c].revision
       THEN Goto(c, "embed") ELSE End(c)
    /\ KeepTables /\ UNCHANGED edits

\* The provider answers if p, the profile of the active settings, is the
\* collection's.
Embed(c, p) ==
    /\ client[c].at = "embed"
    /\ IF p = client[c].profile THEN Goto(c, "append") ELSE End(c)
    /\ KeepTables /\ UNCHANGED <<validated, edits>>

\* try_graph_append_document and graph_transaction each take the lock and
\* compare the revision.
RequestAppend(c) ==
    LET r == client[c].request
    IN  /\ client[c].at = "append"
        /\ IF revision = client[c].revision /\ Collection /\ ~Appendable(tables, r)
           THEN Goto(c, "replace") /\ KeepTables /\ Validate /\ UNCHANGED edits
           ELSE OrRefused(c, Appends(tables, r), AppendDocument(r))

RequestReplace(c) ==
    /\ client[c].at = "replace"
    /\ OrRefused(c, Replaces(tables, client[c].request), ReplaceDocument(client[c].request))

-----------------------------------------------------------------------------
Init ==
    /\ tables = Empty(NoProfile)
    /\ replica = tables
    /\ revision = 0
    /\ generation = 0
    /\ validated = <<>>
    /\ client = [c \in Clients |-> Idle]
    /\ edits = 0

Ends == IdsOf(tables.chunks)

\* Another client calls the engine with the revision it has just read.
Engine ==
    /\ Overlaps
    /\ \/ \E p \in Profiles : CreateCollection(p)
       \/ \E r \in Requests : Ingest(r)
       \/ \E r \in Requests : UpdateMetadata(r.id, r.meta, r.field)
       \/ \E d \in Documents : DeleteDocument(d)
       \/ \E from, to \in Ends, kind \in {"adjacent", "cites"} :
             \/ UpsertRelationship(kind, from, to, 50)
             \/ DeleteRelationship(kind, from, to)
    /\ UNCHANGED <<client, edits>>

Request(c) ==
    \/ \E r \in Requests : ReadCollection(c, r)
    \/ ReadDocument(c)
    \/ Recheck(c)
    \/ Answer(c)
    \/ RequestUpdate(c)
    \/ CheckRequest(c)
    \/ \E p \in Profiles : Embed(c, p)
    \/ RequestAppend(c)
    \/ RequestReplace(c)

Next ==
    \/ Engine
    \/ EditChunks
    \/ DeleteDocumentRow
    \/ DuplicateEdge
    \/ DropCollection
    \/ \E c \in Clients : Request(c)

Spec == Init /\ [][Next]_vars

-----------------------------------------------------------------------------
(* Properties.                                                               *)

\* Executing the SQL text of every committed change, in order, gives the rows
\* in memory: a restart shows what the in-place changes made.
ReplayAgrees == replica = tables

\* As long as nobody edits the tables with SQL, every edge joins two stored
\* chunks, every chunk has its document, and every document is undamaged.
ReferencesHold ==
    edits = 0 =>
        /\ \A i \in DOMAIN tables.edges : {tables.edges[i].from, tables.edges[i].to} \subseteq Ends
        /\ \A i \in DOMAIN tables.chunks : Exists(tables, tables.chunks[i].doc)
        /\ \A d \in IdsOf(tables.documents) : Intact(tables, d)

\* Where the append path applies, the staged path would give the same rows and
\* the same refusals: it is an optimisation, whatever was done to the tables.
AppendIsGeneral ==
    tables.config # NoProfile =>
        \A r \in Requests : Appendable(tables, r) =>
            /\ Without(tables, r.id) = tables
            /\ Appends(tables, r) <=> Replaces(tables, r)

\* A document that passed the checks before embedding is not refused for its
\* size or its field if nothing was written in between.
CheckedDocumentFits ==
    \A c \in Clients :
        client[c].at \in {"embed", "append", "replace"} /\ client[c].revision = revision =>
            LET r == client[c].request
            IN  IF Appendable(tables, r) THEN Appends(tables, r) ELSE Replaces(tables, r)

\* A generation the cache knows for the collection's profile has only chunks
\* of that profile.
CacheIsSound == Checked /\ tables.config # NoProfile => SameProfile(tables)

\* When a request answers or writes, its document is as the request first found
\* it, though it reads under four locks and embeds under none; and an answer
\* "unchanged" is true.
Acts(c) ==
    \/ client[c].at = "unchanged" /\ client'[c].at = "answer"
    \/ client[c].at \in {"update", "append", "replace"} /\ tables' # tables /\ client'[c] = Idle
ActsOnWhatItRead ==
    [][\A c \in Clients : Acts(c) =>
          /\ Stored(tables, client[c].request.id) = client[c].seen
          /\ client[c].at = "unchanged" =>
                Matches(tables, client[c].request) /\ Unchanged(tables, client[c].request)]_vars

\* Ingesting a document, which gives the chunks a generation of its own, leaves
\* it undamaged and without an edge to a missing chunk, whatever was done to the
\* tables with SQL before.
Repaired(d) ==
    /\ Intact(tables, d)
    /\ \A i \in DOMAIN tables.edges :
          Touches(tables.edges[i], IdsOf(RowsOf(tables.chunks, d)))
            => {tables.edges[i].from, tables.edges[i].to} \subseteq Ends
    /\ DocumentChunkIds(tables, d) = IdsOf(RowsOf(tables.chunks, d))
IngestRepairs ==
    [][\A r \in Requests : generation' = revision + 1 /\ Ingest(r) => Repaired(r.id)']_vars
=============================================================================
