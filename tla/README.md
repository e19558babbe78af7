# Verification of vectors

TLA+ models of `vectors`, an embeddable SQL and vector database with an HTTP
server, model-checked with TLC and proved about with TLAPS. Paths are relative
to the repository root.

## The system

| component | state | operations | what makes it hard | what makes it correct |
|---|---|---|---|---|
| Data directory (`src/durable.rs`) | `vectors.vdb`, `vectors.wal`, `vectors.lock`; the open log with its length and the `failed` latch | open and repair, append, checkpoint, reset | crash between any two file operations, I/O errors half-way | nothing visible is lost, nothing is applied twice, the directory always opens |
| Snapshot files (`src/storage.rs`) | temporary, target and backup file | save, load, replace | replacement is several renames and a directory sync | a target is always one complete catalog, never an older one |
| Transactions (`src/engine.rs`, `src/engine/graph.rs`) | the catalog behind an `RwLock`, `snapshot_lock`, revision and durable sequence | five write paths (staged batch, direct INSERT, direct DELETE, typed rows, graph transaction), compare-and-write, checkpoint, save, recover | threads, lock order, staged copies, revisions across restarts | all-or-nothing commits, visible only when durable, equal revisions mean equal catalogs, no deadlock |
| Tables (`src/engine.rs`, `src/engine/{upsert,deletion,table_map}.rs`) | rows, unique keys, secondary indexes, dense vector caches, copy-on-write table map | insert, upsert, update, delete, create/drop index | caches maintained in place on the fast paths, rebuilt on the general one | caches equal what the rows give |
| SQL and search (`src/engine.rs`, `src/engine/{join,index_selection}.rs`) | none | type, plan, filter, group, join, top-k | two programs that must agree on types, bounded heaps, early ends, hashed keys, index choice | the answer SQL gives, whichever algorithm computed it |
| Compute (`src/{vector,compute,gpu}.rs`) | GPU buffer cache | distances on CPU or GPU | fallback, cache bounds | same ranking as the CPU |
| Graphs (`src/engine/graph*.rs`) | collections as four tables each, a cache of checked profiles | ingest, update, delete, relate; neighborhood, search, hybrid retrieval, context selection | tables changed in place beside a log of SQL text, raw SQL on the same tables, append fast path, many limits | replay gives the rows in memory, references hold, a cut is reported, paths lead where they say |
| HTTP API (`src/api.rs`, `src/api/*.rs`) | task permits, counters, shutdown file | requests, row edits, two-phase ingestion, chats, drain | clients that leave while the task runs, embedding outside locks, answers of a language model | permits bound running tasks, no write on an unseen catalog, accepted answers quote their sources |
| Embeddings and reranking (`src/{embedding,reranking}.rs`) | settings on disk and published | update settings, admit work, call the service | persist and publish are two steps | file and published settings agree, answers belong to the settings admitted |
| Server process (`src/bin/vectors-server.rs`) | autosave worker, stop flag | start, autosave, stop, final save or checkpoint | stop while saving or about to wait | the last change is on disk when the process ends |
| Parse cache (`src/engine.rs`) | entries, bytes | get, insert, evict | two bounds at once | bytes are the sum of the entries |
| Chunking (`src/chunking.rs`) | none | split a text | boundaries, overlap | chunks cover the text |
| Shell, updater, SDK, web console, installers | none of interest | I/O | | |

Requests enter through the HTTP API, the shell or a program that embeds the
library; each runs on a cloned `Database` handle, so on the shared catalog. A
write takes the catalog's write lock, prepares its change, appends a record to
the log, synchronizes it, publishes the change, drops the lock, and may then run
a checkpoint, which takes `snapshot_lock`, then the catalog's read lock, then
the log's mutex. A save takes `snapshot_lock` and the read lock only to copy the
catalog. Opening the directory loads the snapshot, repairs the log, and executes
the records the snapshot does not hold.

## Modules

| module | what it is |
|---|---|
| `Recovery` | the two files as values, and the pure functions of recovery: which logs `open_wal` accepts and repairs, which records `recover` skips, what catalog results |
| `CommittedLog` | the promise to clients, without files: one growing sequence of mutations |
| `DurableStore` | threads, locks, log, checkpoints, saves, I/O errors, kill, power loss, recovery; refines `CommittedLog` |
| `TableStore` | one table: rows, constraints, unique keys, hash indexes, dense vector slabs, under every statement that changes them, and the lookups that use them |
| `GraphStore` | one graph collection: the engine's operations on its tables, raw SQL on the same tables, the log replayed beside them, the profile cache, ingestion over HTTP |
| `Server` | the server process: start, requests under permits, autosave thread, shutdown file, drain, final save |
| `Providers` | settings of the embedding and reranking services, on disk and in memory, and the requests that pay for calls: texts, retrievals, chats |
| `Requests` | one request and its answer, the state of the read path |
| `Expressions`, `Queries`, `Joins` | SQL expressions and their types, SELECT over one table, joins |
| `SqlReads` | the three answered as requests, against reference definitions |
| `Chunking`, `Retrieval`, `HybridRetrieval`, `Selection`, `Grounding` | cutting a document; neighborhood and search; fused seeds and their expansion; the context of an answer; the check of a generated answer |
| `GraphReads` | these answered as requests, with what each promises |
| `Reads` | the read path: any request of either kind |
| `MC...` | the instances TLC checks |
| `DurableStoreProofs` | lemmas about recovery: what a snapshot and a log that overlap give; type correctness of `DurableStore`; its inductive invariant, the safety theorems, and that it implements `CommittedLog` |
| `TableStoreProofs` | the in-place change of unique keys and buckets; the constraints of `TableStore` |
| `TableCachesProofs` | its dense columns; its caches and generations, that its lookups are scans and its typed upsert is the general one |
| `ServerProofs` | permits, the clean stop, and edits of `Server` |
| `ProvidersProofs` | the five properties of `Providers` |
| `Rows` | sequences of rows: those that satisfy a condition (`Where`), used by `GraphStore`, `TableStore` and the reads of documents |
| `RowsProofs` | lemmas about them, by induction over their length |
| `GraphStoreProofs` | the safety properties of `GraphStore` |
| `GraphReadsProofs` | that chunks cover their text, neighborhoods and searches are explored, selected contexts keep their budgets and accepted answers are grounded |

`DurableStore` and `TableStore` meet at the catalog: the first takes a mutation
as an atomic effect on a history of mutations, the second says what the effect
on one table is, and that it does not depend on the path that computed it.
`GraphStore` relies on both: its steps are commits, its tables rows. `Server`
keeps of the catalog only how many commits it has seen, and its snapshot file is
the one whose replacement `DurableStore` models step by step. `Providers` and
the phases of ingestion in `GraphStore` are the two sides of one HTTP request:
what a provider answers is a constant of the latter. The read modules have no
state but a request: nothing is written, so one request at a time shows all
there is.

### How DurableStore corresponds to the code

A catalog is the effect of its mutations, so its content is their sequence
(`hist`); `Ops` are mutations that change something, `NoOp` stands for any that
affects no row, which no write path may log (recovery refuses such a record).
The five write paths share one skeleton and differ in two things only: a
*staged* write (batch, guarded edit, graph transaction) works on a private copy
whose revision counts statements, a *delta* write (direct INSERT or DELETE,
typed rows) applies a prepared change to the shared catalog; and a *guarded*
write compares the revision its client read.

Each action is what one thread does up to the next point where something else
can come in between:

| action | code |
|---|---|
| `OpenDirectory`, `OpenDirectoryFails` | `PersistentStorage::open`, `open_wal` with its two repairs |
| `Recover` | `recover`, and the last step of `open_persistent_with_compute`, which sets the revision |
| `ReadForEdit` | `table_page`: rows and revision under one read lock |
| `StartWrite`, `LockCatalog` | `execute_inner`, `execute_if_revision`, `graph_transaction`: lock, compare, stage or prepare |
| `AppendRecord`, `SyncRecord` | `PersistentStorage::append`, `append_record`: latch, write, `sync_data` |
| `Publish` | catalog, sequence and revision assigned, lock dropped, checkpoint asked for |
| `StartCheckpoint`, `StartSave`, `LockSnapshot`, `CaptureCatalog` | `checkpoint`, `save_snapshot` |
| `WriteTemporary`, `InstallSnapshot`, `BackUpSnapshot`, `InstallOverBackup`, `SyncDirectory` | `storage::save`, `write_catalog`, `replace_file`, `sync_parent` |
| `TruncateLog`, `WriteHeader` | `reset_wal` |
| `Kill`, `PowerLoss` | the end of the process; of the machine |

The locks are the variables `writer`, `readers` and `snapLock`. The log's mutex
is none: it is only taken under the catalog's write lock (append) or its read
lock together with `snapshot_lock` (checkpoint), so it is never contended.
`fate` and `edit` observe what clients know, and are read by properties (and, as
the argument of the guarded request, by `Conflicts`) only.

### How TableStore corresponds to the code

Every statement runs under the catalog's write lock, so a step is a whole
statement; one that is refused changes nothing and is no step. The variable
`table` is the struct `Table`, with its field names. Rows are numbered from 1,
and vectors are values like any other, as nothing here looks inside them; what
is kept of a number is that +0 and -0 have one key and different bits, and that
a NaN has a key and equals nothing. A `storage_id` is drawn from a global
counter and never comes back, so it is modelled by what a cache holds under the
current one (`remembered`).

| action | code |
|---|---|
| `Insert`, `InsertIgnore` | `prepare_durable_insert`, `apply_insert_plan`: validate against the key maps, append, extend all caches |
| `Upsert` | the typed conflict update: `upsert.rs` (patch prepared, validated and applied in place), or the general path if it sets its own key |
| `SqlUpsert` | `apply_conflict_updates`: a copy of the rows, validated as a whole, then a rebuild |
| `Update` | `Database::update`: replacement rows, validation, rebuild |
| `Delete` | `deletion.rs`: rows by index or scan, slabs kept, moved or packed again, positions remapped |
| `CreateIndex`, `DropIndex`, `Reload` | `create_index`, `drop_indexes`, the table part of `storage::load` |
| `FillCache` | a reader keys what it derived from the rows with the storage id (`graph_rag.rs`, `graph_validation.rs`, `gpu.rs`) |

`IndexedRows` is the index planner for a term `column IN (...)` and for two
terms joined by AND or OR, with its residual; the merge of two ascending lists
and the probing of a posting are abstracted to union and membership.

### How GraphStore corresponds to the code

The variable `tables` has the rows of a collection's configuration, documents,
chunks and edges. Every operation of the engine runs in one transaction under
the catalog's write lock, so it is one step; it changes the tables in place and
logs SQL text of the same change. `replica` is what that text makes of another
catalog, executed as recovery does, and `NoProfile` for ever once a statement is
refused. The steps of an HTTP ingestion are the closures it runs on blocking
threads, with the embedding between them outside any lock.

| action | code |
|---|---|
| `AppendDocument`, `ReplaceDocument` | `graph_ingest`: the fast path for a new document; removal of what is stored and insertion |
| `UpdateMetadata`, `DeleteDocument` | `graph_update_document_metadata`, `graph_delete_document` |
| `UpsertRelationship`, `DeleteRelationship` | the relationships of two chunks |
| `CreateCollection`, `DropCollection` | `create_graph_collection`; `DROP TABLE` of its tables |
| `EditChunks`, `DeleteDocumentRow`, `DuplicateEdge` | raw SQL that removes or changes a chunk or its profile, deletes a document's row with its chunks or without, stores a link twice |
| `ReadCollection`, `ReadDocument`, `Recheck`, `Answer`, `RequestUpdate`, `CheckRequest`, `Embed`, `RequestAppend`, `RequestReplace` | the ingestion of `src/api/graph.rs`, from its first read to the answer |

A body stands for title, text and chunking; which pieces it has and how near
they are is given. A fingerprint is the value it is the hash of.

### How Server corresponds to the code

One life of the process in snapshot mode (in data-directory mode saving is
`DurableStore`'s). A life says which options are set and what is asked for.

| action | code |
|---|---|
| `Admit`, `Leave`, `Begin`, `Answer`, `Cancel` | `DatabaseTaskState`: a permit is taken or the request refused, the client leaves, the closure starts on a blocking thread, the response is sent, a queued closure is dropped |
| `Execute` | a write or a change of columns, committed |
| `ReadSchema`, `CheckRevision`, `ExecuteIfRevision` | an edit of a row (`api/admin.rs`): columns, revision and statement under three locks |
| `ListRevision`, `ListTables` | a listing: revision first, then columns |
| `TimedOut`, `Notified`, `SaveIfChanged`, `SaveEnds` | the autosave thread: `wait_timeout`, comparison of revisions, save |
| `Prepare`, `Bind`, `Watch`, `Signal`, `Drained`, `DropConnections`, `CleanUp`, `StopSaver`, `Join`, `FinalSave`, `FinalSaveEnds` | `run()`, from the removal of an old request to the last save |
| `MakeFile`, `RemoveOther` | other programs that write the shutdown file |

Clients send only revisions a listing of this process showed them (`view`). A
stop set before the thread first waits, or while it saves, is noticed at the
next interval, as in the code. The HTTP server's own draining is external.

### How Providers corresponds to the code

| action | code |
|---|---|
| `StartUpdate`, `Apply`, `Rename`, `SyncDirectory`, `PersistFails`, `Publish` | a settings update: validation, temporary file, rename, directory sync, publication; a failure at any of them |
| `Arrive`, `Preflight`, `Check` | a request and the keys and permits it looks at before it pays for anything |
| `Send`, `RewriteEnds`, `AnswerEnds` | calls of the language model |
| `Capture`, `AcquireEmbedding`, `Batch` | settings captured, permit awaited, one provider request for a batch of texts |
| `Search`, `CaptureReranker`, `AcquireReranker`, `RerankEnds`, `Select` | retrieval from the collection, reranking, selection |
| `Leave`, `ChangeCollection`, `Restart` | a client that leaves; another collection; another process |

A provider's reply is any sequence of indices of a batch, complete or not, in
any order, or none at all.

### How the read modules correspond to the code

Each action of `Reads` is the whole computation of one answer. Where the code
leaves an order open (heaps that drop one of several equal candidates) the
operator returns the set of possible answers.

| module | code |
|---|---|
| `Expressions` | `evaluate` and what it calls; `expression_data_type` and the `ensure_*_type` functions |
| `Queries` | `run_query`: validation, `CandidateSink` and `finish_candidates`; `run_aggregate_query`; `FastVectorTopKPlan` and `run_fast_vector_top_k` with its merged heaps |
| `Joins` | `JoinSchema`, `JoinStage`, `JoinLookup`, `visit_join_chain`, `run_join_query` |
| `Chunking` | `chunk_text`, `markdown_headings`, `natural_boundaries`, `validate_preview` |
| `Retrieval` | `graph_neighborhood` with `BoundedEdges`; `graph_search` |
| `HybridRetrieval` | `graph_rag_candidates_with_options`: ranks, fusion, `GraphTraversal::expand`, `induced_edges` |
| `Selection` | `GraphRagSnapshot::finalize` |
| `Grounding` | `finalize_with_sources`, `finalize_strict`, `add_speech` |

What the data are reduced to: integers are -8..7 with checked overflow, floats
are integers that lose their last bit beyond `ExactFloat`, and NaN; a text is a
sequence of letters; a document is a sequence of classified lines, and letters
are words, spaces, stops and closers; similarities and term counts are inputs of
a retrieval; fusion is exact in units of `1 / RrfScale`;
redundancy and diversity are counted in halves, relevance is exact. NaN does not occur in keys of ORDER BY.
Identifiers are in the order of rows, and a retrieval path is a walk that may
come back to its seed. Which rows an index supplies is `TableStore`'s
`IndexedIsScan`, so `Queries` starts from all rows. How names are resolved is
not modelled: columns have qualified names.

### File system

Each file has the content the running system shows (`ckpt`, `wal`) and the set
of contents a power loss may leave (`ckptImages`, `walImages`): every content it
went through since its last synchronization, and for an append also an
incomplete record. Synchronizing reduces the set to one. This assumes that
rename is atomic, that a file's own changes reach the disk in order, and that an
append is cut short rather than scrambled; changes of different files are
independent. Two constants say what else is assumed:

- `WriteBack`: what a killed process left in the system's cache reaches the disk
  before the power fails later. With `FALSE`, recovery is wrong (below).
- `RenameFallback`: rename may fail over an existing file, so `replace_file`
  takes its second path (the code takes it on any error of the rename). With
  `TRUE`, a stop between its renames loses the catalog (below), so safety is
  checked with `FALSE`, where the rename over a snapshot succeeds.

## Properties and runs

| run | instance | checks |
|---|---|---|
| `store` (`MCDurableStore.cfg`) | 2 threads, 3 mutations, 4 requests, 2 crashes, checkpoint at 2 records, `WriteBack`, no fallback; 292,798 states | `TypeOK`, `VisibleIsDurable`, `NeverRefused`, `AppliedOnce`, `GuardedEditIsCurrent`, `SnapshotNeverRegresses`, `ImplementsCommittedLog` |
| `progress` (`Progress.cfg`) | 2 threads, 2 mutations, 3 requests, 1 crash, with fallback; 101,402 states | `EveryRequestEnds` |
| `recovered_unsynced` | no `WriteBack`, 3 crashes | `NeverRefused` is violated |
| `failed_write` | 1 thread | `FailedWritesStayOut` is violated |
| `table_keys` | 2 unique columns, one with +0, -0, NaN and a number; 4 keys, 3 rows, batches of 2; 240 states | `ConstraintsHold`, `CachesMatchRows`, `FastUpsertIsGeneral` |
| `table_mixed` | a key, a nullable scalar, a vector; one index; 3 rows, slabs and blocks of 2; 1,374 states | `GenerationNamesContent`, `IndexedIsScan` |
| `table_slabs` | a key and a nullable vector; 5 rows, slabs and blocks of 2, loads of 3; 742 states | `CachesMatchRows` |
| `graph` | 2 documents, 4 bodies and metadata, 5 commits, 1 edit with SQL, 1 HTTP ingestion; 184,543 states | `ReplayAgrees`, `ReferencesHold`, `AppendIsGeneral`, `CheckedDocumentFits`, `CacheIsSound`, `ActsOnWhatItRead`, `IngestRepairs` |
| `graph_extremes` | one document with the lowest integer | `ReplayAgrees` is violated |
| `server` | 3 lives, 2 slots, 2 commits, 1 failed save; 212,104 states | `PermitsMatchTasks`, `CleanStopKeepsAcknowledged`, `EditsAreCurrent`, `RequestsAreFresh`, `RequestEnds`, `AutosaveCatchesUp` |
| `providers` | 4 scenarios: settings files, changing spaces, chats, competition; 393,991 states | `PermitsMatch`, `OneVectorEach`, `PaidWorkWasCovered`, `SearchesItsOwnSpace`, `RestartKeepsSettings` |
| `reads` | every request of `MCReads` and `MCGraphReads`; 769,216 states | `TypesAreSound`, `QueryIsReference`, `JoinIsReference`, `ChunksCoverText`, `WalksAreExplored`, `RetrievalIsExplored`, `ContextFits`, `AcceptedIsGrounded` |

What the properties say of the store and of tables:

- `VisibleIsDurable`: in every state, whatever files a power loss would leave
  now can be opened and hold everything a client could read, in order.
- `NeverRefused`: no history of writes, failures and restarts makes the start
  refuse the directory.
- `AppliedOnce`: no overlap of snapshot and log applies a mutation twice.
- `GuardedEditIsCurrent`: a guarded write past its check commits on the catalog
  its client has read, also across restarts.
- `SnapshotNeverRegresses`: while the process runs, the snapshot file is never
  replaced by an older catalog.
- `ImplementsCommittedLog`: clients see one sequence that only grows; when the
  process ends, at most the one mutation in flight turns up at its end.
- `EveryRequestEnds`: with fair threads no request waits for ever.
- `ConstraintsHold`: no path lets in a duplicate key, a forbidden null or a row
  too many, though the fast ones look only at what they change.
- `CachesMatchRows`: after any mix of fast and general statements keys and
  buckets are what a rebuild gives, and the dense cache answers for each row.
- `GenerationNamesContent`: one storage id, one content of the whole row.
- `FastUpsertIsGeneral`: in every state and for every batch, the fast upsert
  refuses what the general one refuses and otherwise leaves the same rows.
- `IndexedIsScan`: index lookups give the rows of a scan, in its order, wherever
  the scan does not stop at a NaN.

Of a graph collection:

- `ReplayAgrees`: executing the logged text gives the rows in memory, after any
  sequence of operations and raw SQL.
- `ReferencesHold`: without raw SQL, edges join stored chunks, chunks have their
  document, documents are undamaged.
- `AppendIsGeneral`: where the append path applies it decides and does what the
  staged path would.
- `CheckedDocumentFits`: a document that passed the checks before its texts were
  paid for is not refused for its size afterwards, if nothing was written.
- `CacheIsSound`: a generation the cache knows has only chunks of its profile.
- `ActsOnWhatItRead`: a request that read under four locks and embedded under
  none writes, or answers "unchanged", only on the document it first read.
- `IngestRepairs`: ingesting a document leaves it undamaged whatever SQL did.

Of the server and the providers:

- `PermitsMatchTasks`: a permit for every closure queued or running, with its
  client or without, never more than the limit.
- `CleanStopKeepsAcknowledged`: a `run()` that returns without an error leaves
  every acknowledged commit in the snapshot.
- `EditsAreCurrent`: a row edit commits for the columns the table has and the
  listing its client saw.
- `RequestsAreFresh`, `RequestEnds`: an old shutdown request stops nothing; a new
  one ends the process whatever runs.
- `AutosaveCatchesUp`: what is committed reaches the snapshot without a stop.
- `PermitsMatch`: every counter of the providers is the number of what it counts,
  and no more answers are generated at a time than allowed. (The limit of a service
  is a setting; lowered, it bounds new requests only.)
- `OneVectorEach`, `SearchesItsOwnSpace`: the vectors of an answer are those of
  its texts, in order and in one space; a collection is searched in its own.
- `PaidWorkWasCovered`: a request that has paid for a call is not refused for
  want of a later key, unless settings changed since it came.
- `RestartKeepsSettings`: a process starts with the settings acknowledged last or
  attempted since. (After a failed directory sync the file may hold settings that
  were refused, and a restart loads them: they were attempted.)

Of reads:

- `TypesAreSound`: the type the planner gives an expression is that of its value
  on every row, or the value is NULL, or the data are refused.
- `QueryIsReference`, `JoinIsReference`: the rows are a slice of an order SQL
  allows of the candidates SQL names, computed here by nested loops and sets, and
  "too many rows" comes exactly beyond the cap. A query over one table is refused
  exactly when the data of a row it must look at are: every row with ORDER BY or
  groups, otherwise those up to the one that fills OFFSET plus LIMIT, and the first
  candidate even for `LIMIT 0`. A join is refused only on data.
- `ChunksCoverText`: chunks advance, cover the text, keep to their section and to
  the overlap asked for, end at the best boundary, and are what the graph accepts.
- `WalksAreExplored` has two parts. `NeighborhoodIsExplored`: a neighborhood keeps its
  limits, each node is one step from the layer before, its edges are the strongest
  rows of the links among its nodes; without `truncated` it holds what is within its
  hops, each node at its distance, has nothing beyond, and lacks no link.
  `SearchIsExplored`: a search keeps its limits and is breadth first; its seeds are the
  chunks most similar to the query; every other hit hangs on an edge that is returned,
  from a hit before it and one hop nearer, however many the limits cut (the code prefers
  edges it discovered a chunk by); without `truncated` it holds every chunk within its
  hops at its distance and the strongest row of every link among them.
- `RetrievalIsExplored`: the path of a retrieved chunk leads from a seed to it within
  the policy and earns its score, seeds are the best ranked chunks, limits are kept;
  without `truncated` (`docs/GRAPH_RAG.md:228`, `:530`) every ranked chunk, every chunk
  within the hops and every link among them is there. A ranking cut to
  `candidate_limit` before the walk begins is not reported, so the promise starts
  from the ranked chunks.
- `ContextFits`: budgets for bytes, documents and results hold together, nothing
  is left out but by a budget or a repeat, and `truncated` says so.
- `AcceptedIsGrounded`: an accepted answer cites sources that were sent, with a
  quotation long enough from each, and speech says only what was accepted.

**Bounds.** Two threads are enough for every pair of overlapping operations (a
commit or save against a checkpoint, two commits); a third waits for the same
locks. Three mutations with a checkpoint at two records let a log grow, be
reset, grow again, and be half way into its third record when a crash comes. Two
crashes reach a crash during or after recovery from another. `BatchSize = 2`
makes a private revision run ahead of the durable one, so a revision taken from
the wrong counter would meet a later one. Requests are bounded by
`MaxRequests`, ends of the process by `MaxCrashes`. Threads and mutations are
symmetric (no liveness is checked under symmetry).

In `TableStore`, identifiers are symmetric. Two rows exchange keys and a third
stands between or behind them; four identifiers for three rows make the row
limit bite. With slabs and blocks of two rows, five rows give every layout of
slabs of one and two rows, so a slab may begin in one block and end in the next,
twice in a row; `LoadRows = 3` makes a load cut slabs elsewhere than an append.
A typed conflict update that sets its own key sets all columns, `SqlUpsert`
inserts one row, and the WHERE of an update names one value.

In `GraphStore`, a body of one piece and one of two, of which one is shared, give
every overlap of old and new chunks and edges inside and between documents; one
generation in the cache makes it forget. Three lives of `Server` separate what
is independent: saves and stops under plain writes with one permit, with and
without autosave, and edits and listings with two permits and no stop; two slots
let a client leave while another request waits. The four scenarios of
`Providers` do the same for settings files, vector spaces, the stages of a chat
and permits. The requests of `reads` are all expressions of depth two from a set
of leaves of every type; all tables of at most three rows of four; limits and
offsets on both sides of every row count, and one past `UsizeMax`; conditions,
keys, groups and sums that some rows refuse and others do not; joins of three
tables; documents of three lines with every configuration up to five characters;
graphs of five chunks with cycles, a doubled link and an edge of weight zero.

**Fairness.** `FairSpec` has weak fairness of each thread's own steps: a thread
that can run is eventually scheduled, and file operations return. No request,
crash or error has to happen. A lock whose holder is fair is eventually free;
that requests are finitely many keeps a waiting thread from being overtaken for
ever, which a `RwLock` would not promise. In `Server`, the main task, the autosave
thread, the poll of the shutdown file and each task on a blocking thread are
weakly fair: threads are scheduled, intervals, polls and the grace period end.
Nobody has to send a request, leave, or ask for a stop, and a save fails at most
`MaxFailures` times.

**Deadlock.** TLC's deadlock check is on except in `graph`, whose budgets of
commits and edits end, and in `server`, whose process does. In the store a client can read whenever
no thread holds the write lock, and a directory that is closed can be opened, so
a state without a step would be one where the locks wait for each other. A table
can always be read, loaded or changed; a provider's request can always be left.

## Findings

1. *Recovery trusts unsynchronized records* (`recovered_unsynced`). `open_wal`
   synchronizes what it repairs but not what it reads. A record a killed process
   wrote and never synchronized is replayed, its sequence number goes into a
   snapshot or is shown as a revision, and a later power loss takes the record
   away. Then the next commit leaves a gap behind the older log and the following
   start is refused; or another mutation gets the same revision and a stale edit
   passes its check (`GuardedEditIsCurrent` fails in `MCDurableStore` with
   `WriteBack = FALSE`).
2. *A failed synchronization is not a failed transaction* (`failed_write`): the
   record stays in the file and the next start commits it.
3. *The lowest integer in a graph's metadata* (`graph_extremes`): its SQL text
   does not read back, so an acknowledged document stops the next start.
4. *Fallback of `replace_file`*: between its renames there is no snapshot, and
   the next start does not look for the backup (`VisibleIsDurable` fails in
   `MCDurableStore` with `RenameFallback = TRUE`).
5. *A NaN behind an index*: a typed insert into an in-memory database accepts a
   NaN; a scan of the column then fails, a lookup through an index does not, so
   the two query paths differ, and `IndexedIsScan` is stated for scans that do
   not meet one. (The log and snapshots refuse a NaN.)
6. Without a run: the documentation says that deletes and conflict updates
   rebuild all caches (`docs/ARCHITECTURE.md:336-337`), the code changes them in
   place; `README.md:826` calls the revision an in-process token, the
   code persists it; a typed insert of more than 1,000,000 rows is logged and
   cannot be decoded.

## Proofs

`DurableStoreProofs` proves `TypeCorrect` for every value of the constants; its
invariant adds to `TypeOK` only that a thread past `LockCatalog` carries a real
mutation (otherwise `Publish` would put `NoOp` into a history).

The other theorems assume `FileSystem == WriteBack = TRUE /\ RenameFallback =
FALSE`; `recovered_unsynced` and findings 1 and 4 show that they fail
without it. Neither property
is inductive: `VisibleIsDurable` speaks of files, and a step of a thread depends
on what that thread captured several steps before. The inductive invariant is

- `LocksHeld`: which thread holds what at which step, so that nobody commits
  while a checkpoint runs and one snapshot is under way at a time;
- `Agree(H)` for some sequence `H` of mutations: the durable sequence of every
  catalog, private copy and snapshot image is the length of its history, which
  is a beginning of `H`; and every log image is a segment of `H` that starts no
  later than after the oldest snapshot image. `H` is what an undisturbed
  recovery would give, one longer than the catalog while a record is in flight.

The first part of `DurableStoreProofs` has the facts about the files: a snapshot that is a beginning
of `H` and a log that is a segment of it, overlapping or adjoining, are
recoverable and give a beginning of `H` (`Recovered`); an append, a cut and a
reset keep this (`LogGrows`, `LogCut`, `EmptyLogFrom`, `LogStays`). Every step
keeps `Agree` with the same `H`, except an append (which extends it) and an end
of the process (which may drop its last mutation). `SafetyInvariant` is the
result; `Durability`, `Availability`, `Currency` and `Progression` follow from
it. `SingleApplication` (`AppliedOnce`) needs more: that `H` itself repeats no
mutation. `OnceInv` adds that `H` is injective, that its members were sent, and
that mutations on their way to the log are pairwise different and not in it; that
a step only extends `H` or drops its last member is `Continues`. `Refinement` maps each step to a step or a stutter of `CommittedLog`:
`Publish` is `Commit`, an end of the process is `Stop`, `Recover` is `Restart`.

`TableStoreProofs` proves `KeysFollowPatch`: for any rows and any patch whose
result has distinct keys, `MoveKeys` turns the exact map of the old rows into
the exact map of the new ones, whatever keys the rows exchange. It needs from
the constants only that `Null` and `NaN` differ from the zeros. `Constraints`
(`ConstraintsHold`) is for any columns, rows and bounds. It is not inductive: an
insert and the typed upsert compare new keys with the key maps and never with the
rows, and a delete finds its rows through the indexes. `Relational` adds that
every key map names exactly the keyed rows (`NamesRows`) and every bucket lists
exactly the rows of its key, ascending (`Posted`); one lemma per statement shows
that it is kept. What a fold of the code's loops computes (`Accept`, `TakeRow`,
`UpdateRow`, `Leave` and `Enter`, `IntoBucket`) is proved turn by turn: `FoldRuns`
gives the sequence of its intermediate results, over which the proof is by
induction in sets of numbers.

In `TableCachesProofs`, `Caches` (`CachesMatchRows`) and `Generations`
(`GenerationNamesContent`) need `Dense` as well. That a dense column answers for
every row is not inductive: the answer goes through the slab remembered for the
row's block, so `Packs` says that the slabs lie end to end and hold the values
(`Aligned`), and that the slab remembered for each block holds the block's first
row (`LooksUp`); the search from there then ends at the right slab
(`ChunkIndexIs`). Slabs may have any length, as appends and deletes leave them:
`PushPacks`, `AppendPacks`, `LoadPacks`, `RepackPacks` and `DeletePacks` say what
the loops over them build. The same `Dense` says that the remembered content is that
of the rows. The runs of `TableSlabs` and `TableMixed` were also made with
`Relational` and `Dense` as invariants.

`Lookups` (`IndexedIsScan`) and `Upserts` (`FastUpsertIsGeneral`) follow from
`Relational` alone. A lookup joins and sorts postings and tests rows of one side
against the other: `TermRowsMeet` says that the rows of an indexed term ascend and
are exactly those on which the term holds, `AdmitsIs` that a row is admitted exactly
when the other term holds on it; ascending lists of one set are equal. The property
lets the scan and the lookup differ where the scan refuses a NaN; the proof does not
need that exception, as no key of a term is NaN. The two upserts are run side by side:
`InStep` relates the patch to the working rows after the same number of rows of the
batch (same verdict, the working rows are the patched and appended ones, a row is
touched exactly when the patch has it), and `StepsTogether` keeps it, since the key
map and the set of inserted keys find what the scan of the working rows finds
(`MatchingAre`). At the end `FitsIs` shows that comparing only the staged rows with
the keys of untouched rows is comparing all resulting rows.

`ServerProofs` is for any set of lives, any number of slots and any bounds.
`CleanStopKeepsAcknowledged` needs that the snapshot file never goes back, though
two parties write it: `Copies` says that whoever holds `snapshot_lock` holds a
copy at least as new as the file; `Known` that nothing a client or a file knows
is newer than the catalog; `Stops` that the autosave thread has returned before
the last save copies the catalog, and that the copy has everything acknowledged.
`PermitsMatchTasks` is about the cardinality of the slots whose task holds a
permit; the `Busy...` lemmas say how a step of one task changes it. `EditsAreCurrent`
needs `Current`: a listing whose revision is still the catalog's shows its
columns, although revision and columns were read under two locks, since a change
of columns is a commit too.

`ProvidersProofs` is for any scenarios, models, limits and batch sizes. Its
invariant has a part for each thing that is hard to see in the code. `SettingsKept`:
the settings a start would load now, from the file or from what a power loss
leaves of it, are in `kept`, at each step of an update; `RestartLoads` follows.
`Counted`: each counter is the cardinality of the requests it counts; `MoveStep`
shows it once, for any step that replaces one request by another. `Formed` and
`Embedded`: what a request carries at each stage, and that its vectors are those
of its first texts in the space of the captured settings; `OrderedVectors` is the
lemma that a complete reply, sorted by its indexes, gives the next texts in order.
`Covered`: a request whose settings have not changed has passed every check its
stage needs (`Needed`), or has it before it and has paid nothing; a rewrite is
the first paid call, so its checks include those of all later stages, and the
profile stays needed until the query is embedded. `NothingIsAbsent`,
`SettingsAssumption` and `ScenariosAssumption` are what it needs of the constants:
an absent value is no profile, models have dimensions, and requests and updates
have their types.

`GraphStoreProofs` is for any clients, documents, bodies, similarities and limits.

- `Reading`: what a request carries; whoever is past a read and whose revision is
  still the catalog's sees the same profile, document and chunks (`Current`).
  `RequestsAct` follows, because every write compares the revision.
- `Cached`: no generation is newer than the revision, so a generation is given to
  chunks once; an entry names chunks of its own profile. Only chunks that get a
  new generation may change their profile. `CacheHolds` follows.
- `Formed`: every row has its form, ids are unique, a chunk's id begins with its
  document's; SQL edits keep this, though they break references. Hence
  `NothingRemoved`: where the append path applies there is nothing the staged path
  would remove (`AppendAgrees`).
- `Referenced`: without edits, the references hold. It takes the lemmas that the
  neighbors of a new chunk are stored chunks and that removing a document removes
  each edge that touches it (`RefsWith`, `RefsWithout`), and that a row's
  fingerprint is that of its chunks (`ReferencesAlways`). `IngestsRepair` needs
  only `Formed`, which holds under edits too.
- `ReplaysAgree` executes the logged statements of each operation one by one and
  compares the result with the change in memory: a deletion by the ends of edges
  with the one over rows, an upsert with its two statements. Its hypothesis
  `LegibleRequests` excludes the one column value that `graph_extremes` shows to be
  needed: nothing else may be illegible.
- `CheckedFits` needs that what `CheckCapacity` bounds is at least what is made
  (`CapacityFits`: neighbors are at most `SemanticNeighbors`, two edges for each; the
  chunks that do not carry a removed id are those of the other documents), and that
  no row is refused for its id (`Edged`: an edge's id is its relation or one of the
  client's own, and ids are unique under SQL edits and upserts too). `Passed` carries
  the check over the stages between.

What a `Where` returns is proved in `RowsProofs` by induction over the length of a
sequence. The library's induction rules take an operator as parameter; the proofs
state the smallest counterexample as a set of numbers instead (`NaturalSets`,
`SequenceSets`), which needs first-order facts only.

`GraphReadsProofs` is about `GraphSpec`, the requests about documents alone, for any
set of requests: any document (a list of lines, each a list of letters) and valid
configuration, any graph and bounds of a neighborhood or a search, any snapshot of candidates and
options, any generated answer and sources.
`AnswersHold` says that an answer is
what its operator computes, so the rest is about the operators.

- `ChunksCover`: `CutsHold` is the invariant of the loop of `chunk_text`, one turn at
  a time: what is cut so far advances, covers the text up to `covered_end`, ends at the
  best boundary in reach, and the next start lies inside the last chunk, past the middle,
  or at a heading. A refusal is right because another limit on the number of chunks does
  not change a turn (`CutsAgree`): with as many chunks as letters the loop gets to the
  end, and needs more chunks than allowed (`RefusedNeedsMore`). That the chunks left
  without the blank ones pass `validate_preview` needs that what lies between two of
  them is blank (`StoredIsValid`).
- `ContextsFit`: `Selecting` is the invariant of the rounds of `finalize`. Its parts:
  what is chosen keeps the budgets (`Budgeted`); the redundancies kept from round to
  round are the greatest with any choice, so each choice prevails over all that was
  available when it was made (`Compared`); each candidate that is out has a reason,
  which later rounds keep, and `truncated` says whether there is one (`Explained`). A
  round keeps the parts whether it closes the selection (`CloseHolds`) or takes the
  best (`TookBudgeted`, `TookCompared`, `TookExplained`); that there is a best needs
  that candidates are finite and their chunks distinct (`BestFitting`).
  `ContextAssumption` asks for that, and for the ranges `finalize` checks first: passages
  that end after they start, and a diversity of at most one.
- `NeighborhoodsExplored`: `LayerHolds` is what is true after every layer: depths are
  those of a walk, the frontier is the last layer, and as long as nothing was cut, what
  is at a depth of at most `d` is what is reached in `d` hops (`Reached`, the reference).
  `LayerKeeps` is the step: offers that are not cut, per parent and for the room left,
  are all there were (`MergedAre`, `AdmittedAre`), and what earlier layers lead to has
  been reached. The last layer looks one hop further (`LastLayerLooks`). For the edges,
  `BoundedEdges` replaces and evicts as rows come; `KeepsFirst` says what it holds after
  any set of rows: the first `max_edges` of the strongest row of each link. One row more
  stays out, enters or replaces another (`RowsOfMore`), and each keeps this
  (`InsertKeeps`), so the order of rows does not matter. `First` and its lemmas are
  about the first elements of a finite set in any strict order, given as a set of pairs,
  and `FoldRuns` and `InsertFolds` turn the folds into runs with an induction over
  numbers. `NeighborhoodAssumption` asks for finitely many edges that join nodes of the
  graph, and for the ranges `validate` checks, without their upper ends.
- `WalksExplored` adds searches (`SearchesExplored`). `SearchHolds` is the invariant of
  the queue. It is about the trail, the hits followed by what is pending: no chunk is on
  it twice and it has every visited one (`OnceEach`), depths do not fall and what is
  pending is at most one hop further than what was visited last (`BreadthFirst`), each
  chunk that is no seed has a place before it whose edge is among those of the discovery
  (`AllHang`, `Discovered`), and no chunk discovered more than `neighbor_limit` others,
  which is why the limit on returned edges can never cut an edge something hangs on
  (`ReturnedHold`). `AdmitKeeps` is one link, `VisitKeeps` one chunk; `LooksOut` says
  that a visited chunk has all its neighbors on the trail unless something was cut, and
  gives completeness (`HitsReached`). The loop ends with nothing pending because the
  trail is no longer than the graph (`SearchEnds`). `RankTaken` shows that in a finite
  strict order every rank is taken by an element, so that the list the code sorts is
  the `InOrder` of the model (`RanksAre`, `LinksAre`). `SearchAssumption` asks for
  finite graphs, weights that are not negative and no more seeds than results, which
  `graph_search` checks or storage keeps.
- `AcceptedGrounded`: `SupportIsSubstantial` shows that the trimmed quotation the code
  looks for is found in the source as the quotation is; `VoicedIs` that speech carries
  no label; one lemma for each way a generated text ends (accepted, abstained,
  withheld, standard).

Model-checked only: the reads of SQL, whose recursive operators the prover does not
take; `RetrievalIsExplored`; and `EveryRequestEnds`, `RequestEnds` and
`AutosaveCatchesUp`, as liveness is outside the prover's reach. `RetrievalIsExplored`
is not true of every value of the constants: strengths are whole multiples of
1 / `RrfScale`, and a walk is proposed only if it brings more than zero. With a scale as
small as 61 a strength is rounded to zero on the second hop and the walk ends early, and
TLC finds the property violated; `reads` takes a scale that every rank and weight it
meets divides. The floating-point strengths of the code stay above zero over its few hops.

## Not modelled

- Record and snapshot bytes, their limits and checksums (a record has a right or a
  wrong checksum); the directory lock (one process at a time); poisoned locks;
  exports to other paths; in-memory databases. The statements inside a batch: in
  `DurableStore` it is one mutation that commits or changes nothing.
- Parsing of SQL, resolution of names and scopes, parameters; creating and
  dropping tables and the copy-on-write map that holds them.
- Typed searches beyond their ranking, BM25 itself, metadata filters beyond the
  set of documents they leave, statistics and listings of collections.
- Floating-point rounding, SIMD and GPU kernels and their fallback: numeric
  programs out of the reach of these tools.
- Routing, authentication, the shape of requests and responses, what is sent to
  the providers; the memory-only mode of their settings.
- The parse cache: two short critical sections behind one mutex, thirty lines, on
  which nothing else depends.
- The shell, the updater, the SDK, the web console and the installers: input and
  output around what is modelled.

## Plan

What is left, in order of importance:

1. `TableStore` for several tables: CREATE and DROP TABLE and `table_map.rs`.
