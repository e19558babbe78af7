----------------------------- MODULE TableStore -----------------------------
(***************************************************************************)
(* One table of the engine and the caches kept beside its rows: the unique  *)
(* keys, the secondary hash indexes and the dense vector columns with their *)
(* slabs (src/engine.rs Table, src/engine/upsert.rs, src/engine/deletion.rs, *)
(* src/engine/index_selection.rs).                                          *)
(*                                                                          *)
(* Every statement runs under the catalog's write lock, so a step is one    *)
(* whole statement.  The fast paths (append, typed upsert, delete) change   *)
(* the caches in place; the general ones (SQL conflict update, UPDATE,      *)
(* snapshot load) rebuild them.  A statement that is refused leaves the     *)
(* table as it was; it is no step.                                          *)
(*                                                                          *)
(* Rows are numbered from 1 (the code: from 0).  Vectors are values like    *)
(* any other; Zero and NegZero stand for +0 and -0, in a float or a vector. *)
(* A storage_id is drawn from a counter that never repeats, so it is        *)
(* modelled by what a reader's cache holds under the current one:           *)
(* "remembered", which is NoRows as long as no cache knows the id.          *)
(***************************************************************************)
EXTENDS Rows

CONSTANTS
    Columns,      \* the columns of the table
    Unique,       \* those declared UNIQUE or PRIMARY KEY
    Nullable,     \* those that may hold Null
    Vectors,      \* those of type VECTOR, which have a dense cache
    Domain,       \* the values a column may hold, Null apart
    Null, Zero, NegZero, NaN,
    NoRows,       \* the content of a cache that knows nothing
    IndexNames,   \* names of secondary indexes
    MaxTableRows, \* MAX_TABLE_ROWS
    SlabRows,     \* rows in one slab of vectors (VECTOR_SLAB_TARGET_BYTES)
    BlockRows,    \* VECTOR_CHUNK_LOOKUP_ROWS
    LoadRows,     \* rows a snapshot load packs at a time
    MaxBatch      \* bound: rows of one INSERT

ASSUME TableStoreAssumption ==
    /\ Unique \subseteq Columns
    /\ Nullable \subseteq Columns
    /\ Vectors \subseteq Columns
    /\ Null \notin {Zero, NegZero, NaN}
    /\ NaN \notin {Zero, NegZero}
    /\ \A c \in Columns : Null \notin Domain[c]
    /\ \A c \in Vectors : NaN \notin Domain[c]
    /\ {MaxTableRows, SlabRows, BlockRows, LoadRows, MaxBatch} \subseteq Nat \ {0}

VARIABLE table  \* rows, indexes, unique_keys, vector_columns

Values(c) == Domain[c] \cup {Null}
Rows == {row \in [Columns -> UNION {Values(c) : c \in Columns}] :
            \A c \in Columns : row[c] \in Values(c)}

-----------------------------------------------------------------------------
(* Values.  UniqueKey::from gives both zeros one key; PartialEq is that of   *)
(* floats: NaN is not equal to itself.  same_value compares bits: it is =.   *)

Key(value) == IF value = NegZero THEN Zero ELSE value
Equal(left, right) == left # NaN /\ Key(left) = Key(right)

ValidRow(row) == \A c \in Columns \ Nullable : row[c] # Null

\* A map with the key set to the value.
Put(map, key, value) == [k \in DOMAIN map \cup {key} |-> IF k = key THEN value ELSE map[k]]

ColumnOf(rows, c) == [p \in DOMAIN rows |-> rows[p][c]]
\* The members of a set of positions, ascending.
Positions(set) == Where([p \in 1 .. Max({0} \cup set) |-> p], LAMBDA p : p \in set)

-----------------------------------------------------------------------------
(* Dense vector columns: slabs of consecutive rows and, for each block of    *)
(* BlockRows rows, the slab that holds the block's first row.                *)

EmptyDense == [row_count |-> 0, chunks |-> <<>>, chunk_lookup |-> <<>>,
               remembered |-> NoRows]

NewGeneration(dense) == [dense EXCEPT !.remembered = NoRows]

PushChunk(dense, values) ==
    LET blocks == (dense.row_count + Len(values) - 1) \div BlockRows + 1
        missing == blocks - Len(dense.chunk_lookup)
    IN  NewGeneration(
          [dense EXCEPT
            !.row_count = @ + Len(values),
            !.chunks = Append(@, [first |-> dense.row_count, values |-> values]),
            !.chunk_lookup = @ \o [b \in 1..missing |-> Len(dense.chunks) + 1]])

\* The pieces of a sequence, each of the given size, the last perhaps shorter.
Pieces(values, size) ==
    [i \in 1 .. (Len(values) + size - 1) \div size |->
        SubSeq(values, (i - 1) * size + 1, Min({i * size, Len(values)}))]

AppendRows(dense, values) ==
    FoldLeft(LAMBDA d, piece : PushChunk(d, piece), dense, Pieces(values, SlabRows))

\* A mutant of ChunkIndex: the slab that reaches over the block's end is left out.
ChunkInsideBlock(dense, p) ==
    LET block == (p - 1) \div BlockRows + 1
        last == IF block < Len(dense.chunk_lookup) THEN dense.chunk_lookup[block + 1] - 1
                ELSE Len(dense.chunks)
    IN  IF p > dense.row_count THEN 0
        ELSE Max({0} \cup {i \in dense.chunk_lookup[block] .. last : dense.chunks[i].first < p})

\* The slab that holds row p: the last that starts before it among those that
\* overlap its block; 0 if there is none.
ChunkIndex(dense, p) ==
    LET block == (p - 1) \div BlockRows + 1
        first == dense.chunk_lookup[block]
        last == IF block < Len(dense.chunk_lookup)
                THEN Min({dense.chunk_lookup[block + 1], Len(dense.chunks)})
                ELSE Len(dense.chunks)
    IN  IF p > dense.row_count THEN 0
        ELSE Max({0} \cup {i \in first..last : dense.chunks[i].first < p})

\* DenseVectorColumn::get; Null where the code answers None.
DenseGet(dense, p) ==
    LET chunk == dense.chunks[ChunkIndex(dense, p)]
    IN  IF ChunkIndex(dense, p) # 0 /\ p - chunk.first <= Len(chunk.values)
        THEN chunk.values[p - chunk.first]
        ELSE Null

-----------------------------------------------------------------------------
(* Unique keys (key -> row) and index buckets (key -> rows, ascending).      *)

\* The maps after the rows behind the first ones were added.
ExtendKeys(keys, c, rows, first) ==
    LET added == {p \in first + 1 .. Len(rows) : rows[p][c] # Null}
    IN  [k \in DOMAIN keys \cup {Key(rows[p][c]) : p \in added} |->
            LET mine == {p \in added : Key(rows[p][c]) = k}
            IN  IF mine = {} THEN keys[k] ELSE Max(mine)]

ExtendBuckets(buckets, c, rows, first) ==
    LET added == {p \in first + 1 .. Len(rows) : rows[p][c] # Null}
    IN  [k \in DOMAIN buckets \cup {Key(rows[p][c]) : p \in added} |->
            (IF k \in DOMAIN buckets THEN buckets[k] ELSE <<>>)
              \o Positions({p \in added : Key(rows[p][c]) = k})]

ExtendIndex(index, rows, first) ==
    [index EXCEPT !.buckets = ExtendBuckets(@, index.column, rows, first)]
BuildIndex(c, rows) == [column |-> c, buckets |-> ExtendBuckets(<<>>, c, rows, 0)]

ExtendIndexes(t, first) ==
    [t EXCEPT
       !.indexes = [n \in DOMAIN @ |-> ExtendIndex(@[n], t.rows, first)],
       !.unique_keys = [c \in DOMAIN @ |-> ExtendKeys(@[c], c, t.rows, first)],
       !.vector_columns = [c \in DOMAIN @ |->
           AppendRows(@[c], SubSeq(ColumnOf(t.rows, c), first + 1, Len(t.rows)))]]

RebuildRelational(t) ==
    [t EXCEPT
       !.indexes = [n \in DOMAIN @ |-> BuildIndex(@[n].column, t.rows)],
       !.unique_keys = [c \in Unique |-> ExtendKeys(<<>>, c, t.rows, 0)]]

RebuildIndexes(t) ==
    [RebuildRelational(t) EXCEPT
       !.vector_columns = [c \in Vectors |-> AppendRows(EmptyDense, ColumnOf(t.rows, c))]]

AppendTo(t, rows) == ExtendIndexes([t EXCEPT !.rows = @ \o rows], Len(t.rows))

-----------------------------------------------------------------------------
(* Constraints, and INSERT without a conflict update.                        *)

NoKeys == [c \in Unique |-> <<>>]

\* validate_unique: a pending row meets a stored key or an earlier pending row.
UniqueFails(keys, pending) ==
    \E c \in Unique : \E i \in DOMAIN pending :
        /\ pending[i][c] # Null
        /\ \/ Key(pending[i][c]) \in DOMAIN keys[c]
           \/ \E j \in 1 .. i - 1 : Key(pending[j][c]) = Key(pending[i][c])

HasCapacity(current, additional) == current + additional <= MaxTableRows

Refused(t) == [ok |-> FALSE, table |-> t]
Done(t) == [ok |-> TRUE, table |-> t]

InsertOrFail(t, pending) ==
    IF UniqueFails(t.unique_keys, pending) \/ ~HasCapacity(Len(t.rows), Len(pending))
    THEN Refused(t)
    ELSE Done(AppendTo(t, pending))

RowConflicts(t, accepted, row, columns) ==
    \E c \in columns :
        /\ row[c] # Null
        /\ \/ Key(row[c]) \in DOMAIN t.unique_keys[c]
           \/ \E i \in DOMAIN accepted : Equal(accepted[i][c], row[c])

Accept(t, columns, accepted, row) ==
    IF RowConflicts(t, accepted, row, columns) THEN accepted ELSE Append(accepted, row)

Accepted(t, pending, columns) ==
    FoldLeft(LAMBDA accepted, row : Accept(t, columns, accepted, row), <<>>, pending)

InsertDoNothing(t, pending, columns) == InsertOrFail(t, Accepted(t, pending, columns))

-----------------------------------------------------------------------------
(* The typed upsert (upsert.rs): a patch prepared against the unique keys,   *)
(* then applied to rows and caches in place.                                 *)

\* A mutant of FindConflict: NaN meets a stored NaN.
FindAnyConflict(t, conflict, value) ==
    IF Key(value) \in DOMAIN t.unique_keys[conflict]
    THEN t.unique_keys[conflict][Key(value)] ELSE 0

\* The stored row that holds the conflict key; 0 if none.  NaN meets nothing.
FindConflict(t, conflict, value) ==
    IF value \notin {Null, NaN} /\ Key(value) \in DOMAIN t.unique_keys[conflict]
    THEN t.unique_keys[conflict][Key(value)]
    ELSE 0

Overlay(existing, excluded, columns) ==
    [c \in Columns |-> IF c \in columns THEN excluded[c] ELSE existing[c]]

\* One turn of prepare's loop.
TakeRow(t, conflict, columns, patch, excluded) ==
    LET value == excluded[conflict]
        row == FindConflict(t, conflict, value)
        repeated == \/ value \notin {Null, NaN} /\ Key(value) \in patch.inserted
                    \/ row \in DOMAIN patch.updates
        replacement == Overlay(t.rows[row], excluded, columns)
    IN  IF ~patch.ok \/ repeated THEN [patch EXCEPT !.ok = FALSE]
        ELSE IF row # 0
        THEN [patch EXCEPT !.ok = ValidRow(replacement),
                           !.updates = Put(@, row, replacement)]
        ELSE [patch EXCEPT !.appended = Append(@, excluded),
                           !.inserted = @ \cup ({Key(value)} \ {Null, NaN})]

\* prepare's loop: the rows to replace, by position, and the rows to append.
EmptyPatch == [ok |-> TRUE, updates |-> <<>>, appended |-> <<>>, inserted |-> {}]
Patch(t, pending, conflict, columns) ==
    FoldLeft(LAMBDA patch, excluded : TakeRow(t, conflict, columns, patch, excluded),
             EmptyPatch, pending)

\* A mutant of PatchFits: only appended rows are compared with the stored keys.
AppendedFit(t, updates, appended) ==
    ~UniqueFails(t.unique_keys, appended) /\ HasCapacity(Len(t.rows), Len(appended))

UntouchedKeys(keys, updates) ==
    Restrict(keys, {k \in DOMAIN keys : keys[k] \notin DOMAIN updates})

\* The final state's keys: those of untouched rows against the staged rows.
PatchFits(t, updates, appended) ==
    LET order == Positions(DOMAIN updates)
        staged == [i \in DOMAIN order |-> updates[order[i]]] \o appended
    IN  /\ ~UniqueFails([c \in Unique |-> UntouchedKeys(t.unique_keys[c], updates)], staged)
        /\ HasCapacity(Len(t.rows), Len(appended))

\* The updates that change the key of a column.
Moved(rows, updates, c) == {p \in DOMAIN updates : ~Equal(rows[p][c], updates[p][c])}

\* A mutant of MoveKeys: each row's old key goes when its new one comes.
MoveKeysInTurn(keys, c, rows, updates) ==
    LET Move(ks, p) ==
          LET rest == Restrict(ks, DOMAIN ks \ {Key(rows[p][c])})
          IN  IF updates[p][c] = Null THEN rest ELSE Put(rest, Key(updates[p][c]), p)
    IN  FoldLeft(Move, keys, Positions(Moved(rows, updates, c)))

\* Old keys go before new ones come, so that rows may exchange their keys.
MoveKeys(keys, c, rows, updates) ==
    LET moved == Moved(rows, updates, c)
        old == {Key(rows[p][c]) : p \in {q \in moved : rows[q][c] # Null}}
        arrived == {p \in moved : updates[p][c] # Null}
        new == {Key(updates[p][c]) : p \in arrived}
    IN  [k \in (DOMAIN keys \ old) \cup new |->
            IF k \in new THEN CHOOSE p \in arrived : Key(updates[p][c]) = k ELSE keys[k]]

\* A bucket with the row inserted before the first row behind it.
IntoBucket(bucket, p) == InsertAt(bucket, Len(Where(bucket, LAMBDA q : q < p)) + 1, p)

\* The row leaves the bucket of its old value; an empty bucket goes.
Leave(buckets, value, p) ==
    LET k == Key(value)
        rest == Where(buckets[k], LAMBDA q : q # p)
    IN  IF value = Null THEN buckets
        ELSE IF rest = <<>> THEN Restrict(buckets, DOMAIN buckets \ {k})
        ELSE [buckets EXCEPT ![k] = rest]

Enter(buckets, value, p) ==
    LET k == Key(value)
    IN  IF value = Null THEN buckets
        ELSE Put(buckets, k, IntoBucket(IF k \in DOMAIN buckets THEN buckets[k] ELSE <<>>, p))

MoveBuckets(buckets, c, rows, updates) ==
    FoldLeft(LAMBDA bs, p : Enter(Leave(bs, rows[p][c], p), updates[p][c], p), buckets,
             Positions(Moved(rows, updates, c)))

MoveIndex(index, rows, updates) ==
    [index EXCEPT !.buckets = MoveBuckets(@, index.column, rows, updates)]

\* The slabs with a changed vector are packed again, the others kept.
RepackChunks(dense, c, rows, updates, replaced) ==
    LET changed == {ChunkIndex(dense, p) :
                       p \in {q \in DOMAIN updates : rows[q][c] # updates[q][c]}}
        Packed(chunk) == SubSeq(ColumnOf(replaced, c), chunk.first + 1,
                                chunk.first + Len(chunk.values))
    IN  [dense EXCEPT !.chunks = [i \in DOMAIN @ |->
            IF i \in changed THEN [@[i] EXCEPT !.values = Packed(dense.chunks[i])]
            ELSE @[i]]]

\* A mutant of ContentChanged: only vectors count.
VectorsChanged(rows, updates) ==
    \E p \in DOMAIN updates : \E c \in Vectors : rows[p][c] # updates[p][c]

\* The rows after the updates.
Replaced(rows, updates) ==
    [p \in DOMAIN rows |-> IF p \in DOMAIN updates THEN updates[p] ELSE rows[p]]

\* Any changed column, not only a vector, starts a new generation.
ContentChanged(rows, updates) == \E p \in DOMAIN updates : rows[p] # updates[p]

PatchDense(dense, c, rows, updates) ==
    LET repacked == RepackChunks(dense, c, rows, updates, Replaced(rows, updates))
    IN  IF ContentChanged(rows, updates) THEN NewGeneration(repacked) ELSE repacked

Patched(t, updates) ==
    [t EXCEPT
       !.rows = Replaced(@, updates),
       !.unique_keys = [c \in DOMAIN @ |-> MoveKeys(@[c], c, t.rows, updates)],
       !.indexes = [n \in DOMAIN @ |-> MoveIndex(@[n], t.rows, updates)],
       !.vector_columns = [c \in DOMAIN @ |-> PatchDense(@[c], c, t.rows, updates)]]

ApplyPatch(t, updates, appended) == AppendTo(Patched(t, updates), appended)

FastUpsert(t, pending, conflict, columns) ==
    LET patch == Patch(t, pending, conflict, columns)
    IN  IF patch.ok /\ PatchFits(t, patch.updates, patch.appended)
        THEN Done(ApplyPatch(t, patch.updates, patch.appended))
        ELSE Refused(t)

-----------------------------------------------------------------------------
(* Predicates: terms "column IN (values)", alone or two joined by AND or OR; *)
(* "all" is a statement without WHERE.                                       *)

Scalars == Columns \ Vectors
Terms == UNION {[column : {c}, values : {{v, w} : v, w \in Values(c) \ {NaN}}] :
                   c \in Scalars}
Everything == [op |-> "all"]
Single(term) == [op |-> "term", left |-> term, right |-> term]
Joined(op, left, right) == [op |-> op, left |-> left, right |-> right]

TermHolds(term, row) ==
    \E v \in term.values : v # Null /\ row[term.column] # Null /\ Equal(row[term.column], v)
\* compare_values refuses NaN.
TermFails(term, row) == row[term.column] = NaN /\ term.values # {Null}

Holds(pred, row) ==
    \/ pred.op = "all"
    \/ pred.op = "term" /\ TermHolds(pred.left, row)
    \/ pred.op = "and" /\ TermHolds(pred.left, row) /\ TermHolds(pred.right, row)
    \/ pred.op = "or" /\ (TermHolds(pred.left, row) \/ TermHolds(pred.right, row))
\* May evaluating the predicate on the row fail?  (The right side may be skipped.)
Fails(pred, row) ==
    pred.op # "all" /\ (TermFails(pred.left, row) \/ TermFails(pred.right, row))

Scan(t, pred) == Positions({p \in DOMAIN t.rows : Holds(pred, t.rows[p])})
ScanFails(t, pred) == \E p \in DOMAIN t.rows : Fails(pred, t.rows[p])

-----------------------------------------------------------------------------
(* Index selection (index_selection.rs): candidate rows from the postings.   *)

IndexesOn(t, c) == {n \in DOMAIN t.indexes : t.indexes[n].column = c}
Indexed(t, term) == term.column \in Unique \/ IndexesOn(t, term.column) # {}

Keys(term) == {Key(v) : v \in term.values \ {Null}}

\* The postings of the term's keys, for those that have one.
Found(t, term) ==
    LET c == term.column
    IN  IF c \in Unique
        THEN [k \in Keys(term) \cap DOMAIN t.unique_keys[c] |-> <<t.unique_keys[c][k]>>]
        ELSE LET buckets == t.indexes[CHOOSE n \in IndexesOn(t, c) : TRUE].buckets
             IN  Restrict(buckets, Keys(term) \cap DOMAIN buckets)
Postings(t, term) == SetToSeq(Range(Found(t, term)))

\* sort_unstable: each row goes before the first behind it.
Sorted(rows) == FoldLeft(LAMBDA sorted, p : IntoBucket(sorted, p), <<>>, rows)

\* One posting is used as it is; several are joined and sorted.
TermRows(t, term) ==
    LET postings == Postings(t, term)
    IN  IF Len(postings) = 1 THEN postings[1] ELSE Sorted(FlattenSeq(postings))

\* Does a posting, or with several postings the row's own key, admit the row?
Admits(t, term, p) ==
    LET postings == Postings(t, term)
    IN  IF Len(postings) = 1 THEN Contains(postings[1], p)
        ELSE Key(t.rows[p][term.column]) \in Keys(term)

\* A mutant of OrRows: one side's rows after the other's.
BothRows(t, left, right) == TermRows(t, left) \o TermRows(t, right)

\* An intersection starts from the smaller side, a union merges two ascending lists.
AndRows(t, left, right) ==
    IF Len(TermRows(t, right)) < Len(TermRows(t, left))
    THEN Where(TermRows(t, right), LAMBDA p : Admits(t, left, p))
    ELSE Where(TermRows(t, left), LAMBDA p : Admits(t, right, p))
OrRows(t, left, right) == Positions(ToSet(TermRows(t, left)) \cup ToSet(TermRows(t, right)))

\* Is the predicate fully answered by indexes?
FullyIndexed(t, pred) ==
    pred.op # "all" /\ Indexed(t, pred.left) /\ Indexed(t, pred.right)

\* The rows of a statement: from the indexes where they answer; from one side of
\* an AND, the other evaluated on its rows (SELECT only); else by a scan.
IndexedRows(t, pred) ==
    CASE pred.op = "term" /\ Indexed(t, pred.left) -> TermRows(t, pred.left)
      [] pred.op = "and" /\ FullyIndexed(t, pred) -> AndRows(t, pred.left, pred.right)
      [] pred.op = "or" /\ FullyIndexed(t, pred) -> OrRows(t, pred.left, pred.right)
      [] pred.op = "and" /\ Indexed(t, pred.left) /\ ~Indexed(t, pred.right) ->
            Where(TermRows(t, pred.left), LAMBDA p : TermHolds(pred.right, t.rows[p]))
      [] pred.op = "and" /\ Indexed(t, pred.right) /\ ~Indexed(t, pred.left) ->
            Where(TermRows(t, pred.right), LAMBDA p : TermHolds(pred.left, t.rows[p]))
      [] OTHER -> Scan(t, pred)

-----------------------------------------------------------------------------
(* The general conflict update: on a copy of the rows, then a rebuild.       *)

UpdateRow(conflict, columns, selection, state, excluded) ==
    LET value == excluded[conflict]
        matches == {p \in DOMAIN state.rows : /\ value # Null
                                              /\ Equal(state.rows[p][conflict], value)}
        row == Min(matches)
        replacement == Overlay(state.rows[row], excluded, columns)
    IN  IF ~state.ok THEN state
        ELSE IF matches = {}
        THEN [state EXCEPT !.rows = Append(@, excluded),
                           !.touched = @ \cup {Len(state.rows) + 1},
                           !.affected = TRUE]
        ELSE IF row \in state.touched \/ Fails(selection, state.rows[row])
        THEN [state EXCEPT !.ok = FALSE]
        ELSE IF ~Holds(selection, state.rows[row])
        THEN [state EXCEPT !.touched = @ \cup {row}]
        ELSE [state EXCEPT !.ok = ValidRow(replacement),
                           !.rows[row] = replacement,
                           !.touched = @ \cup {row},
                           !.affected = TRUE]

NothingTouched(rows) == [ok |-> TRUE, rows |-> rows, touched |-> {}, affected |-> FALSE]

AfterConflicts(rows, pending, conflict, columns, selection) ==
    FoldLeft(LAMBDA state, excluded : UpdateRow(conflict, columns, selection, state, excluded),
             NothingTouched(rows), pending)

ConflictUpdates(t, pending, conflict, columns, selection) ==
    LET end == AfterConflicts(t.rows, pending, conflict, columns, selection)
    IN  IF ~end.ok \/ UniqueFails(NoKeys, end.rows) \/ ~HasCapacity(0, Len(end.rows))
        THEN Refused(t)
        ELSE IF end.affected THEN Done(RebuildIndexes([t EXCEPT !.rows = end.rows]))
        ELSE Done(t)

\* The typed conflict update; one that sets its own key takes the general path.
ReplaceColumns(t, pending, conflict, columns) ==
    IF conflict \in columns
    THEN ConflictUpdates(t, pending, conflict, columns, Everything)
    ELSE FastUpsert(t, pending, conflict, columns)

-----------------------------------------------------------------------------
(* DELETE, UPDATE, and loading the table from a snapshot.                    *)

Retained(rows, deleted) ==
    LET kept == Positions(DOMAIN rows \ deleted) IN [i \in DOMAIN kept |-> rows[kept[i]]]

RemapRow(p, deleted) == p - Cardinality({d \in deleted : d < p})

RemapKeys(keys, deleted) ==
    [k \in {j \in DOMAIN keys : keys[j] \notin deleted} |-> RemapRow(keys[k], deleted)]

RemapBuckets(buckets, deleted) ==
    LET Rest(bucket) == Where(bucket, LAMBDA p : p \notin deleted)
    IN  [k \in {j \in DOMAIN buckets : Rest(buckets[j]) # <<>>} |->
            [i \in DOMAIN Rest(buckets[k]) |-> RemapRow(Rest(buckets[k])[i], deleted)]]

RemapIndex(index, deleted) == [index EXCEPT !.buckets = RemapBuckets(@, deleted)]

\* A slab that loses no row moves, one that loses some is packed from the rows.
KeepChunk(values, deleted, dense, chunk) ==
    LET removed == Cardinality(deleted \cap (chunk.first + 1 ..
                                               chunk.first + Len(chunk.values)))
        retained == Len(chunk.values) - removed
    IN  IF retained = 0 THEN dense
        ELSE IF removed = 0 THEN PushChunk(dense, chunk.values)
        ELSE AppendRows(dense, SubSeq(values, dense.row_count + 1, dense.row_count + retained))

DeleteFromDense(dense, values, deleted) ==
    FoldLeft(LAMBDA d, chunk : KeepChunk(values, deleted, d, chunk),
             [dense EXCEPT !.chunks = <<>>, !.chunk_lookup = <<>>, !.row_count = 0],
             dense.chunks)

DeleteRows(t, deleted) ==
    LET rows == Retained(t.rows, deleted)
    IN  IF deleted = {} THEN t
        ELSE IF rows = <<>> THEN RebuildIndexes([t EXCEPT !.rows = <<>>])
        ELSE [t EXCEPT
               !.rows = rows,
               !.vector_columns = [c \in DOMAIN @ |->
                   DeleteFromDense(@[c], ColumnOf(rows, c), deleted)],
               !.indexes = [n \in DOMAIN @ |-> RemapIndex(@[n], deleted)],
               !.unique_keys = [c \in DOMAIN @ |-> RemapKeys(@[c], deleted)]]

\* UPDATE ... SET c = value WHERE pred.
UpdateRows(t, pred, c, value) ==
    LET rows == [p \in DOMAIN t.rows |-> IF Holds(pred, t.rows[p])
                                         THEN [t.rows[p] EXCEPT ![c] = value]
                                         ELSE t.rows[p]]
    IN  IF \/ ScanFails(t, pred)
           \/ \E p \in DOMAIN rows : ~ValidRow(rows[p])
           \/ UniqueFails(NoKeys, rows)
        THEN Refused(t)
        ELSE Done(RebuildIndexes([t EXCEPT !.rows = rows]))

\* load: the vectors are packed every LoadRows rows.
LoadedDense(values) ==
    FoldLeft(LAMBDA dense, piece : AppendRows(dense, piece), EmptyDense, Pieces(values, LoadRows))

Loaded(t) ==
    [RebuildRelational(t) EXCEPT
       !.vector_columns = [c \in Vectors |-> LoadedDense(ColumnOf(t.rows, c))]]

-----------------------------------------------------------------------------
(* The statements.                                                           *)

Batches == UNION {[1..n -> {row \in Rows : ValidRow(row)}] : n \in 1..MaxBatch}
Settable(columns) == SUBSET columns \ {{}}
\* Bound: a conflict update that sets its own key sets every column.
UpdateColumns(conflict) == Settable(Columns \ {conflict}) \cup {Columns}
\* Bound: the WHERE of an update names one value, that of DELETE may name two.
Selections == {Everything} \cup
    {Single(term) : term \in {w \in Terms : Cardinality(w.values) = 1 /\ Null \notin w.values}}

Init ==
    table = [rows |-> <<>>, indexes |-> <<>>, unique_keys |-> NoKeys,
             vector_columns |-> [c \in Vectors |-> EmptyDense]]

Insert ==
    \E pending \in Batches :
        LET result == InsertOrFail(table, pending)
        IN  result.ok /\ table' = result.table

InsertIgnore ==
    \E pending \in Batches, columns \in {Unique} \cup {{c} : c \in Unique} :
        LET result == InsertDoNothing(table, pending, columns)
        IN  result.ok /\ table' = result.table

Upsert ==
    \E pending \in Batches, conflict \in Unique :
        \E columns \in UpdateColumns(conflict) :
            LET result == ReplaceColumns(table, pending, conflict, columns)
            IN  result.ok /\ table' = result.table

\* SQL text has no NaN.  Bound: one row; Upsert takes the same general path with
\* several.
SqlUpsert ==
    \E pending \in {<<row>> : row \in {r \in Rows : /\ ValidRow(r)
                                                 /\ \A c \in Columns : r[c] # NaN}},
       conflict \in Unique, selection \in Selections :
        \E columns \in UpdateColumns(conflict) :
            LET result == ConflictUpdates(table, pending, conflict, columns, selection)
            IN  result.ok /\ table' = result.table

Update ==
    \E pred \in Selections, c \in Columns : \E value \in Values(c) \ {NaN} :
        LET result == UpdateRows(table, pred, c, value)
        IN  result.ok /\ table' = result.table

Delete ==
    \E pred \in {Everything} \cup {Single(term) : term \in Terms} :
        /\ FullyIndexed(table, pred) \/ ~ScanFails(table, pred)
        /\ table' = DeleteRows(table, ToSet(IF FullyIndexed(table, pred)
                                            THEN IndexedRows(table, pred)
                                            ELSE Scan(table, pred)))

CreateIndex ==
    \E name \in IndexNames \ DOMAIN table.indexes, c \in Scalars :
        table' = [table EXCEPT !.indexes = Put(@, name, BuildIndex(c, table.rows))]

DropIndex ==
    \E name \in DOMAIN table.indexes :
        table' = [table EXCEPT !.indexes = Restrict(@, DOMAIN @ \ {name})]

\* Saving refuses a NaN (write_value), so a table with one is never loaded.
Reload ==
    /\ \A p \in DOMAIN table.rows : \A c \in Columns : table.rows[p][c] # NaN
    /\ table' = Loaded(table)

\* A reader stores what it derived from the rows under the current storage_id.
FillCache ==
    \E c \in Vectors :
        table' = [table EXCEPT !.vector_columns[c].remembered = table.rows]

Next ==
    \/ Insert \/ InsertIgnore \/ Upsert \/ SqlUpsert
    \/ Update \/ Delete
    \/ CreateIndex \/ DropIndex \/ Reload \/ FillCache

Spec == Init /\ [][Next]_table

-----------------------------------------------------------------------------
(* Properties.                                                               *)

\* After any mix of fast and general statements the unique keys and the indexes
\* are what a rebuild from the rows gives, and the dense cache answers for every
\* row with exactly its vector, whatever slabs it is made of.
CachesMatchRows ==
    /\ \A c \in Unique : table.unique_keys[c] = ExtendKeys(<<>>, c, table.rows, 0)
    /\ \A n \in DOMAIN table.indexes :
          table.indexes[n].buckets = ExtendBuckets(<<>>, table.indexes[n].column, table.rows, 0)
    /\ \A c \in Vectors :
          /\ table.vector_columns[c].row_count = Len(table.rows)
          /\ \A p \in DOMAIN table.rows :
                DenseGet(table.vector_columns[c], p) = table.rows[p][c]

\* No path lets in two rows with one key, a Null where none may be, or more rows
\* than a table may have; the fast paths check only what they are about to change.
ConstraintsHold ==
    /\ ~UniqueFails(NoKeys, table.rows)
    /\ \A p \in DOMAIN table.rows : ValidRow(table.rows[p])
    /\ Len(table.rows) <= MaxTableRows

\* A storage_id names one content of the whole row: what a cache derived under
\* the id still current was derived from the present rows (graph_rag.rs:706-709).
GenerationNamesContent ==
    \A c \in Vectors :
        table.vector_columns[c].remembered \in {NoRows, table.rows}

\* The fast upsert refuses exactly what the general conflict update refuses, and
\* otherwise leaves the same rows in the same order.
FastUpsertIsGeneral ==
    \A pending \in Batches, conflict \in Unique :
        \A columns \in Settable(Columns \ {conflict}) :
            LET fast == FastUpsert(table, pending, conflict, columns)
                general == ConflictUpdates(table, pending, conflict, columns, Everything)
            IN  fast.ok = general.ok /\ fast.table.rows = general.table.rows

\* Rows found through the indexes are those of a scan, in the same order,
\* wherever the scan does not refuse to compare a NaN.
IndexedIsScan ==
    \A pred \in {Single(term) : term \in Terms}
                \cup {Joined(op, left, right) : op \in {"and", "or"}, left, right \in Terms} :
        ScanFails(table, pred) \/ IndexedRows(table, pred) = Scan(table, pred)

=============================================================================
