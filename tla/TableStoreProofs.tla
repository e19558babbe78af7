-------------------------- MODULE TableStoreProofs --------------------------
(* The constraints of the table: every statement of TableStore keeps the     *)
(* unique keys and the buckets in step with the rows, for any columns, rows, *)
(* batches and bounds.                                                       *)
EXTENDS TableStore, RowsProofs, FiniteSetTheorems

\* The rows that have a key in the column.
Keyed(rows, c) == {p \in DOMAIN rows : rows[p][c] # Null}

\* The map names each keyed row by its key and holds nothing else; so no two
\* rows share a key.
NamesRows(keys, rows, c) ==
    /\ DOMAIN keys = {Key(rows[p][c]) : p \in Keyed(rows, c)}
    /\ \A p \in Keyed(rows, c) : keys[Key(rows[p][c])] = p

\* A row whose value is Equal to the old one keeps its key.
LEMMA EqualKeepsKey ==
    ASSUME NEW left, NEW right, Equal(left, right)
    PROVE  /\ Key(left) = Key(right)
           /\ left = Null <=> right = Null
BY TableStoreAssumption DEF Equal, Key, TableStoreAssumption

\* Patching the unique keys in place gives the map of the patched rows, if that
\* map exists: rows may exchange keys, give them up, or take one that another
\* patched row gives up (upsert.rs apply, first loop).
THEOREM KeysFollowPatch ==
    ASSUME NEW c, NEW rows, NEW keys, NEW updates,
           NamesRows(keys, rows, c),
           DOMAIN updates \subseteq DOMAIN rows,
           \A p, q \in Keyed(Replaced(rows, updates), c) :
              Key(Replaced(rows, updates)[p][c]) = Key(Replaced(rows, updates)[q][c]) => p = q
    PROVE  NamesRows(MoveKeys(keys, c, rows, updates), Replaced(rows, updates), c)
<1> DEFINE new == Replaced(rows, updates)
           moved == Moved(rows, updates, c)
           old == {Key(rows[p][c]) : p \in {q \in moved : rows[q][c] # Null}}
           arrived == {p \in moved : updates[p][c] # Null}
           came == {Key(updates[p][c]) : p \in arrived}
           result == MoveKeys(keys, c, rows, updates)
<1>1. /\ DOMAIN new = DOMAIN rows
      /\ \A p \in DOMAIN rows : new[p] = IF p \in DOMAIN updates THEN updates[p] ELSE rows[p]
  BY DEF Replaced
<1>2. moved \subseteq DOMAIN updates /\ moved \subseteq DOMAIN rows
  BY DEF Moved
<1>3. \A p \in DOMAIN rows \ moved : /\ Key(new[p][c]) = Key(rows[p][c])
                                     /\ new[p][c] = Null <=> rows[p][c] = Null
  BY <1>1, EqualKeepsKey DEF Moved
<1>4. arrived \subseteq Keyed(new, c) /\ \A p \in arrived : new[p] = updates[p]
  BY <1>1, <1>2 DEF Keyed
<1>5. /\ DOMAIN result = (DOMAIN keys \ old) \cup came
      /\ \A k \in (DOMAIN keys \ old) \cup came :
            result[k] = IF k \in came THEN CHOOSE p \in arrived : Key(updates[p][c]) = k
                        ELSE keys[k]
  BY DEF MoveKeys
<1>6. \A p \in arrived : Key(new[p][c]) \in came /\ result[Key(new[p][c])] = p
  <2> SUFFICES ASSUME NEW p \in arrived
               PROVE  Key(new[p][c]) \in came /\ result[Key(new[p][c])] = p
    OBVIOUS
  <2> DEFINE k == Key(updates[p][c])
             q == CHOOSE r \in arrived : Key(updates[r][c]) = k
  <2>1. k \in came /\ k = Key(new[p][c])
    BY <1>4
  <2>2. q \in arrived /\ Key(updates[q][c]) = k
    OBVIOUS
  <2>3. Key(new[q][c]) = Key(new[p][c])
    BY <1>4, <2>1, <2>2
  <2>4. q = p
    BY <1>4, <2>2, <2>3
  <2> QED
    BY <1>5, <2>1, <2>4
<1>7. \A p \in Keyed(new, c) \ arrived :
         /\ p \in Keyed(rows, c) /\ p \notin moved
         /\ Key(new[p][c]) = Key(rows[p][c])
         /\ Key(new[p][c]) \in DOMAIN keys \ old
         /\ Key(new[p][c]) \notin came
  <2> SUFFICES ASSUME NEW p \in Keyed(new, c) \ arrived
               PROVE  /\ p \in Keyed(rows, c) /\ p \notin moved
                      /\ Key(new[p][c]) = Key(rows[p][c])
                      /\ Key(new[p][c]) \in DOMAIN keys \ old
                      /\ Key(new[p][c]) \notin came
    OBVIOUS
  <2>1. p \notin moved
    BY <1>1, <1>2 DEF Keyed
  <2>2. p \in Keyed(rows, c) /\ Key(new[p][c]) = Key(rows[p][c])
    BY <1>1, <1>3, <2>1 DEF Keyed
  <2>3. Key(rows[p][c]) \in DOMAIN keys
    BY <2>2 DEF NamesRows
  <2>4. Key(rows[p][c]) \notin old
    <3> SUFFICES ASSUME NEW q \in moved, rows[q][c] # Null, Key(rows[q][c]) = Key(rows[p][c])
                 PROVE  FALSE
      OBVIOUS
    <3>1. q \in Keyed(rows, c)
      BY <1>2 DEF Keyed
    <3>2. q = p
      BY <2>2, <3>1 DEF NamesRows
    <3> QED
      BY <2>1, <3>2
  <2>5. Key(new[p][c]) \notin came
    BY <1>4
  <2> QED
    BY <2>1, <2>2, <2>3, <2>4, <2>5
<1>8. \A k \in DOMAIN keys \ old :
         \E p \in Keyed(new, c) : Key(new[p][c]) = k
  <2> SUFFICES ASSUME NEW k \in DOMAIN keys \ old
               PROVE  \E p \in Keyed(new, c) : Key(new[p][c]) = k
    OBVIOUS
  <2>1. PICK p \in Keyed(rows, c) : Key(rows[p][c]) = k
    BY DEF NamesRows
  <2>2. p \notin moved
    BY <2>1 DEF Keyed
  <2>3. p \in Keyed(new, c) /\ Key(new[p][c]) = k
    BY <1>1, <1>3, <2>1, <2>2 DEF Keyed
  <2> QED
    BY <2>3
<1>9. DOMAIN result = {Key(new[p][c]) : p \in Keyed(new, c)}
  BY <1>4, <1>5, <1>6, <1>7, <1>8
<1>10. \A p \in Keyed(new, c) : result[Key(new[p][c])] = p
  <2> SUFFICES ASSUME NEW p \in Keyed(new, c) PROVE result[Key(new[p][c])] = p
    OBVIOUS
  <2>1. CASE p \in arrived
    BY <1>6, <2>1
  <2>2. CASE p \notin arrived
    <3>1. result[Key(new[p][c])] = keys[Key(rows[p][c])]
      BY <1>5, <1>7, <2>2
    <3> QED
      BY <1>7, <2>2, <3>1 DEF NamesRows
  <2> QED
    BY <2>1, <2>2
<1> QED
  BY <1>9, <1>10 DEF NamesRows

-----------------------------------------------------------------------------
(* The folds of the model, all alike: a value that each element of a         *)
(* sequence changes in turn.  The provers know no operator arguments, so the *)
(* steps are gathered in one operator, told apart by a record.               *)

Step(o, v, x) ==
    CASE o.kind = "accept" -> Accept(o.t, o.columns, v, x)
      [] o.kind = "take" -> TakeRow(o.t, o.conflict, o.columns, v, x)
      [] o.kind = "update" -> UpdateRow(o.conflict, o.columns, o.selection, v, x)
      [] o.kind = "move" -> Enter(Leave(v, o.rows[x][o.c], x), o.updates[x][o.c], x)
      [] o.kind = "push" -> PushChunk(v, x)
      [] o.kind = "sort" -> IntoBucket(v, x)
      [] o.kind = "append" -> AppendRows(v, x)
      [] o.kind = "keep" -> KeepChunk(o.values, o.deleted, v, x)

\* What FoldLeft's recursion says of the sets of places it passes through.
FoldNext(o, base, s, iter, set) ==
    IF set = {} THEN base ELSE Step(o, iter[set \ {Max(set)}], s[Max(set)])
Iterates(o, base, s, iter, n) == iter = [set \in SUBSET (1 .. n) |-> FoldNext(o, base, s, iter, set)]

LEMMA LastOfSet ==
    ASSUME NEW k \in Nat, NEW set \in SUBSET (1 .. k + 1)
    PROVE  /\ k + 1 \in set => Max(set) = k + 1
           /\ set # {} => Max(set) \in set
           /\ k + 1 \notin set => set \in SUBSET (1 .. k)
           /\ set \ {k + 1} \in SUBSET (1 .. k)
<1>1. ASSUME set # {} PROVE Max(set) \in set /\ \A y \in set : Max(set) >= y
  <2>1. set \in SUBSET (0 .. k + 1) /\ k + 1 \in Nat
    OBVIOUS
  <2> QED BY <1>1, <2>1, GreatestPlace
<1>2. ASSUME k + 1 \in set PROVE Max(set) = k + 1
  <2>1. Max(set) \in set /\ Max(set) >= k + 1
    BY <1>1, <1>2
  <2>2. Max(set) \in 1 .. k + 1
    BY <2>1
  <2> QED BY <2>1, <2>2
<1>3. \A x \in 1 .. k + 1 : x # k + 1 => x \in 1 .. k
  OBVIOUS
<1> QED BY <1>1, <1>2, <1>3

LEMMA FoldExists ==
    ASSUME NEW o, NEW base, NEW s
    PROVE  \A k \in Nat : \E iter : Iterates(o, base, s, iter, k)
<1> DEFINE N == {k \in Nat : \E iter : Iterates(o, base, s, iter, k)}
<1>1. 0 \in N
  <2> DEFINE iter == [set \in SUBSET (1 .. 0) |-> base]
  <2>1. \A set \in SUBSET (1 .. 0) : FoldNext(o, base, s, iter, set) = base
    BY DEF FoldNext
  <2>2. Iterates(o, base, s, iter, 0)
    <3> HIDE DEF iter
    <3>1. iter = [set \in SUBSET (1 .. 0) |-> base]
      BY DEF iter
    <3> QED BY <2>1, <3>1 DEF Iterates
  <2> QED BY <2>2
<1>2. \A k \in N : k + 1 \in N
  <2> SUFFICES ASSUME NEW k \in N PROVE \E iter : Iterates(o, base, s, iter, k + 1)
    OBVIOUS
  <2>1. PICK old : Iterates(o, base, s, old, k)
    OBVIOUS
  <2> DEFINE iter == [set \in SUBSET (1 .. k + 1) |->
                        IF k + 1 \in set THEN Step(o, old[set \ {k + 1}], s[k + 1]) ELSE old[set]]
  <2>2. \A set \in SUBSET (1 .. k) : old[set] = FoldNext(o, base, s, old, set)
    BY <2>1 DEF Iterates
  <2>3. \A set \in SUBSET (1 .. k) : set \in SUBSET (1 .. k + 1) /\ k + 1 \notin set
    OBVIOUS
  <2>4. \A set \in SUBSET (1 .. k) : iter[set] = old[set]
    BY <2>3
  <2>5. \A set \in SUBSET (1 .. k + 1) : k + 1 \in set =>
           iter[set] = Step(o, old[set \ {k + 1}], s[k + 1])
    OBVIOUS
  <2> HIDE DEF iter
  <2>6. ASSUME NEW set \in SUBSET (1 .. k + 1) PROVE iter[set] = FoldNext(o, base, s, iter, set)
    <3>1. CASE k + 1 \in set
      <4>1. Max(set) = k + 1 /\ set \ {k + 1} \in SUBSET (1 .. k) /\ set # {}
        BY <3>1, LastOfSet
      <4> QED BY <2>4, <2>5, <3>1, <4>1 DEF FoldNext
    <3>2. CASE k + 1 \notin set
      <4>1. set \in SUBSET (1 .. k) /\ iter[set] = old[set] /\ old[set] = FoldNext(o, base, s, old, set)
        BY <2>2, <2>4, <3>2, LastOfSet
      <4>2. iter[set \ {Max(set)}] = old[set \ {Max(set)}]
        BY <2>4, <4>1
      <4> QED BY <4>1, <4>2 DEF FoldNext
    <3> QED BY <3>1, <3>2
  <2>7. iter = [set \in SUBSET (1 .. k + 1) |-> iter[set]]
    BY DEF iter
  <2>8. Iterates(o, base, s, iter, k + 1)
    BY <2>6, <2>7 DEF Iterates
  <2> QED BY <2>8
<1>3. N = Nat
  <2> HIDE DEF N
  <2> QED BY <1>1, <1>2, NaturalSets DEF N
<1> QED BY <1>3

\* The values along the way, after 0, 1, .. n elements.
Runs(o, base, s, f, n) == f[0] = base /\ \A i \in 1 .. n : f[i] = Step(o, f[i - 1], s[i])

LEMMA FoldRuns ==
    ASSUME NEW o, NEW base, NEW s, NEW n \in Nat, NEW iter, Iterates(o, base, s, iter, n)
    PROVE  \E f : Runs(o, base, s, f, n) /\ iter[1 .. n] = f[n]
<1> DEFINE f == [i \in 0 .. n |-> iter[1 .. i]]
<1>1. f[0] = base
  <2>1. 1 .. 0 = {} /\ {} \in SUBSET (1 .. n) /\ f[0] = iter[1 .. 0]
    OBVIOUS
  <2>2. iter[{}] = base
    BY <2>1 DEF Iterates, FoldNext
  <2> QED BY <2>1, <2>2
<1>2. ASSUME NEW i \in 1 .. n PROVE f[i] = Step(o, f[i - 1], s[i])
  <2>1. i - 1 \in 0 .. n /\ i \in 0 .. n /\ i - 1 \in Nat /\ i - 1 + 1 = i
    OBVIOUS
  <2>2. 1 .. i \in SUBSET (1 .. n) /\ i \in 1 .. i
    OBVIOUS
  <2>3. Max(1 .. i) = i
    <3> DEFINE k == i - 1
    <3>1. k \in Nat /\ k + 1 = i
      BY <2>1
    <3> HIDE DEF k
    <3>2. 1 .. i \in SUBSET (1 .. k + 1) /\ k + 1 \in 1 .. i
      BY <3>1
    <3>3. Max(1 .. i) = k + 1
      BY <3>1, <3>2, LastOfSet
    <3> QED BY <3>1, <3>3
  <2>4. (1 .. i) \ {i} = 1 .. i - 1
    OBVIOUS
  <2>5. iter[1 .. i] = Step(o, iter[1 .. i - 1], s[i])
    <3>1. iter[1 .. i] = FoldNext(o, base, s, iter, 1 .. i)
      BY <2>2 DEF Iterates
    <3> QED BY <2>2, <2>3, <2>4, <3>1 DEF FoldNext
  <2> QED BY <2>1, <2>5
<1>3. iter[1 .. n] = f[n]
  OBVIOUS
<1> HIDE DEF f
<1> QED BY <1>1, <1>2, <1>3 DEF Runs

LEMMA AcceptRuns ==
    ASSUME NEW t, NEW columns, NEW pending, IsSeq(pending),
           NEW o, o = [kind |-> "accept", t |-> t, columns |-> columns]
    PROVE  \E f : /\ Runs(o, <<>>, pending, f, Len(pending))
                  /\ Accepted(t, pending, columns) = f[Len(pending)]
<1> DEFINE n == Len(pending)
           It(iter) == iter = [set \in SUBSET (1 .. n) |->
                          IF set = {} THEN <<>>
                          ELSE Accept(t, columns, iter[set \ {Max(set)}], pending[Max(set)])]
<1>1. \A v, x : Step(o, v, x) = Accept(t, columns, v, x)
  <2>1. o.kind = "accept" /\ o.t = t /\ o.columns = columns
    OBVIOUS
  <2> QED BY ONLY <2>1 DEF Step
<1>2. n \in Nat /\ DOMAIN pending = 1 .. n
  BY SeqDomain
<1>3. \A iter : It(iter) <=> Iterates(o, <<>>, pending, iter, n)
  BY ONLY <1>1 DEF Iterates, FoldNext
<1> DEFINE it == CHOOSE iter : It(iter)
<1>4. It(it)
  <2> HIDE DEF It
  <2> QED BY <1>2, <1>3, FoldExists
<1>5. Accepted(t, pending, columns) = it[1 .. n]
  BY <1>2 DEF Accepted, FoldLeft, MapThenFoldSet
<1> HIDE DEF It, it
<1> QED BY <1>2, <1>3, <1>4, <1>5, FoldRuns

LEMMA TakeRuns ==
    ASSUME NEW t, NEW conflict, NEW columns, NEW pending, IsSeq(pending),
           NEW o, o = [kind |-> "take", t |-> t, conflict |-> conflict, columns |-> columns]
    PROVE  \E f : /\ Runs(o, EmptyPatch, pending, f, Len(pending))
                  /\ Patch(t, pending, conflict, columns) = f[Len(pending)]
<1> DEFINE n == Len(pending)
           It(iter) == iter = [set \in SUBSET (1 .. n) |->
                          IF set = {} THEN EmptyPatch
                          ELSE TakeRow(t, conflict, columns, iter[set \ {Max(set)}], pending[Max(set)])]
<1>1. \A v, x : Step(o, v, x) = TakeRow(t, conflict, columns, v, x)
  <2>1. o.kind = "take" /\ o.t = t /\ o.conflict = conflict /\ o.columns = columns
    OBVIOUS
  <2> QED BY ONLY <2>1 DEF Step
<1>2. n \in Nat /\ DOMAIN pending = 1 .. n
  BY SeqDomain
<1>3. \A iter : It(iter) <=> Iterates(o, EmptyPatch, pending, iter, n)
  BY ONLY <1>1 DEF Iterates, FoldNext
<1> DEFINE it == CHOOSE iter : It(iter)
<1>4. It(it)
  <2> HIDE DEF It
  <2> QED BY <1>2, <1>3, FoldExists
<1>5. Patch(t, pending, conflict, columns) = it[1 .. n]
  BY <1>2 DEF Patch, FoldLeft, MapThenFoldSet
<1> HIDE DEF It, it
<1> QED BY <1>2, <1>3, <1>4, <1>5, FoldRuns

LEMMA UpdateRuns ==
    ASSUME NEW rows, NEW conflict, NEW columns, NEW selection, NEW pending, IsSeq(pending),
           NEW o, o = [kind |-> "update", conflict |-> conflict, columns |-> columns, selection |-> selection]
    PROVE  \E f : /\ Runs(o, NothingTouched(rows), pending, f, Len(pending))
                  /\ AfterConflicts(rows, pending, conflict, columns, selection) = f[Len(pending)]
<1> DEFINE n == Len(pending)
           It(iter) == iter = [set \in SUBSET (1 .. n) |->
                          IF set = {} THEN NothingTouched(rows)
                          ELSE UpdateRow(conflict, columns, selection, iter[set \ {Max(set)}], pending[Max(set)])]
<1>1. \A v, x : Step(o, v, x) = UpdateRow(conflict, columns, selection, v, x)
  <2>1. o.kind = "update" /\ o.conflict = conflict /\ o.columns = columns /\ o.selection = selection
    OBVIOUS
  <2> QED BY ONLY <2>1 DEF Step
<1>2. n \in Nat /\ DOMAIN pending = 1 .. n
  BY SeqDomain
<1>3. \A iter : It(iter) <=> Iterates(o, NothingTouched(rows), pending, iter, n)
  BY ONLY <1>1 DEF Iterates, FoldNext
<1> DEFINE it == CHOOSE iter : It(iter)
<1>4. It(it)
  <2> HIDE DEF It
  <2> QED BY <1>2, <1>3, FoldExists
<1>5. AfterConflicts(rows, pending, conflict, columns, selection) = it[1 .. n]
  BY <1>2 DEF AfterConflicts, FoldLeft, MapThenFoldSet
<1> HIDE DEF It, it
<1> QED BY <1>2, <1>3, <1>4, <1>5, FoldRuns

LEMMA MoveRuns ==
    ASSUME NEW buckets, NEW c, NEW rows, NEW updates,
           NEW order, order = Positions(Moved(rows, updates, c)), IsSeq(order),
           NEW o, o = [kind |-> "move", rows |-> rows, c |-> c, updates |-> updates]
    PROVE  \E f : /\ Runs(o, buckets, order, f, Len(order))
                  /\ MoveBuckets(buckets, c, rows, updates) = f[Len(order)]
<1> DEFINE n == Len(order)
           It(iter) == iter = [set \in SUBSET (1 .. n) |->
                          IF set = {} THEN buckets
                          ELSE Enter(Leave(iter[set \ {Max(set)}], rows[order[Max(set)]][c], order[Max(set)]), updates[order[Max(set)]][c], order[Max(set)])]
<1>1. \A v, x : Step(o, v, x) = Enter(Leave(v, rows[x][c], x), updates[x][c], x)
  <2>1. o.kind = "move" /\ o.rows = rows /\ o.c = c /\ o.updates = updates
    OBVIOUS
  <2> QED BY ONLY <2>1 DEF Step
<1>2. n \in Nat /\ DOMAIN order = 1 .. n
  BY SeqDomain
<1>3. \A iter : It(iter) <=> Iterates(o, buckets, order, iter, n)
  BY ONLY <1>1 DEF Iterates, FoldNext
<1> DEFINE it == CHOOSE iter : It(iter)
<1>4. It(it)
  <2> HIDE DEF It
  <2> QED BY <1>2, <1>3, FoldExists
<1>5. MoveBuckets(buckets, c, rows, updates) = it[1 .. n]
  BY <1>2 DEF MoveBuckets, FoldLeft, MapThenFoldSet
<1> HIDE DEF It, it
<1> QED BY <1>2, <1>3, <1>4, <1>5, FoldRuns

LEMMA PushRuns ==
    ASSUME NEW dense, NEW values,
           NEW pieces, pieces = Pieces(values, SlabRows), IsSeq(pieces),
           NEW o, o = [kind |-> "push"]
    PROVE  \E f : /\ Runs(o, dense, pieces, f, Len(pieces))
                  /\ AppendRows(dense, values) = f[Len(pieces)]
<1> DEFINE n == Len(pieces)
           It(iter) == iter = [set \in SUBSET (1 .. n) |->
                          IF set = {} THEN dense
                          ELSE PushChunk(iter[set \ {Max(set)}], pieces[Max(set)])]
<1>1. \A v, x : Step(o, v, x) = PushChunk(v, x)
  <2>1. o.kind = "push"
    OBVIOUS
  <2> QED BY ONLY <2>1 DEF Step
<1>2. n \in Nat /\ DOMAIN pieces = 1 .. n
  BY SeqDomain
<1>3. \A iter : It(iter) <=> Iterates(o, dense, pieces, iter, n)
  BY ONLY <1>1 DEF Iterates, FoldNext
<1> DEFINE it == CHOOSE iter : It(iter)
<1>4. It(it)
  <2> HIDE DEF It
  <2> QED BY <1>2, <1>3, FoldExists
<1>5. AppendRows(dense, values) = it[1 .. n]
  BY <1>2 DEF AppendRows, FoldLeft, MapThenFoldSet
<1> HIDE DEF It, it
<1> QED BY <1>2, <1>3, <1>4, <1>5, FoldRuns

LEMMA LoadRuns ==
    ASSUME NEW values, NEW pieces, pieces = Pieces(values, LoadRows), IsSeq(pieces),
           NEW o, o = [kind |-> "append"]
    PROVE  \E f : /\ Runs(o, EmptyDense, pieces, f, Len(pieces))
                  /\ LoadedDense(values) = f[Len(pieces)]
<1> DEFINE n == Len(pieces)
           It(iter) == iter = [set \in SUBSET (1 .. n) |->
                          IF set = {} THEN EmptyDense
                          ELSE AppendRows(iter[set \ {Max(set)}], pieces[Max(set)])]
<1>1. \A v, x : Step(o, v, x) = AppendRows(v, x)
  <2>1. o.kind = "append"
    OBVIOUS
  <2> QED BY ONLY <2>1 DEF Step
<1>2. n \in Nat /\ DOMAIN pieces = 1 .. n
  BY SeqDomain
<1>3. \A iter : It(iter) <=> Iterates(o, EmptyDense, pieces, iter, n)
  BY ONLY <1>1 DEF Iterates, FoldNext
<1> DEFINE it == CHOOSE iter : It(iter)
<1>4. It(it)
  <2> HIDE DEF It
  <2> QED BY <1>2, <1>3, FoldExists
<1>5. LoadedDense(values) = it[1 .. n]
  BY <1>2 DEF LoadedDense, FoldLeft, MapThenFoldSet
<1> HIDE DEF It, it
<1> QED BY <1>2, <1>3, <1>4, <1>5, FoldRuns

LEMMA SortRuns ==
    ASSUME NEW rows, IsSeq(rows),
           NEW o, o = [kind |-> "sort"]
    PROVE  \E f : /\ Runs(o, <<>>, rows, f, Len(rows))
                  /\ Sorted(rows) = f[Len(rows)]
<1> DEFINE n == Len(rows)
           It(iter) == iter = [set \in SUBSET (1 .. n) |->
                          IF set = {} THEN <<>>
                          ELSE IntoBucket(iter[set \ {Max(set)}], rows[Max(set)])]
<1>1. \A v, x : Step(o, v, x) = IntoBucket(v, x)
  <2>1. o.kind = "sort"
    OBVIOUS
  <2> QED BY ONLY <2>1 DEF Step
<1>2. n \in Nat /\ DOMAIN rows = 1 .. n
  BY SeqDomain
<1>3. \A iter : It(iter) <=> Iterates(o, <<>>, rows, iter, n)
  BY ONLY <1>1 DEF Iterates, FoldNext
<1> DEFINE it == CHOOSE iter : It(iter)
<1>4. It(it)
  <2> HIDE DEF It
  <2> QED BY <1>2, <1>3, FoldExists
<1>5. Sorted(rows) = it[1 .. n]
  BY <1>2 DEF Sorted, FoldLeft, MapThenFoldSet
<1> HIDE DEF It, it
<1> QED BY <1>2, <1>3, <1>4, <1>5, FoldRuns

\* A column whose slabs were taken out.
Cleared(dense) == [dense EXCEPT !.chunks = <<>>, !.chunk_lookup = <<>>, !.row_count = 0]

LEMMA KeepRuns ==
    ASSUME NEW dense, NEW values, NEW deleted,
           NEW chunks, chunks = dense.chunks, IsSeq(chunks), NEW base, base = Cleared(dense),
           NEW o, o = [kind |-> "keep", values |-> values, deleted |-> deleted]
    PROVE  \E f : /\ Runs(o, base, chunks, f, Len(chunks))
                  /\ DeleteFromDense(dense, values, deleted) = f[Len(chunks)]
<1> DEFINE n == Len(chunks)
           It(iter) == iter = [set \in SUBSET (1 .. n) |->
                          IF set = {} THEN base
                          ELSE KeepChunk(values, deleted, iter[set \ {Max(set)}], chunks[Max(set)])]
<1>1. \A v, x : Step(o, v, x) = KeepChunk(values, deleted, v, x)
  <2>1. o.kind = "keep" /\ o.values = values /\ o.deleted = deleted
    OBVIOUS
  <2> QED BY ONLY <2>1 DEF Step
<1>2. n \in Nat /\ DOMAIN chunks = 1 .. n
  BY SeqDomain
<1>3. \A iter : It(iter) <=> Iterates(o, base, chunks, iter, n)
  BY ONLY <1>1 DEF Iterates, FoldNext
<1> DEFINE it == CHOOSE iter : It(iter)
<1>4. It(it)
  <2> HIDE DEF It
  <2> QED BY <1>2, <1>3, FoldExists
<1>5. DeleteFromDense(dense, values, deleted) = it[1 .. n]
  BY <1>2 DEF DeleteFromDense, Cleared, FoldLeft, MapThenFoldSet
<1> HIDE DEF It, it
<1> QED BY <1>2, <1>3, <1>4, <1>5, FoldRuns

-----------------------------------------------------------------------------
(* Unique keys.                                                              *)

LEMMA KeyOfNull == \A value : Key(value) = Null <=> value = Null
BY TableStoreAssumption DEF Key, TableStoreAssumption

\* No two rows have one key in the column.
DistinctKeys(rows, c) ==
    \A p, q \in Keyed(rows, c) : Key(rows[p][c]) = Key(rows[q][c]) => p = q

LEMMA NamedAreDistinct ==
    ASSUME NEW keys, NEW rows, NEW c, NamesRows(keys, rows, c)
    PROVE  DistinctKeys(rows, c)
BY DEF NamesRows, DistinctKeys

LEMMA UniqueFailsNot ==
    ASSUME NEW keys, NEW pending, IsSeq(pending), ~UniqueFails(keys, pending), NEW c \in Unique
    PROVE  /\ DistinctKeys(pending, c)
           /\ \A i \in Keyed(pending, c) : Key(pending[i][c]) \notin DOMAIN keys[c]
<1>1. Len(pending) \in Nat /\ DOMAIN pending = 1 .. Len(pending)
  BY SeqDomain
<1>2. \A i \in Keyed(pending, c) : /\ i \in DOMAIN pending /\ pending[i][c] # Null
                                   /\ Key(pending[i][c]) \notin DOMAIN keys[c]
                                   /\ \A j \in 1 .. i - 1 : Key(pending[j][c]) # Key(pending[i][c])
  BY DEF UniqueFails, Keyed
<1>3. ASSUME NEW i \in Keyed(pending, c), NEW j \in Keyed(pending, c),
             Key(pending[i][c]) = Key(pending[j][c])
      PROVE  i = j
  <2>1. i \in 1 .. Len(pending) /\ j \in 1 .. Len(pending)
    BY <1>1, <1>2
  <2>2. ~ i \in 1 .. j - 1 /\ ~ j \in 1 .. i - 1
    BY <1>2, <1>3
  <2> QED BY <1>1, <2>1, <2>2
<1> QED BY <1>2, <1>3 DEF DistinctKeys

LEMMA DistinctSucceeds ==
    ASSUME NEW rows, IsSeq(rows), \A c \in Unique : DistinctKeys(rows, c)
    PROVE  ~UniqueFails(NoKeys, rows)
<1> SUFFICES ASSUME NEW c \in Unique, NEW i \in DOMAIN rows, rows[i][c] # Null,
                    \/ Key(rows[i][c]) \in DOMAIN NoKeys[c]
                    \/ \E j \in 1 .. i - 1 : Key(rows[j][c]) = Key(rows[i][c])
             PROVE  FALSE
  BY DEF UniqueFails
<1>1. DOMAIN NoKeys[c] = {}
  BY DEF NoKeys
<1>2. Len(rows) \in Nat /\ DOMAIN rows = 1 .. Len(rows)
  BY SeqDomain
<1>3. PICK j \in 1 .. i - 1 : Key(rows[j][c]) = Key(rows[i][c])
  BY <1>1
<1>4. j \in DOMAIN rows /\ j # i
  BY <1>2
<1>5. rows[j][c] # Null
  BY <1>3, KeyOfNull
<1> QED BY <1>3, <1>4, <1>5 DEF DistinctKeys, Keyed

\* The rows start with the older ones.
Continues(rows, old) ==
    /\ IsSeq(rows) /\ IsSeq(old) /\ Len(old) <= Len(rows)
    /\ \A p \in 1 .. Len(old) : rows[p] = old[p]

LEMMA KeyedContinue ==
    ASSUME NEW rows, NEW old, Continues(rows, old), NEW c
    PROVE  /\ Len(old) \in Nat /\ Len(rows) \in Nat
           /\ \A p : p \in Keyed(old, c) <=> p \in Keyed(rows, c) /\ p \in 1 .. Len(old)
           /\ \A p \in Keyed(old, c) : rows[p] = old[p]
           /\ \A p : p \in Keyed(rows, c) => p \in 1 .. Len(rows)
           /\ \A p \in Keyed(rows, c) : p \in Keyed(old, c)
                                        \/ (p \in Len(old) + 1 .. Len(rows) /\ rows[p][c] # Null)
<1>1. /\ Len(old) \in Nat /\ DOMAIN old = 1 .. Len(old)
      /\ Len(rows) \in Nat /\ DOMAIN rows = 1 .. Len(rows)
  BY SeqDomain DEF Continues
<1>2. \A p \in 1 .. Len(old) : p \in 1 .. Len(rows) /\ rows[p] = old[p]
  BY <1>1 DEF Continues
<1>3. \A p \in 1 .. Len(rows) : p \in 1 .. Len(old) \/ p \in Len(old) + 1 .. Len(rows)
  BY <1>1
<1> QED BY <1>1, <1>2, <1>3 DEF Keyed

\* Extending the map by the rows behind the older ones gives the map of them all.
LEMMA ExtendNames ==
    ASSUME NEW rows, NEW old, Continues(rows, old), NEW c, NEW keys,
           NamesRows(keys, old, c), DistinctKeys(rows, c)
    PROVE  NamesRows(ExtendKeys(keys, c, rows, Len(old)), rows, c)
<1> DEFINE added == {p \in Len(old) + 1 .. Len(rows) : rows[p][c] # Null}
           Mine(k) == {p \in added : Key(rows[p][c]) = k}
           new == ExtendKeys(keys, c, rows, Len(old))
<1>1. /\ DOMAIN new = DOMAIN keys \cup {Key(rows[p][c]) : p \in added}
      /\ \A k \in DOMAIN new : new[k] = IF Mine(k) = {} THEN keys[k] ELSE Max(Mine(k))
  BY DEF ExtendKeys
<1>2. /\ Len(old) \in Nat /\ Len(rows) \in Nat
      /\ \A p \in Keyed(old, c) : p \in Keyed(rows, c) /\ p \in 1 .. Len(old) /\ rows[p] = old[p]
      /\ \A p \in Keyed(rows, c) : p \in Keyed(old, c) \/ p \in added
  BY KeyedContinue
<1>3. added \subseteq Keyed(rows, c) /\ \A p \in added : p \notin Keyed(old, c)
  <2>1. \A p \in added : p \in 1 .. Len(rows) /\ p \notin 1 .. Len(old)
    BY <1>2
  <2>2. DOMAIN rows = 1 .. Len(rows)
    BY SeqDomain DEF Continues
  <2> QED BY <1>2, <2>1, <2>2 DEF Keyed
<1> HIDE DEF new, added
<1>4. \A p \in added : Mine(Key(rows[p][c])) = {p}
  BY <1>3 DEF DistinctKeys
<1>5. \A p \in Keyed(old, c) : Mine(Key(rows[p][c])) = {}
  BY <1>2, <1>3 DEF DistinctKeys
<1>6. \A p \in added : Max({p}) = p
  <2> SUFFICES ASSUME NEW p \in added PROVE Max({p}) = p
    OBVIOUS
  <2>1. p \in Nat
    BY <1>2 DEF added
  <2> QED BY <2>1 DEF Max
<1>7. \A p \in added : Key(rows[p][c]) \in DOMAIN new /\ new[Key(rows[p][c])] = p
  <2> SUFFICES ASSUME NEW p \in added
               PROVE  Key(rows[p][c]) \in DOMAIN new /\ new[Key(rows[p][c])] = p
    OBVIOUS
  <2> DEFINE k == Key(rows[p][c])
  <2>1. Mine(k) = {p}
    BY <1>4
  <2>2. k \in DOMAIN new
    BY <1>1
  <2> HIDE DEF k, Mine
  <2>3. new[k] = p
    BY <1>1, <1>6, <2>1, <2>2
  <2> QED BY <2>2, <2>3 DEF k
<1>8. \A p \in Keyed(old, c) : Key(rows[p][c]) \in DOMAIN new /\ new[Key(rows[p][c])] = p
  <2> SUFFICES ASSUME NEW p \in Keyed(old, c)
               PROVE  Key(rows[p][c]) \in DOMAIN new /\ new[Key(rows[p][c])] = p
    OBVIOUS
  <2> DEFINE k == Key(rows[p][c])
  <2>1. Mine(k) = {}
    BY <1>5
  <2>2. k \in DOMAIN keys /\ keys[k] = p
    BY <1>2 DEF NamesRows
  <2> HIDE DEF k, Mine
  <2>3. k \in DOMAIN new /\ new[k] = p
    BY <1>1, <2>1, <2>2
  <2> QED BY <2>3 DEF k
<1>9. \A k \in DOMAIN keys : \E p \in Keyed(rows, c) : Key(rows[p][c]) = k
  BY <1>2 DEF NamesRows
<1>10. DOMAIN new = {Key(rows[p][c]) : p \in Keyed(rows, c)}
  BY <1>1, <1>2, <1>3, <1>7, <1>8, <1>9
<1>11. \A p \in Keyed(rows, c) : new[Key(rows[p][c])] = p
  BY <1>2, <1>7, <1>8
<1> QED BY <1>10, <1>11 DEF NamesRows, new

LEMMA NoKeysName == ASSUME NEW c PROVE NamesRows(<<>>, <<>>, c)
BY DEF NamesRows, Keyed

LEMMA RebuildNames ==
    ASSUME NEW rows, IsSeq(rows), NEW c, DistinctKeys(rows, c)
    PROVE  NamesRows(ExtendKeys(<<>>, c, rows, 0), rows, c)
<1>1. IsSeq(<<>>) /\ Len(<<>>) = 0 /\ Len(rows) \in Nat
  BY SeqNone, SeqDomain
<1>2. Continues(rows, <<>>)
  BY <1>1 DEF Continues
<1> QED BY <1>1, <1>2, NoKeysName, ExtendNames

LEMMA ConcatPlaces ==
    ASSUME NEW s, IsSeq(s), NEW t, IsSeq(t)
    PROVE  /\ Continues(s \o t, s)
           /\ \A p \in Len(s) + 1 .. Len(s \o t) : /\ p - Len(s) \in DOMAIN t
                                                 /\ (s \o t)[p] = t[p - Len(s)]
<1> DEFINE S == ToSet(s) \cup ToSet(t)
           r == s \o t
<1>1. s \in Seq(S) /\ t \in Seq(S) /\ Len(s) \in Nat /\ Len(t) \in Nat /\ DOMAIN t = 1 .. Len(t)
  BY SeqDomain, SeqMonotonic DEF IsSeq
<1>2. IsSeq(r) /\ Len(r) = Len(s) + Len(t)
  BY SeqConcat
<1> HIDE DEF S
<1>3. \A i \in 1 .. Len(s) + Len(t) : r[i] = IF i <= Len(s) THEN s[i] ELSE t[i - Len(s)]
  BY <1>1, ConcatProperties
<1> HIDE DEF r
<1>4. \A i \in 1 .. Len(s) : r[i] = s[i]
  BY <1>1, <1>3
<1>5. \A i \in Len(s) + 1 .. Len(r) : i - Len(s) \in 1 .. Len(t) /\ r[i] = t[i - Len(s)]
  BY <1>1, <1>2, <1>3
<1>6. Len(s) <= Len(r)
  BY <1>1, <1>2
<1> QED BY <1>1, <1>2, <1>4, <1>5, <1>6 DEF r, Continues

\* Rows whose keys are new, and differ, keep all keys different.
LEMMA DistinctConcat ==
    ASSUME NEW old, IsSeq(old), NEW pending, IsSeq(pending), NEW c,
           DistinctKeys(old, c), DistinctKeys(pending, c),
           \A p \in Keyed(old, c) : \A i \in Keyed(pending, c) :
              Key(old[p][c]) # Key(pending[i][c])
    PROVE  DistinctKeys(old \o pending, c)
<1> DEFINE rows == old \o pending
           n == Len(old)
           Added(p) == /\ p \in n + 1 .. Len(rows) /\ p - n \in Keyed(pending, c)
                       /\ rows[p] = pending[p - n]
<1>1. /\ Continues(rows, old)
      /\ \A p \in n + 1 .. Len(rows) : p - n \in DOMAIN pending /\ rows[p] = pending[p - n]
  BY ConcatPlaces
<1> HIDE DEF rows
<1>2. n \in Nat /\ Len(rows) \in Nat
  BY <1>1, KeyedContinue
<1>3. \A p \in Keyed(rows, c) : (p \in Keyed(old, c) /\ rows[p] = old[p]) \/ Added(p)
  <2>1. \A p \in Keyed(rows, c) : \/ p \in Keyed(old, c) /\ rows[p] = old[p]
                                  \/ p \in n + 1 .. Len(rows) /\ rows[p][c] # Null
    BY <1>1, KeyedContinue
  <2> QED BY <1>1, <2>1 DEF Keyed
<1>4. ASSUME NEW p \in Keyed(rows, c), NEW q \in Keyed(rows, c), Key(rows[p][c]) = Key(rows[q][c])
      PROVE  p = q
  <2>1. CASE p \in Keyed(old, c) /\ rows[p] = old[p] /\ q \in Keyed(old, c) /\ rows[q] = old[q]
    BY <1>4, <2>1 DEF DistinctKeys
  <2>2. CASE Added(p) /\ Added(q)
    <3>1. p - n = q - n
      BY <1>4, <2>2 DEF DistinctKeys
    <3> QED BY <1>2, <2>2, <3>1
  <2>3. CASE p \in Keyed(old, c) /\ rows[p] = old[p] /\ Added(q)
    BY <1>4, <2>3
  <2>4. CASE q \in Keyed(old, c) /\ rows[q] = old[q] /\ Added(p)
    BY <1>4, <2>4
  <2> HIDE DEF Added
  <2> QED BY <1>3, <2>1, <2>2, <2>3, <2>4
<1> QED BY <1>4 DEF DistinctKeys, rows

-----------------------------------------------------------------------------
(* Positions, and the check of a patch.                                      *)

LEMMA PositionsAre ==
    ASSUME NEW n \in Nat, NEW set \in SUBSET (1 .. n)
    PROVE  Ascends(Positions(set)) /\ ToSet(Positions(set)) = set
<1> DEFINE m == Max({0} \cup set)
           s == [p \in 1 .. m |-> p]
           keep == [i \in DOMAIN s |-> s[i] \in set]
<1>1. m \in {0} \cup set /\ \A y \in {0} \cup set : m >= y
  <2>1. {0} \cup set \in SUBSET (0 .. n) /\ {0} \cup set # {}
    OBVIOUS
  <2> QED BY <2>1, GreatestPlace
<1> HIDE DEF m
<1>2. m \in Nat /\ set \subseteq 1 .. m
  BY <1>1
<1>3. IsSeq(s) /\ Len(s) = m
  <2>1. DOMAIN s = 1 .. m /\ s = [i \in 1 .. m |-> s[i]]
    OBVIOUS
  <2> HIDE DEF s
  <2> QED BY <1>2, <2>1, SeqIsFunction
<1>4. ToSet(s) = 1 .. m
  BY DEF ToSet
<1>5. Ascends(s)
  <2>1. \A i, j \in DOMAIN s : i < j => s[i] < s[j]
    OBVIOUS
  <2>2. ToSet(s) \subseteq Nat
    BY <1>2, <1>4
  <2> QED BY <1>3, <2>1, <2>2 DEF Ascends
<1>6. Positions(set) = Kept(s, keep)
  BY DEF Positions, Where, m
<1>7. \A i \in 1 .. Len(s) : keep[i] = (s[i] \in set)
  BY <1>3
<1>8. s \in Seq(ToSet(s))
  BY <1>3 DEF IsSeq
<1> HIDE DEF s, keep
<1>9. Kept(s, keep) = Only(s, set)
  BY <1>7, <1>8, OnlyIs
<1>10. Ascends(Only(s, set)) /\ ToSet(Only(s, set)) = ToSet(s) \cap set
  BY <1>5, AscendsOnly
<1> QED BY <1>2, <1>4, <1>6, <1>9, <1>10

LEMMA AscendsPlaces ==
    ASSUME NEW s, Ascends(s)
    PROVE  /\ Len(s) \in Nat /\ DOMAIN s = 1 .. Len(s)
           /\ \A i \in 1 .. Len(s) : s[i] \in ToSet(s) /\ s[i] \in Nat
           /\ \A x \in ToSet(s) : \E i \in 1 .. Len(s) : s[i] = x
           /\ \A i, j \in 1 .. Len(s) : s[i] = s[j] => i = j
<1>1. /\ Len(s) \in Nat /\ DOMAIN s = 1 .. Len(s)
      /\ \A i \in 1 .. Len(s) : s[i] \in ToSet(s) /\ s[i] \in Nat
      /\ \A x \in ToSet(s) : \E i \in 1 .. Len(s) : s[i] = x
  BY SeqDomain DEF Ascends
<1>2. ASSUME NEW i \in 1 .. Len(s), NEW j \in 1 .. Len(s), s[i] = s[j] PROVE i = j
  <2>1. i < j => s[i] < s[j]
    BY <1>1 DEF Ascends
  <2>2. j < i => s[j] < s[i]
    BY <1>1 DEF Ascends
  <2>3. s[i] \in Nat
    BY <1>1
  <2> QED BY <1>1, <1>2, <2>1, <2>2, <2>3
<1> QED BY <1>1, <1>2

\* The rows of a patch in the order the check stages them.
Staged(updates) == LET order == Positions(DOMAIN updates)
                   IN  [i \in DOMAIN order |-> updates[order[i]]]

LEMMA StagedAre ==
    ASSUME NEW n \in Nat, NEW updates, DOMAIN updates \subseteq 1 .. n
    PROVE  /\ IsSeq(Staged(updates))
           /\ \A p \in DOMAIN updates : \E i \in DOMAIN Staged(updates) :
                 /\ Positions(DOMAIN updates)[i] = p
                 /\ Staged(updates)[i] = updates[p]
<1> DEFINE order == Positions(DOMAIN updates)
           staged == Staged(updates)
<1>1. Ascends(order) /\ ToSet(order) = DOMAIN updates
  BY PositionsAre
<1>2. staged = [i \in DOMAIN order |-> updates[order[i]]]
  BY DEF Staged
<1> HIDE DEF order, staged
<1>3. /\ Len(order) \in Nat /\ DOMAIN order = 1 .. Len(order)
      /\ \A p \in DOMAIN updates : \E i \in 1 .. Len(order) : order[i] = p
  BY <1>1, AscendsPlaces
<1>4. DOMAIN staged = 1 .. Len(order) /\ staged = [i \in 1 .. Len(order) |-> staged[i]]
  BY <1>2, <1>3
<1>5. IsSeq(staged)
  BY <1>3, <1>4, SeqIsFunction
<1>6. \A p \in DOMAIN updates : \E i \in DOMAIN staged : order[i] = p /\ staged[i] = updates[p]
  BY <1>2, <1>3
<1> QED BY <1>5, <1>6 DEF staged, order

\* A patch that fits leaves all rows, the replaced and the added ones too, with
\* different keys, rows that exchange their keys included.
LEMMA FittingPatch ==
    ASSUME NEW t, IsSeq(t.rows), NEW c \in Unique, NamesRows(t.unique_keys[c], t.rows, c),
           NEW updates, DOMAIN updates \subseteq DOMAIN t.rows,
           NEW appended, IsSeq(appended), PatchFits(t, updates, appended)
    PROVE  /\ DistinctKeys(Replaced(t.rows, updates), c)
           /\ DistinctKeys(appended, c)
           /\ \A p \in Keyed(Replaced(t.rows, updates), c) : \A i \in Keyed(appended, c) :
                 Key(Replaced(t.rows, updates)[p][c]) # Key(appended[i][c])
<1> DEFINE rows == t.rows
           new == Replaced(rows, updates)
           keys == t.unique_keys[c]
           first == Staged(updates)
           staged == first \o appended
           left == [d \in Unique |-> UntouchedKeys(t.unique_keys[d], updates)]
           m == Len(first)
<1>1. Len(rows) \in Nat /\ DOMAIN rows = 1 .. Len(rows)
  BY SeqDomain
<1>2. /\ IsSeq(first)
      /\ \A p \in DOMAIN updates : \E i \in DOMAIN first :
            Positions(DOMAIN updates)[i] = p /\ first[i] = updates[p]
  BY <1>1, StagedAre
<1>3. ~UniqueFails(left, staged)
  BY DEF PatchFits, Staged
<1>4. /\ Continues(staged, first) /\ IsSeq(staged)
      /\ \A p \in m + 1 .. Len(staged) : staged[p] = appended[p - m]
      /\ Len(staged) = m + Len(appended)
      /\ m \in Nat /\ DOMAIN first = 1 .. m
      /\ Len(appended) \in Nat /\ DOMAIN appended = 1 .. Len(appended)
  BY <1>2, ConcatPlaces, SeqConcat, SeqDomain
<1>5. DOMAIN left[c] = {k \in DOMAIN keys : keys[k] \notin DOMAIN updates}
  BY DEF UntouchedKeys, Restrict
<1>6. /\ DOMAIN new = DOMAIN rows
      /\ \A p \in DOMAIN rows : new[p] = IF p \in DOMAIN updates THEN updates[p] ELSE rows[p]
  BY DEF Replaced
<1> HIDE DEF first, staged, left, new, m
<1>7. /\ DistinctKeys(staged, c)
      /\ \A i \in Keyed(staged, c) : Key(staged[i][c]) \notin DOMAIN left[c]
  BY <1>3, <1>4, UniqueFailsNot
<1>8. \A i \in DOMAIN first : i \in DOMAIN staged /\ staged[i] = first[i]
  <2>1. DOMAIN staged = 1 .. Len(staged)
    BY <1>4, SeqDomain
  <2>2. \A i \in 1 .. m : i \in 1 .. Len(staged) /\ staged[i] = first[i]
    BY <1>4 DEF Continues, m
  <2> QED BY <1>4, <2>1, <2>2
<1>9. \A i \in DOMAIN appended : /\ m + i \in DOMAIN staged /\ staged[m + i] = appended[i]
                                 /\ m + i \notin DOMAIN first
  <2>1. DOMAIN staged = 1 .. Len(staged)
    BY <1>4, SeqDomain
  <2> SUFFICES ASSUME NEW i \in DOMAIN appended
               PROVE  /\ m + i \in DOMAIN staged /\ staged[m + i] = appended[i]
                      /\ m + i \notin DOMAIN first
    OBVIOUS
  <2>2. m + i \in m + 1 .. Len(staged) /\ m + i - m = i /\ m + i \in 1 .. Len(staged)
        /\ m + i \notin 1 .. m
    BY <1>4
  <2>3. staged[m + i] = appended[m + i - m]
    BY <1>4, <2>2
  <2> QED BY <1>4, <2>1, <2>2, <2>3
<1>10. \A p \in Keyed(new, c) \ DOMAIN updates :
          p \in Keyed(rows, c) /\ new[p] = rows[p] /\ Key(rows[p][c]) \in DOMAIN left[c]
  BY <1>5, <1>6 DEF Keyed, NamesRows
<1>11. \A p \in Keyed(new, c) \cap DOMAIN updates : \E i \in Keyed(staged, c) :
          /\ i \in DOMAIN first /\ Positions(DOMAIN updates)[i] = p
          /\ staged[i] = new[p]
  <2> SUFFICES ASSUME NEW p \in Keyed(new, c), p \in DOMAIN updates
               PROVE  \E i \in Keyed(staged, c) :
                         /\ i \in DOMAIN first /\ Positions(DOMAIN updates)[i] = p
                         /\ staged[i] = new[p]
    OBVIOUS
  <2>1. PICK i \in DOMAIN first : Positions(DOMAIN updates)[i] = p /\ first[i] = updates[p]
    BY <1>2
  <2>2. staged[i] = new[p] /\ i \in Keyed(staged, c)
    BY <1>6, <1>8, <2>1 DEF Keyed
  <2> QED BY <2>1, <2>2
<1>12. \A i \in Keyed(appended, c) : /\ m + i \in Keyed(staged, c) /\ staged[m + i] = appended[i]
                                     /\ m + i \notin DOMAIN first /\ i \in Nat
  BY <1>4, <1>9 DEF Keyed
<1>13. ASSUME NEW p \in Keyed(new, c), NEW q \in Keyed(new, c), Key(new[p][c]) = Key(new[q][c])
       PROVE  p = q
  <2>1. CASE p \notin DOMAIN updates /\ q \notin DOMAIN updates
    BY <1>10, <1>13, <2>1 DEF NamesRows
  <2>2. CASE p \in DOMAIN updates /\ q \in DOMAIN updates
    BY <1>7, <1>11, <1>13, <2>2 DEF DistinctKeys
  <2>3. CASE p \in DOMAIN updates /\ q \notin DOMAIN updates
    BY <1>7, <1>10, <1>11, <1>13, <2>3
  <2>4. CASE p \notin DOMAIN updates /\ q \in DOMAIN updates
    BY <1>7, <1>10, <1>11, <1>13, <2>4
  <2> QED BY <2>1, <2>2, <2>3, <2>4
<1>14. ASSUME NEW i \in Keyed(appended, c), NEW j \in Keyed(appended, c),
              Key(appended[i][c]) = Key(appended[j][c])
       PROVE  i = j
  <2>1. m + i = m + j
    BY <1>7, <1>12, <1>14 DEF DistinctKeys
  <2>2. i \in Nat /\ j \in Nat
    BY <1>12
  <2> QED BY <1>4, <2>1, <2>2
<1>15. ASSUME NEW p \in Keyed(new, c), NEW i \in Keyed(appended, c),
              Key(new[p][c]) = Key(appended[i][c])
       PROVE  FALSE
  <2>1. CASE p \notin DOMAIN updates
    BY <1>7, <1>10, <1>12, <1>15, <2>1
  <2>2. CASE p \in DOMAIN updates
    <3>1. PICK k \in Keyed(staged, c) : k \in DOMAIN first /\ staged[k] = new[p]
      BY <1>11, <2>2
    <3>2. k = m + i
      BY <1>7, <1>12, <1>15, <3>1 DEF DistinctKeys
    <3> QED BY <1>12, <3>1, <3>2
  <2> QED BY <2>1, <2>2
<1> QED BY <1>13, <1>14, <1>15 DEF DistinctKeys, new

-----------------------------------------------------------------------------
(* Deletion.                                                                 *)

\* The places that stay.
Stay(rows, deleted) == Positions(DOMAIN rows \ deleted)

LEMMA StayAre ==
    ASSUME NEW rows, IsSeq(rows), NEW deleted
    PROVE  /\ Ascends(Stay(rows, deleted)) /\ ToSet(Stay(rows, deleted)) = DOMAIN rows \ deleted
           /\ IsSeq(Retained(rows, deleted))
           /\ Len(Retained(rows, deleted)) = Len(Stay(rows, deleted))
           /\ Len(Stay(rows, deleted)) \in Nat
           /\ \A i \in 1 .. Len(Stay(rows, deleted)) :
                 /\ Stay(rows, deleted)[i] \in DOMAIN rows \ deleted
                 /\ Retained(rows, deleted)[i] = rows[Stay(rows, deleted)[i]]
           /\ \A p \in DOMAIN rows \ deleted :
                 \E i \in 1 .. Len(Stay(rows, deleted)) : Stay(rows, deleted)[i] = p
<1> DEFINE kept == Stay(rows, deleted)
           new == Retained(rows, deleted)
<1>1. Ascends(kept) /\ ToSet(kept) = DOMAIN rows \ deleted
  <2>1. Len(rows) \in Nat /\ DOMAIN rows = 1 .. Len(rows)
    BY SeqDomain
  <2>2. DOMAIN rows \ deleted \in SUBSET (1 .. Len(rows))
    BY <2>1
  <2> QED BY <2>1, <2>2, PositionsAre DEF Stay
<1>2. new = [i \in DOMAIN kept |-> rows[kept[i]]]
  BY DEF Retained, Stay
<1> HIDE DEF kept, new
<1>3. /\ Len(kept) \in Nat /\ DOMAIN kept = 1 .. Len(kept)
      /\ \A i \in 1 .. Len(kept) : kept[i] \in DOMAIN rows \ deleted
      /\ \A p \in DOMAIN rows \ deleted : \E i \in 1 .. Len(kept) : kept[i] = p
  BY <1>1, AscendsPlaces
<1>4. DOMAIN new = 1 .. Len(kept) /\ new = [i \in 1 .. Len(kept) |-> new[i]]
  BY <1>2, <1>3
<1>5. IsSeq(new) /\ Len(new) = Len(kept)
  BY <1>3, <1>4, SeqIsFunction
<1>6. \A i \in 1 .. Len(kept) : new[i] = rows[kept[i]]
  BY <1>2, <1>3
<1> QED BY <1>1, <1>3, <1>5, <1>6 DEF kept, new

\* The distance a place moves is the number of deleted rows before it.
LEMMA RemapIs ==
    ASSUME NEW rows, IsSeq(rows), NEW deleted \in SUBSET DOMAIN rows,
           NEW i \in 1 .. Len(Stay(rows, deleted))
    PROVE  RemapRow(Stay(rows, deleted)[i], deleted) = i
<1> DEFINE kept == Stay(rows, deleted)
           p == kept[i]
           D == {d \in deleted : d < p}
           before == [j \in 1 .. i - 1 |-> kept[j]]
           K == {q \in DOMAIN rows \ deleted : q < p}
<1>1. Len(rows) \in Nat /\ DOMAIN rows = 1 .. Len(rows)
  BY SeqDomain
<1>2. Ascends(kept) /\ ToSet(kept) = DOMAIN rows \ deleted
  BY StayAre
<1> HIDE DEF kept
<1>3. /\ Len(kept) \in Nat /\ DOMAIN kept = 1 .. Len(kept)
      /\ \A j \in 1 .. Len(kept) : kept[j] \in DOMAIN rows \ deleted /\ kept[j] \in Nat
      /\ \A q \in DOMAIN rows \ deleted : \E j \in 1 .. Len(kept) : kept[j] = q
      /\ \A j, k \in 1 .. Len(kept) : kept[j] = kept[k] => j = k
  BY <1>2, AscendsPlaces
<1>4. i \in 1 .. Len(kept) /\ i \in Nat
  BY <1>3 DEF kept
<1>5. p \in DOMAIN rows \ deleted /\ p \in 1 .. Len(rows)
  BY <1>1, <1>3, <1>4
<1>6. \A j \in 1 .. Len(kept) : kept[j] < p <=> j < i
  <2> TAKE j \in 1 .. Len(kept)
  <2>1. j < i => kept[j] < p
    BY <1>2, <1>3, <1>4 DEF Ascends
  <2>2. i < j => p < kept[j]
    BY <1>2, <1>3, <1>4 DEF Ascends
  <2>3. kept[j] \in Nat /\ p \in Nat
    BY <1>3, <1>4
  <2> HIDE DEF p
  <2>4. i = j => kept[j] = p
    BY DEF p
  <2> QED BY <1>3, <1>4, <2>1, <2>2, <2>3, <2>4
<1> HIDE DEF p
<1>7. ExistsBijection(1 .. i - 1, K)
  <2>1. \A j \in 1 .. i - 1 : j \in 1 .. Len(kept) /\ kept[j] \in K
    <3>1. \A j \in 1 .. i - 1 : j \in 1 .. Len(kept) /\ j < i
      BY <1>3, <1>4
    <3> QED BY <1>3, <1>6, <3>1
  <2>2. \A q \in K : \E j \in 1 .. i - 1 : kept[j] = q
    <3> TAKE q \in K
    <3>1. PICK j \in 1 .. Len(kept) : kept[j] = q
      BY <1>3
    <3>2. j \in 1 .. i - 1
      BY <1>3, <1>4, <1>6, <3>1
    <3> QED BY <3>1, <3>2
  <2>3. before \in [1 .. i - 1 -> K]
    BY <2>1
  <2>4. \A j, k \in 1 .. i - 1 : before[j] = before[k] => j = k
    BY <1>3, <2>1
  <2>5. \A q \in K : \E j \in 1 .. i - 1 : before[j] = q
    BY <2>2
  <2> DEFINE I == 1 .. i - 1
  <2>6. /\ before \in [I -> K] /\ \A j, k \in I : before[j] = before[k] => j = k
        /\ \A q \in K : \E j \in I : before[j] = q
    BY <2>3, <2>4, <2>5
  <2> HIDE DEF before, K, I
  <2>7. before \in Bijection(I, K)
    BY <2>6 DEF Bijection, Injection, Surjection, IsInjective
  <2> QED BY <2>7 DEF ExistsBijection, I
<1>8. IsFiniteSet(K) /\ Cardinality(K) = i - 1
  <2>1. IsFiniteSet(1 .. i - 1) /\ Cardinality(1 .. i - 1) = i - 1
    <3>1. 1 \in Int /\ i - 1 \in Int /\ (1 > i - 1 <=> i - 1 = 0)
      BY <1>4
    <3> QED BY <1>4, <3>1, FS_Interval
  <2> QED BY <1>7, <2>1, FS_Bijection
<1>9. IsFiniteSet(1 .. p - 1) /\ Cardinality(1 .. p - 1) = p - 1
  <2>1. PICK q : q = p - 1
    OBVIOUS
  <2>2. 1 \in Int /\ q \in Nat /\ (1 > q <=> q = 0) /\ q - 1 + 1 = q
    BY <1>5, <2>1
  <2>3. IsFiniteSet(1 .. q) /\ Cardinality(1 .. q) = IF 1 > q THEN 0 ELSE q - 1 + 1
    BY ONLY <2>2, FS_Interval
  <2>4. Cardinality(1 .. q) = q
    BY ONLY <2>2, <2>3
  <2> QED BY ONLY <2>1, <2>3, <2>4
<1>10. D \cup K = 1 .. p - 1 /\ D \cap K = {} /\ D \subseteq 1 .. p - 1
  <2>1. \A q \in 1 .. Len(rows) : q < p <=> q \in 1 .. p - 1
    BY <1>5
  <2>2. 1 .. p - 1 \subseteq 1 .. Len(rows)
    BY <1>5
  <2> QED BY <1>1, <2>1, <2>2
<1> HIDE DEF D, K
<1>11. IsFiniteSet(D)
  BY <1>9, <1>10, FS_Subset
<1>12. Cardinality(D \cup K) = Cardinality(D) + Cardinality(K) - Cardinality(D \cap K)
  BY <1>8, <1>11, FS_Union
<1>13. Cardinality(D \cap K) = 0 /\ Cardinality(D) \in Nat
  BY <1>10, <1>11, FS_EmptySet, FS_CardinalityType
<1>14. Cardinality(D) = p - i
  <2> DEFINE d == Cardinality(D)
             k == Cardinality(K)
  <2>1. Cardinality(D \cup K) = p - 1
    BY <1>9, <1>10
  <2>2. d \in Nat /\ k = i - 1 /\ p - 1 = d + k - 0
    BY <1>8, <1>12, <1>13, <2>1
  <2> HIDE DEF d, k
  <2>3. p \in Nat
    BY <1>5
  <2>4. d = p - i
    BY <1>4, <2>2, <2>3
  <2> QED BY <2>4 DEF d
<1>15. p - (p - i) = i
  BY <1>4, <1>5
<1> QED BY <1>14, <1>15 DEF RemapRow, D, p, kept

\* The keys of the rows that stay, at their new places.
LEMMA RemapNames ==
    ASSUME NEW rows, IsSeq(rows), NEW deleted \in SUBSET DOMAIN rows, NEW c, NEW keys,
           NamesRows(keys, rows, c)
    PROVE  NamesRows(RemapKeys(keys, deleted), Retained(rows, deleted), c)
<1> DEFINE kept == Stay(rows, deleted)
           n == Len(kept)
           new == Retained(rows, deleted)
           result == RemapKeys(keys, deleted)
<1>1. /\ IsSeq(new) /\ Len(new) = n /\ n \in Nat
      /\ \A i \in 1 .. n : kept[i] \in DOMAIN rows \ deleted /\ new[i] = rows[kept[i]]
      /\ \A p \in DOMAIN rows \ deleted : \E i \in 1 .. n : kept[i] = p
  BY StayAre
<1>2. DOMAIN new = 1 .. n
  BY <1>1, SeqDomain
<1>3. \A i \in 1 .. n : RemapRow(kept[i], deleted) = i
  BY RemapIs
<1>4. /\ DOMAIN result = {k \in DOMAIN keys : keys[k] \notin deleted}
      /\ \A k \in DOMAIN keys : keys[k] \notin deleted => result[k] = RemapRow(keys[k], deleted)
  BY DEF RemapKeys
<1> HIDE DEF kept, new, result, n
<1>5. ASSUME NEW i \in Keyed(new, c)
      PROVE  Key(new[i][c]) \in DOMAIN result /\ result[Key(new[i][c])] = i
  <2>1. i \in 1 .. n /\ new[i] = rows[kept[i]] /\ kept[i] \in DOMAIN rows \ deleted
    BY <1>1, <1>2 DEF Keyed
  <2>2. kept[i] \in Keyed(rows, c)
    BY <2>1 DEF Keyed
  <2>3. Key(new[i][c]) \in DOMAIN keys /\ keys[Key(new[i][c])] = kept[i]
    BY <2>1, <2>2 DEF NamesRows
  <2> QED BY <1>3, <1>4, <2>1, <2>3
<1>6. ASSUME NEW k \in DOMAIN result PROVE \E i \in Keyed(new, c) : Key(new[i][c]) = k
  <2>1. k \in DOMAIN keys /\ keys[k] \notin deleted
    BY <1>4
  <2>2. PICK p \in Keyed(rows, c) : Key(rows[p][c]) = k
    BY <2>1 DEF NamesRows
  <2>3. keys[k] = p /\ p \in DOMAIN rows \ deleted /\ rows[p][c] # Null
    BY <2>1, <2>2 DEF NamesRows, Keyed
  <2>4. PICK i \in 1 .. n : kept[i] = p
    BY <1>1, <2>3
  <2>5. i \in Keyed(new, c) /\ Key(new[i][c]) = k
    BY <1>1, <1>2, <2>2, <2>3, <2>4 DEF Keyed
  <2> QED BY <2>5
<1>7. DOMAIN result = {Key(new[i][c]) : i \in Keyed(new, c)}
  BY <1>5, <1>6
<1> QED BY <1>5, <1>7 DEF NamesRows, new, result

-----------------------------------------------------------------------------
(* The rows a statement is left with.                                        *)

ValidRows(rows) == IsSeq(rows) /\ \A row \in ToSet(rows) : ValidRow(row)

LEMMA AcceptedAre ==
    ASSUME NEW t, NEW columns, NEW pending, ValidRows(pending)
    PROVE  ValidRows(Accepted(t, pending, columns))
<1> DEFINE o == [kind |-> "accept", t |-> t, columns |-> columns]
           n == Len(pending)
<1>1. /\ n \in Nat /\ IsSeq(pending)
      /\ \A i \in 1 .. n : pending[i] \in ToSet(pending) /\ ValidRow(pending[i])
  BY SeqDomain DEF ValidRows
<1>2. PICK f : Runs(o, <<>>, pending, f, n) /\ Accepted(t, pending, columns) = f[n]
  BY <1>1, AcceptRuns
<1>3. /\ f[0] = <<>>
      /\ \A i \in 1 .. n : f[i] = f[i - 1] \/ f[i] = Append(f[i - 1], pending[i])
  <2>1. o.kind = "accept" /\ o.t = t /\ o.columns = columns
    OBVIOUS
  <2> HIDE DEF o
  <2>2. \A v, x : Step(o, v, x) = Accept(t, columns, v, x)
    BY ONLY <2>1 DEF Step
  <2> QED BY <1>2, <2>2 DEF Runs, Accept
<1> DEFINE N == {i \in Nat : i <= n => ValidRows(f[i])}
<1>4. 0 \in N
  BY <1>3, SeqNone DEF ValidRows
<1>5. ASSUME NEW i \in N PROVE i + 1 \in N
  <2> SUFFICES ASSUME i + 1 <= n PROVE ValidRows(f[i + 1])
    OBVIOUS
  <2>1. i + 1 \in 1 .. n /\ i + 1 - 1 = i /\ i <= n
    BY <1>1
  <2>2. ValidRows(f[i]) /\ ValidRow(pending[i + 1])
    BY <1>1, <2>1
  <2>3. ValidRows(Append(f[i], pending[i + 1]))
    BY <2>2, SeqAppend DEF ValidRows
  <2>4. f[i + 1] = f[i] \/ f[i + 1] = Append(f[i], pending[i + 1])
    <3>1. f[i + 1] = f[i + 1 - 1] \/ f[i + 1] = Append(f[i + 1 - 1], pending[i + 1])
      BY ONLY <1>3, <2>1
    <3> QED BY <2>1, <3>1
  <2> QED BY <2>2, <2>3, <2>4
<1> HIDE DEF N
<1>6. N = Nat
  <2>1. N \in SUBSET Nat
    BY DEF N
  <2> QED BY <1>4, <1>5, <2>1, NaturalSets
<1>7. ValidRows(f[n])
  <2>1. n \in N
    BY <1>1, <1>6
  <2> QED BY <1>1, <2>1 DEF N
<1> QED BY <1>2, <1>7

\* A patch replaces stored rows by valid ones and adds rows of the batch.
PatchOf(t, patch) ==
    /\ patch = [ok |-> patch.ok, updates |-> patch.updates,
                appended |-> patch.appended, inserted |-> patch.inserted]
    /\ DOMAIN patch.updates \subseteq DOMAIN t.rows
    /\ patch.ok => \A p \in DOMAIN patch.updates : ValidRow(patch.updates[p])
    /\ ValidRows(patch.appended)

LEMMA TakeRowPatches ==
    ASSUME NEW t, NEW conflict, NamesRows(t.unique_keys[conflict], t.rows, conflict),
           NEW columns, IsSeq(t.rows),
           NEW patch, PatchOf(t, patch), NEW excluded, ValidRow(excluded)
    PROVE  PatchOf(t, TakeRow(t, conflict, columns, patch, excluded))
<1> DEFINE value == excluded[conflict]
           row == FindConflict(t, conflict, value)
           repeated == \/ value \notin {Null, NaN} /\ Key(value) \in patch.inserted
                       \/ row \in DOMAIN patch.updates
           replacement == Overlay(t.rows[row], excluded, columns)
           next == TakeRow(t, conflict, columns, patch, excluded)
<1>1. row # 0 => row \in DOMAIN t.rows
  <2>1. \A k \in DOMAIN t.unique_keys[conflict] : t.unique_keys[conflict][k] \in DOMAIN t.rows
    BY DEF NamesRows, Keyed
  <2> QED BY <2>1 DEF FindConflict
<1>2. \/ next = [patch EXCEPT !.ok = FALSE]
      \/ /\ row # 0 /\ patch.ok /\ row \notin DOMAIN patch.updates
         /\ next = [patch EXCEPT !.ok = ValidRow(replacement),
                                 !.updates = Put(@, row, replacement)]
      \/ /\ patch.ok
         /\ next = [patch EXCEPT !.appended = Append(@, excluded),
                                 !.inserted = @ \cup ({Key(value)} \ {Null, NaN})]
  BY DEF TakeRow
<1> HIDE DEF row, repeated, replacement, value, next
<1>3. CASE next = [patch EXCEPT !.ok = FALSE]
  <2>1. /\ next = [ok |-> FALSE, updates |-> patch.updates,
                   appended |-> patch.appended, inserted |-> patch.inserted]
    BY <1>3 DEF PatchOf
  <2> QED BY <2>1 DEF PatchOf, next
<1>4. CASE /\ row # 0 /\ patch.ok /\ row \notin DOMAIN patch.updates
           /\ next = [patch EXCEPT !.ok = ValidRow(replacement),
                                   !.updates = Put(@, row, replacement)]
  <2> DEFINE updates == Put(patch.updates, row, replacement)
             valid == ValidRow(replacement)
  <2>1. next = [ok |-> valid, updates |-> updates,
                appended |-> patch.appended, inserted |-> patch.inserted]
    BY <1>4 DEF PatchOf
  <2>2. /\ DOMAIN updates = {row} \cup DOMAIN patch.updates /\ updates[row] = replacement
        /\ \A p \in DOMAIN patch.updates : updates[p] = patch.updates[p]
    BY <1>4 DEF Put
  <2> HIDE DEF updates
  <2>3. DOMAIN updates \subseteq DOMAIN t.rows
    BY <1>1, <1>4, <2>2 DEF PatchOf
  <2>4. valid => \A p \in DOMAIN updates : ValidRow(updates[p])
    BY <1>4, <2>2 DEF PatchOf
  <2> HIDE DEF valid
  <2>5. /\ next.ok = valid /\ next.updates = updates
        /\ next.appended = patch.appended /\ next.inserted = patch.inserted
    BY <2>1
  <2>6. ValidRows(next.appended)
    BY <2>5 DEF PatchOf
  <2> QED BY <2>1, <2>3, <2>4, <2>5, <2>6 DEF PatchOf, next
<1>5. CASE /\ patch.ok
           /\ next = [patch EXCEPT !.appended = Append(@, excluded),
                                   !.inserted = @ \cup ({Key(value)} \ {Null, NaN})]
  <2> DEFINE more == Append(patch.appended, excluded)
             met == patch.inserted \cup ({Key(value)} \ {Null, NaN})
  <2>1. next = [ok |-> patch.ok, updates |-> patch.updates, appended |-> more, inserted |-> met]
    BY <1>5 DEF PatchOf
  <2>2. ValidRows(more)
    BY SeqAppend DEF PatchOf, ValidRows
  <2> HIDE DEF more, met
  <2>3. next.ok = patch.ok /\ next.updates = patch.updates /\ next.appended = more /\ next.inserted = met
    BY <2>1
  <2> QED BY <2>1, <2>2, <2>3 DEF PatchOf, next
<1> QED BY <1>2, <1>3, <1>4, <1>5

LEMMA PatchIs ==
    ASSUME NEW t, NEW conflict, NamesRows(t.unique_keys[conflict], t.rows, conflict),
           NEW columns, IsSeq(t.rows), NEW pending, ValidRows(pending)
    PROVE  PatchOf(t, Patch(t, pending, conflict, columns))
<1> DEFINE o == [kind |-> "take", t |-> t, conflict |-> conflict, columns |-> columns]
           n == Len(pending)
<1>1. /\ n \in Nat /\ IsSeq(pending)
      /\ \A i \in 1 .. n : pending[i] \in ToSet(pending) /\ ValidRow(pending[i])
  BY SeqDomain DEF ValidRows
<1>2. PICK f : Runs(o, EmptyPatch, pending, f, n) /\ Patch(t, pending, conflict, columns) = f[n]
  BY <1>1, TakeRuns
<1>3. /\ f[0] = EmptyPatch
      /\ \A i \in 1 .. n : f[i] = TakeRow(t, conflict, columns, f[i - 1], pending[i])
  <2>1. o.kind = "take" /\ o.t = t /\ o.conflict = conflict /\ o.columns = columns
    OBVIOUS
  <2> HIDE DEF o
  <2>2. \A v, x : Step(o, v, x) = TakeRow(t, conflict, columns, v, x)
    BY ONLY <2>1 DEF Step
  <2> QED BY <1>2, <2>2 DEF Runs
<1> DEFINE N == {i \in Nat : i <= n => PatchOf(t, f[i])}
<1>4. 0 \in N
  BY <1>3, SeqNone DEF PatchOf, EmptyPatch, ValidRows
<1>5. ASSUME NEW i \in N PROVE i + 1 \in N
  <2> SUFFICES ASSUME i + 1 <= n PROVE PatchOf(t, f[i + 1])
    OBVIOUS
  <2>1. i + 1 \in 1 .. n /\ i + 1 - 1 = i /\ i <= n
    BY <1>1
  <2>2. PatchOf(t, f[i]) /\ ValidRow(pending[i + 1])
    BY <1>1, <2>1
  <2> QED BY <1>3, <2>1, <2>2, TakeRowPatches
<1> HIDE DEF N
<1>6. N = Nat
  <2>1. N \in SUBSET Nat
    BY DEF N
  <2> QED BY <1>4, <1>5, <2>1, NaturalSets
<1>7. PatchOf(t, f[n])
  <2>1. n \in N
    BY <1>1, <1>6
  <2> QED BY <1>1, <2>1 DEF N
<1> QED BY <1>2, <1>7

\* The general conflict update, row by row.
StateOf(state) ==
    /\ state = [ok |-> state.ok, rows |-> state.rows, touched |-> state.touched,
                affected |-> state.affected]
    /\ IsSeq(state.rows)
    /\ state.ok => ValidRows(state.rows)

LEMMA UpdateRowKeeps ==
    ASSUME NEW conflict, NEW columns, NEW selection, NEW state, StateOf(state),
           NEW excluded, ValidRow(excluded)
    PROVE  StateOf(UpdateRow(conflict, columns, selection, state, excluded))
<1> DEFINE value == excluded[conflict]
           matches == {p \in DOMAIN state.rows : value # Null /\ Equal(state.rows[p][conflict], value)}
           row == Min(matches)
           replacement == Overlay(state.rows[row], excluded, columns)
           next == UpdateRow(conflict, columns, selection, state, excluded)
<1>1. \/ next = state
      \/ /\ state.ok
         /\ next = [state EXCEPT !.rows = Append(@, excluded),
                                 !.touched = @ \cup {Len(state.rows) + 1},
                                 !.affected = TRUE]
      \/ next = [state EXCEPT !.ok = FALSE]
      \/ next = [state EXCEPT !.touched = @ \cup {row}]
      \/ /\ matches # {} /\ state.ok
         /\ next = [state EXCEPT !.ok = ValidRow(replacement),
                                 !.rows[row] = replacement,
                                 !.touched = @ \cup {row},
                                 !.affected = TRUE]
  BY DEF UpdateRow
<1>2. matches # {} => row \in DOMAIN state.rows
  <2>1. DOMAIN state.rows = 1 .. Len(state.rows) /\ Len(state.rows) \in Nat
    BY SeqDomain DEF StateOf
  <2>2. matches \in SUBSET Nat /\ matches \subseteq DOMAIN state.rows
    BY <2>1
  <2> HIDE DEF matches
  <2> QED BY <2>2, SmallestPlace
<1> HIDE DEF value, matches, row, replacement, next
<1>3. CASE next = state
  BY <1>3 DEF next
<1>4. CASE /\ state.ok
           /\ next = [state EXCEPT !.rows = Append(@, excluded),
                                   !.touched = @ \cup {Len(state.rows) + 1},
                                   !.affected = TRUE]
  <2> DEFINE more == Append(state.rows, excluded)
             met == state.touched \cup {Len(state.rows) + 1}
  <2>1. next = [ok |-> state.ok, rows |-> more, touched |-> met, affected |-> TRUE]
    BY <1>4 DEF StateOf
  <2>2. ValidRows(more) /\ IsSeq(more)
    BY <1>4, SeqAppend DEF StateOf, ValidRows
  <2> HIDE DEF more, met
  <2>3. next.ok = state.ok /\ next.rows = more /\ next.touched = met /\ next.affected = TRUE
    BY <2>1
  <2> QED BY <2>1, <2>2, <2>3 DEF StateOf, next
<1>5. CASE next = [state EXCEPT !.ok = FALSE]
  <2>1. next = [ok |-> FALSE, rows |-> state.rows, touched |-> state.touched,
                affected |-> state.affected]
    BY <1>5 DEF StateOf
  <2> QED BY <2>1 DEF StateOf, next
<1>6. CASE next = [state EXCEPT !.touched = @ \cup {row}]
  <2>1. next = [ok |-> state.ok, rows |-> state.rows, touched |-> state.touched \cup {row},
                affected |-> state.affected]
    BY <1>6 DEF StateOf
  <2> QED BY <2>1 DEF StateOf, next
<1>7. CASE /\ matches # {} /\ state.ok
           /\ next = [state EXCEPT !.ok = ValidRow(replacement),
                                   !.rows[row] = replacement,
                                   !.touched = @ \cup {row},
                                   !.affected = TRUE]
  <2> DEFINE new == [state.rows EXCEPT ![row] = replacement]
             met == state.touched \cup {row}
             valid == ValidRow(replacement)
  <2>1. next = [ok |-> valid, rows |-> new, touched |-> met, affected |-> TRUE]
    BY <1>7 DEF StateOf
  <2>2. IsSeq(new) /\ ToSet(new) \subseteq ToSet(state.rows) \cup {replacement}
    BY <1>2, <1>7, ExceptIsSeq DEF StateOf
  <2>3. valid => ValidRows(new)
    BY <1>7, <2>2 DEF StateOf, ValidRows
  <2> HIDE DEF new, met, valid
  <2>4. next.ok = valid /\ next.rows = new /\ next.touched = met /\ next.affected = TRUE
    BY <2>1
  <2> QED BY <2>1, <2>2, <2>3, <2>4 DEF StateOf, next
<1> QED BY <1>1, <1>3, <1>4, <1>5, <1>6, <1>7

LEMMA AfterConflictsAre ==
    ASSUME NEW rows, ValidRows(rows), NEW pending, ValidRows(pending),
           NEW conflict, NEW columns, NEW selection
    PROVE  StateOf(AfterConflicts(rows, pending, conflict, columns, selection))
<1> DEFINE o == [kind |-> "update", conflict |-> conflict, columns |-> columns,
                 selection |-> selection]
           n == Len(pending)
<1>1. /\ n \in Nat /\ IsSeq(pending)
      /\ \A i \in 1 .. n : pending[i] \in ToSet(pending) /\ ValidRow(pending[i])
  BY SeqDomain DEF ValidRows
<1>2. PICK f : /\ Runs(o, NothingTouched(rows), pending, f, n)
               /\ AfterConflicts(rows, pending, conflict, columns, selection) = f[n]
  BY <1>1, UpdateRuns
<1>3. /\ f[0] = NothingTouched(rows)
      /\ \A i \in 1 .. n : f[i] = UpdateRow(conflict, columns, selection, f[i - 1], pending[i])
  <2>1. o.kind = "update" /\ o.conflict = conflict /\ o.columns = columns /\ o.selection = selection
    OBVIOUS
  <2> HIDE DEF o
  <2>2. \A v, x : Step(o, v, x) = UpdateRow(conflict, columns, selection, v, x)
    BY ONLY <2>1 DEF Step
  <2> QED BY <1>2, <2>2 DEF Runs
<1> DEFINE N == {i \in Nat : i <= n => StateOf(f[i])}
<1>4. 0 \in N
  BY <1>3 DEF StateOf, NothingTouched, ValidRows
<1>5. ASSUME NEW i \in N PROVE i + 1 \in N
  <2> SUFFICES ASSUME i + 1 <= n PROVE StateOf(f[i + 1])
    OBVIOUS
  <2>1. i + 1 \in 1 .. n /\ i + 1 - 1 = i /\ i <= n
    BY <1>1
  <2>2. StateOf(f[i]) /\ ValidRow(pending[i + 1])
    BY <1>1, <2>1
  <2> QED BY <1>3, <2>1, <2>2, UpdateRowKeeps
<1> HIDE DEF N
<1>6. N = Nat
  <2>1. N \in SUBSET Nat
    BY DEF N
  <2> QED BY <1>4, <1>5, <2>1, NaturalSets
<1>7. StateOf(f[n])
  <2>1. n \in N
    BY <1>1, <1>6
  <2> QED BY <1>1, <2>1 DEF N
<1> QED BY <1>2, <1>7

-----------------------------------------------------------------------------
(* Index buckets, by the values of their column.                             *)

IsMap(f) == f = [k \in DOMAIN f |-> f[k]]

Members(values, k) == {p \in DOMAIN values : values[p] # Null /\ Key(values[p]) = k}

\* One ascending bucket for each key that occurs, of the rows that have it.
Posted(buckets, values) ==
    /\ IsMap(buckets)
    /\ \A k : k \in DOMAIN buckets <=> Members(values, k) # {}
    /\ \A k \in DOMAIN buckets : Ascends(buckets[k]) /\ ToSet(buckets[k]) = Members(values, k)

LEMMA PostedIsOne ==
    ASSUME NEW values, NEW b1, Posted(b1, values), NEW b2, Posted(b2, values)
    PROVE  b1 = b2
<1>1. DOMAIN b1 = DOMAIN b2
  BY DEF Posted
<1>2. ASSUME NEW k \in DOMAIN b1 PROVE b1[k] = b2[k]
  BY <1>1, AscendsEqual DEF Posted
<1> QED BY <1>1, <1>2 DEF Posted, IsMap

LEMMA PostedSame ==
    ASSUME NEW buckets, NEW left, Posted(buckets, left), NEW right, DOMAIN left = DOMAIN right,
           \A p \in DOMAIN left : /\ Key(left[p]) = Key(right[p])
                                  /\ left[p] = Null <=> right[p] = Null
    PROVE  Posted(buckets, right)
<1>1. \A k : Members(left, k) = Members(right, k)
  BY DEF Members
<1> QED BY <1>1 DEF Posted

LEMMA SplitAt ==
    ASSUME NEW s, IsSeq(s), NEW t, IsSeq(t)
    PROVE  SubSeq(s \o t, 1, Len(s)) = s /\ SubSeq(s \o t, Len(s) + 1, Len(s \o t)) = t
<1> DEFINE S == ToSet(s) \cup ToSet(t)
           r == s \o t
           m == Len(s)
           n == Len(t)
<1>1. s \in Seq(S) /\ t \in Seq(S) /\ m \in Nat /\ n \in Nat
  BY SeqDomain, SeqMonotonic DEF IsSeq
<1>2. r \in Seq(S) /\ Len(r) = m + n
      /\ \A i \in 1 .. m + n : r[i] = IF i <= m THEN s[i] ELSE t[i - m]
  BY <1>1, ConcatProperties
<1> HIDE DEF r, S, m, n
<1> DEFINE a == SubSeq(r, 1, m)
           b == SubSeq(r, m + 1, m + n)
<1>3. a = s
  <2>1. a \in Seq(S) /\ Len(a) = m /\ \A i \in 1 .. m : a[i] = r[i]
    <3>1. \A i \in 1 .. m : 1 + i - 1 = i /\ i \in 1 .. m + n
      BY <1>1
    <3> QED BY <1>1, <1>2, <3>1
  <2>2. \A i \in 1 .. m : a[i] = s[i]
    BY <1>1, <1>2, <2>1
  <2> HIDE DEF a
  <2> QED BY <1>1, <2>1, <2>2, SeqEqual DEF m
<1>4. b = t
  <2>1. b \in Seq(S) /\ Len(b) = n /\ \A i \in 1 .. n : b[i] = r[m + i]
    <3>1. \A i \in 1 .. n : m + 1 + i - 1 = m + i /\ m + i \in 1 .. m + n
      BY <1>1
    <3>2. m + n - (m + 1) + 1 = n /\ m + 1 \in Int /\ m + n \in Int
          /\ IF m + 1 <= m + n THEN TRUE ELSE n = 0
      BY <1>1
    <3>3. \A i \in m + 1 .. m + n : r[i] \in S
      <4>1. \A i \in m + 1 .. m + n : i \in 1 .. Len(r)
        BY <1>1, <1>2
      <4> QED BY <1>2, <4>1, ElementOfSeq
    <3>4. /\ b \in Seq(S)
          /\ Len(b) = IF m + 1 <= m + n THEN m + n - (m + 1) + 1 ELSE 0
          /\ \A i \in 1 .. m + n - (m + 1) + 1 : b[i] = r[m + 1 + i - 1]
      <4> DEFINE x == m + 1
                 y == m + n
      <4>1. x \in Int /\ y \in Int /\ b = SubSeq(r, x, y) /\ \A i \in x .. y : r[i] \in S
        BY <3>2, <3>3
      <4> HIDE DEF x, y, b
      <4>2. /\ b \in Seq(S) /\ Len(b) = IF x <= y THEN y - x + 1 ELSE 0
            /\ \A i \in 1 .. y - x + 1 : b[i] = r[x + i - 1]
        BY <4>1, SubSeqProperties
      <4> QED BY <1>1, <4>2 DEF x, y
    <3>5. \A i \in 1 .. n : b[i] = r[m + 1 + i - 1]
      BY <3>2, <3>4
    <3>6. Len(b) = n
      BY <3>2, <3>4
    <3> HIDE DEF b
    <3>7. \A i \in 1 .. n : b[i] = r[m + i]
      BY <3>1, <3>5
    <3> QED BY <3>4, <3>6, <3>7
  <2>2. \A i \in 1 .. n : m + i \in 1 .. m + n /\ ~ m + i <= m /\ m + i - m = i
    BY <1>1
  <2>3. \A i \in 1 .. n : b[i] = t[i]
    <3> HIDE DEF b
    <3> TAKE i \in 1 .. n
    <3>1. b[i] = r[m + i] /\ m + i \in 1 .. m + n /\ ~ m + i <= m /\ m + i - m = i
      BY <2>1, <2>2
    <3>2. r[m + i] = t[m + i - m]
      <4> DEFINE j == m + i
      <4>1. j \in 1 .. m + n /\ ~ j <= m
        BY <3>1
      <4> HIDE DEF j
      <4>2. r[j] = t[j - m]
        BY <1>2, <4>1
      <4> QED BY <1>1, <4>2 DEF j
    <3> QED BY <3>1, <3>2
  <2> HIDE DEF b
  <2> QED BY <1>1, <2>1, <2>3, SeqEqual DEF n
<1> QED BY <1>2, <1>3, <1>4 DEF r, m, n, a, b

LEMMA IntoBucketIs ==
    ASSUME NEW bucket, Ascends(bucket), NEW p \in Nat, p \notin ToSet(bucket)
    PROVE  Ascends(IntoBucket(bucket, p)) /\ ToSet(IntoBucket(bucket, p)) = ToSet(bucket) \cup {p}
<1> DEFINE low == {q \in Nat : q < p}
           high == {q \in Nat : q > p}
           before == Only(bucket, low)
           behind == Only(bucket, high)
           keep == [i \in DOMAIN bucket |-> bucket[i] < p]
           mid == before \o <<p>>
<1>1. /\ IsSeq(bucket) /\ ToSet(bucket) \subseteq Nat /\ bucket \in Seq(ToSet(bucket))
      /\ DOMAIN bucket = 1 .. Len(bucket)
      /\ \A i \in 1 .. Len(bucket) : bucket[i] \in ToSet(bucket)
  BY SeqDomain DEF Ascends, IsSeq
<1>2. Where(bucket, LAMBDA q : q < p) = Kept(bucket, keep)
  BY DEF Where
<1>3. Kept(bucket, keep) = before
  <2>1. \A i \in 1 .. Len(bucket) : keep[i] = (bucket[i] \in low)
    BY <1>1
  <2> HIDE DEF keep, low
  <2> QED BY <1>1, <2>1, OnlyIs
<1>4. /\ Ascends(before) /\ ToSet(before) = ToSet(bucket) \cap low
      /\ Ascends(behind) /\ ToSet(behind) = ToSet(bucket) \cap high
  BY AscendsOnly
<1>5. before \o behind = bucket
  <2>1. \A x \in ToSet(before), y \in ToSet(behind) : x < y
    BY <1>4
  <2>2. ToSet(bucket) = ToSet(before) \cup ToSet(behind)
    BY <1>1, <1>4
  <2> HIDE DEF before, behind
  <2>3. Ascends(before \o behind) /\ ToSet(before \o behind) = ToSet(before) \cup ToSet(behind)
    BY <1>4, <2>1, AscendsConcat
  <2> QED BY <2>2, <2>3, AscendsEqual
<1>6. IntoBucket(bucket, p) = SubSeq(bucket, 1, Len(before) + 1 - 1) \o <<p>>
                                \o SubSeq(bucket, Len(before) + 1, Len(bucket))
  <2>1. IntoBucket(bucket, p) = InsertAt(bucket, Len(before) + 1, p)
    <3> HIDE DEF before, keep
    <3>1. Len(Where(bucket, LAMBDA q : q < p)) = Len(before)
      BY ONLY <1>2, <1>3
    <3> QED BY ONLY <3>1 DEF IntoBucket
  <2> DEFINE at == Len(before) + 1
  <2>2. InsertAt(bucket, at, p) = SubSeq(bucket, 1, at - 1) \o <<p>> \o SubSeq(bucket, at, Len(bucket))
    <3> HIDE DEF at
    <3> QED BY DEF InsertAt
  <2>3. InsertAt(bucket, at, p) = IntoBucket(bucket, p) /\ at - 1 = Len(before) + 1 - 1
    BY <2>1
  <2> HIDE DEF before
  <2> QED BY <2>2, <2>3
<1> HIDE DEF before, behind, keep
<1>7. IsSeq(before) /\ IsSeq(behind) /\ Len(before) \in Nat
  BY <1>4, SeqDomain DEF Ascends
<1>8. SubSeq(bucket, 1, Len(before)) = before /\ SubSeq(bucket, Len(before) + 1, Len(bucket)) = behind
  BY <1>5, <1>7, SplitAt
<1>9. Len(before) + 1 - 1 = Len(before)
  BY <1>7
<1>10. IntoBucket(bucket, p) = mid \o behind
  BY <1>6, <1>8, <1>9
<1>11. mid = Append(before, p)
  <2>1. before \in Seq(Nat)
    BY <1>7, SeqMonotonic, <1>1, <1>4 DEF IsSeq
  <2> QED BY <2>1, AppendIsConcat
<1>12. Ascends(mid) /\ ToSet(mid) = ToSet(before) \cup {p}
  BY <1>4, <1>7, <1>11, AscendsAppend, SeqAppend
<1>13. \A x \in ToSet(mid), y \in ToSet(behind) : x < y
  BY <1>4, <1>12
<1> HIDE DEF mid
<1>14. Ascends(mid \o behind) /\ ToSet(mid \o behind) = ToSet(mid) \cup ToSet(behind)
  BY <1>4, <1>12, <1>13, AscendsConcat
<1>15. ToSet(bucket) = ToSet(before) \cup ToSet(behind)
  BY <1>1, <1>4
<1> QED BY <1>10, <1>12, <1>14, <1>15

LEMMA LeavePosts ==
    ASSUME NEW values, DOMAIN values \subseteq Nat, NEW buckets, Posted(buckets, values),
           NEW p \in DOMAIN values
    PROVE  Posted(Leave(buckets, values[p], p), [values EXCEPT ![p] = Null])
<1> DEFINE value == values[p]
           k == Key(value)
           keep == [i \in DOMAIN buckets[k] |-> buckets[k][i] # p]
           rest == Where(buckets[k], LAMBDA q : q # p)
           new == [values EXCEPT ![p] = Null]
           result == Leave(buckets, value, p)
<1>1. DOMAIN new = DOMAIN values /\ new[p] = Null /\ \A q \in DOMAIN values : q # p => new[q] = values[q]
  OBVIOUS
<1>2. CASE value = Null
  <2>1. result = buckets
    BY <1>2 DEF Leave
  <2> HIDE DEF new, result
  <2>2. \A q \in DOMAIN values : Key(values[q]) = Key(new[q]) /\ (values[q] = Null <=> new[q] = Null)
    BY <1>1, <1>2
  <2>3. Posted(buckets, new)
    BY <1>1, <2>2, PostedSame
  <2> QED BY <2>1, <2>3 DEF new, result
<1>3. CASE value # Null
  <2>1. p \in Members(values, k) /\ k \in DOMAIN buckets
    BY <1>3 DEF Members, Posted
  <2>2. Ascends(buckets[k]) /\ ToSet(buckets[k]) = Members(values, k)
    BY <2>1 DEF Posted
  <2>3. rest = Kept(buckets[k], keep)
    BY DEF Where
  <2>4. Kept(buckets[k], keep) = Only(buckets[k], Nat \ {p})
    <3> DEFINE b == buckets[k]
    <3>1. Ascends(b)
      BY <2>2
    <3>2. keep = [i \in DOMAIN b |-> b[i] # p]
      OBVIOUS
    <3> HIDE DEF b, keep
    <3>3. b \in Seq(ToSet(b)) /\ DOMAIN b = 1 .. Len(b) /\ \A i \in 1 .. Len(b) : b[i] \in Nat
      BY <3>1, AscendsPlaces DEF Ascends, IsSeq
    <3>4. \A i \in 1 .. Len(b) : keep[i] = (b[i] \in Nat \ {p})
      BY <3>2, <3>3
    <3>5. Kept(b, keep) = Only(b, Nat \ {p})
      BY <3>3, <3>4, OnlyIs
    <3> QED BY <3>5 DEF b
  <2>5. Ascends(rest) /\ ToSet(rest) = Members(values, k) \ {p}
    <3> DEFINE b == buckets[k]
               r == Only(b, Nat \ {p})
    <3>1. Ascends(b) /\ ToSet(b) = Members(values, k)
      BY <2>2
    <3> HIDE DEF b
    <3>2. Ascends(r) /\ ToSet(r) = ToSet(b) \cap (Nat \ {p})
      BY <3>1, AscendsOnly
    <3> HIDE DEF r
    <3>3. ToSet(r) = Members(values, k) \ {p}
      BY <3>1, <3>2 DEF Members
    <3> QED BY <2>3, <2>4, <3>2, <3>3 DEF r, b
  <2>6. rest = <<>> <=> Members(values, k) \ {p} = {}
    <3>1. rest = <<>> => ToSet(rest) = {}
      BY SeqNone
    <3>2. ToSet(rest) = {} => rest = <<>>
      BY <2>5, AscendsNone, SeqNone, AscendsEqual
    <3> QED BY <2>5, <3>1, <3>2
  <2>7. /\ Members(new, k) = Members(values, k) \ {p}
        /\ \A j : j # k => Members(new, j) = Members(values, j)
    <3> HIDE DEF new
    <3> QED BY <1>1 DEF Members
  <2>8. result = IF rest = <<>> THEN Restrict(buckets, DOMAIN buckets \ {k})
                 ELSE [buckets EXCEPT ![k] = rest]
    BY <1>3 DEF Leave
  <2> HIDE DEF rest, result, new, k, keep
  <2>9. CASE rest = <<>>
    <3>1. result = [j \in DOMAIN buckets \ {k} |-> buckets[j]]
      BY <2>8, <2>9 DEF Restrict
    <3>2. DOMAIN result = DOMAIN buckets \ {k} /\ \A j \in DOMAIN result : result[j] = buckets[j]
      BY <3>1
    <3>3. IsMap(result)
      BY <3>1, <3>2 DEF IsMap
    <3>4. \A j : j \in DOMAIN result <=> Members(new, j) # {}
      BY <2>6, <2>7, <2>9, <3>2 DEF Posted
    <3>5. \A j \in DOMAIN result : Ascends(result[j]) /\ ToSet(result[j]) = Members(new, j)
      BY <2>7, <3>2 DEF Posted
    <3> QED BY <3>3, <3>4, <3>5 DEF Posted, result, new
  <2>10. CASE rest # <<>>
    <3>1. /\ result = [buckets EXCEPT ![k] = rest] /\ DOMAIN result = DOMAIN buckets
          /\ result[k] = rest /\ \A j \in DOMAIN result : j # k => result[j] = buckets[j]
      BY <2>1, <2>8, <2>10
    <3>2. IsMap(result)
      BY <3>1 DEF IsMap
    <3>3. \A j : j \in DOMAIN result <=> Members(new, j) # {}
      BY <2>1, <2>6, <2>7, <2>10, <3>1 DEF Posted
    <3>4. \A j \in DOMAIN result : Ascends(result[j]) /\ ToSet(result[j]) = Members(new, j)
      BY <2>5, <2>7, <3>1 DEF Posted
    <3> QED BY <3>2, <3>3, <3>4 DEF Posted, result, new
  <2> QED BY <2>9, <2>10
<1> QED BY <1>2, <1>3

LEMMA EnterPosts ==
    ASSUME NEW values, DOMAIN values \subseteq Nat, NEW buckets, Posted(buckets, values),
           NEW p \in DOMAIN values, values[p] = Null, NEW value
    PROVE  Posted(Enter(buckets, value, p), [values EXCEPT ![p] = value])
<1> DEFINE k == Key(value)
           old == IF k \in DOMAIN buckets THEN buckets[k] ELSE <<>>
           new == [values EXCEPT ![p] = value]
           result == Enter(buckets, value, p)
<1>1. DOMAIN new = DOMAIN values /\ new[p] = value /\ \A q \in DOMAIN values : q # p => new[q] = values[q]
  OBVIOUS
<1>2. CASE value = Null
  <2>1. result = buckets
    BY <1>2 DEF Enter
  <2> HIDE DEF new, result
  <2>2. \A q \in DOMAIN values : Key(values[q]) = Key(new[q]) /\ (values[q] = Null <=> new[q] = Null)
    BY <1>1, <1>2
  <2>3. Posted(buckets, new)
    BY <1>1, <2>2, PostedSame
  <2> QED BY <2>1, <2>3 DEF new, result
<1>3. CASE value # Null
  <2>1. Ascends(old) /\ ToSet(old) = Members(values, k)
    <3>1. CASE k \in DOMAIN buckets
      BY <3>1 DEF Posted
    <3>2. CASE k \notin DOMAIN buckets
      <4>1. Members(values, k) = {} /\ old = <<>>
        BY <3>2 DEF Posted
      <4> QED BY <4>1, AscendsNone, SeqNone
    <3> QED BY <3>1, <3>2
  <2>2. p \in Nat /\ p \notin Members(values, k)
    BY DEF Members
  <2>3. result = Put(buckets, k, IntoBucket(old, p))
    BY <1>3 DEF Enter
  <2>4. /\ Members(new, k) = Members(values, k) \cup {p}
        /\ \A j : j # k => Members(new, j) = Members(values, j)
    <3>1. \A j : \A q \in DOMAIN values : q \in Members(new, j) <=>
             IF q = p THEN j = k ELSE q \in Members(values, j)
      <4> HIDE DEF new
      <4> QED BY <1>1, <1>3 DEF Members
    <3>2. \A j : Members(new, j) \subseteq DOMAIN values /\ Members(values, j) \subseteq DOMAIN values
      BY <1>1 DEF Members
    <3>3. \A j : p \notin Members(values, j)
      BY DEF Members
    <3> HIDE DEF new, k
    <3> QED BY <3>1, <3>2, <3>3
  <2> HIDE DEF old, result, new, k
  <2>5. Ascends(IntoBucket(old, p)) /\ ToSet(IntoBucket(old, p)) = Members(new, k)
    BY <2>1, <2>2, <2>4, IntoBucketIs
  <2>6. /\ DOMAIN result = DOMAIN buckets \cup {k} /\ result[k] = IntoBucket(old, p)
        /\ \A j \in DOMAIN result : j # k => j \in DOMAIN buckets /\ result[j] = buckets[j]
    BY <2>3 DEF Put
  <2>7. IsMap(result)
    BY <2>3 DEF IsMap, Put
  <2>8. \A j : j \in DOMAIN result <=> Members(new, j) # {}
    BY <2>4, <2>6 DEF Posted
  <2>9. \A j \in DOMAIN result : Ascends(result[j]) /\ ToSet(result[j]) = Members(new, j)
    BY <2>4, <2>5, <2>6 DEF Posted
  <2> QED BY <2>7, <2>8, <2>9 DEF Posted, result, new
<1> QED BY <1>2, <1>3

LEMMA ColumnIs ==
    ASSUME NEW rows, NEW c
    PROVE  /\ DOMAIN ColumnOf(rows, c) = DOMAIN rows
           /\ \A p \in DOMAIN rows : ColumnOf(rows, c)[p] = rows[p][c]
           /\ \A k : Members(ColumnOf(rows, c), k) = {p \in Keyed(rows, c) : Key(rows[p][c]) = k}
BY DEF ColumnOf, Members, Keyed

\* Buckets follow rows that are added.
LEMMA ExtendPosts ==
    ASSUME NEW rows, NEW old, Continues(rows, old), NEW c, NEW buckets,
           Posted(buckets, ColumnOf(old, c))
    PROVE  Posted(ExtendBuckets(buckets, c, rows, Len(old)), ColumnOf(rows, c))
<1> DEFINE added == {p \in Len(old) + 1 .. Len(rows) : rows[p][c] # Null}
           Mine(k) == {p \in added : Key(rows[p][c]) = k}
           First(k) == IF k \in DOMAIN buckets THEN buckets[k] ELSE <<>>
           new == ExtendBuckets(buckets, c, rows, Len(old))
           Old(k) == Members(ColumnOf(old, c), k)
           All(k) == Members(ColumnOf(rows, c), k)
<1>1. /\ DOMAIN new = DOMAIN buckets \cup {Key(rows[p][c]) : p \in added}
      /\ \A k \in DOMAIN new : new[k] = First(k) \o Positions(Mine(k))
      /\ IsMap(new)
  BY DEF ExtendBuckets, IsMap
<1>2. /\ Len(old) \in Nat /\ Len(rows) \in Nat
      /\ \A p : p \in Keyed(old, c) <=> p \in Keyed(rows, c) /\ p \in 1 .. Len(old)
      /\ \A p \in Keyed(old, c) : rows[p] = old[p]
      /\ \A p \in Keyed(rows, c) : p \in Keyed(old, c) \/ p \in added
  BY KeyedContinue
<1>3. added \subseteq Keyed(rows, c) /\ \A p \in added : p \notin Keyed(old, c)
  <2>1. \A p \in added : p \in 1 .. Len(rows) /\ p \notin 1 .. Len(old)
    BY <1>2
  <2>2. DOMAIN rows = 1 .. Len(rows)
    BY SeqDomain DEF Continues
  <2> QED BY <1>2, <2>1, <2>2 DEF Keyed
<1>4. \A k : Mine(k) \in SUBSET (1 .. Len(rows))
  BY <1>2
<1>5. \A k : All(k) = Old(k) \cup Mine(k)
  <2> HIDE DEF added
  <2> QED BY <1>2, <1>3, ColumnIs
<1>6. \A k : \A x \in Old(k), y \in Mine(k) : x < y
  <2>1. \A k : \A x \in Old(k) : x \in 1 .. Len(old)
    BY <1>2, ColumnIs
  <2> QED BY <1>2, <2>1
<1>7. \A k : Ascends(First(k)) /\ ToSet(First(k)) = Old(k)
  <2> TAKE k
  <2>1. CASE k \in DOMAIN buckets
    BY <2>1 DEF Posted
  <2>2. CASE k \notin DOMAIN buckets
    <3>1. Old(k) = {} /\ First(k) = <<>>
      BY <2>2 DEF Posted
    <3> QED BY <3>1, AscendsNone, SeqNone
  <2> QED BY <2>1, <2>2
<1>8. \A k : Mine(k) # {} <=> k \in {Key(rows[p][c]) : p \in added}
  BY DEF added
<1> HIDE DEF added, Mine, First, new, Old, All
<1>9. \A k \in DOMAIN new : Ascends(new[k]) /\ ToSet(new[k]) = All(k)
  <2> TAKE k \in DOMAIN new
  <2> DEFINE a == First(k)
             b == Positions(Mine(k))
  <2>1. Ascends(a) /\ ToSet(a) = Old(k)
    BY <1>7
  <2>2. Ascends(b) /\ ToSet(b) = Mine(k)
    BY <1>2, <1>4, PositionsAre
  <2>3. new[k] = a \o b
    BY <1>1
  <2> HIDE DEF a, b
  <2>4. \A x \in ToSet(a), y \in ToSet(b) : x < y
    BY <1>6, <2>1, <2>2
  <2>5. Ascends(a \o b) /\ ToSet(a \o b) = ToSet(a) \cup ToSet(b)
    BY <2>1, <2>2, <2>4, AscendsConcat
  <2> QED BY <1>5, <2>1, <2>2, <2>3, <2>5
<1>10. \A k : k \in DOMAIN new <=> All(k) # {}
  <2>1. \A k : k \in DOMAIN buckets <=> Old(k) # {}
    BY DEF Posted, Old
  <2> QED BY <1>1, <1>5, <1>8, <2>1
<1> QED BY <1>1, <1>9, <1>10 DEF Posted, All, new

LEMMA RebuildPosts ==
    ASSUME NEW rows, IsSeq(rows), NEW c
    PROVE  Posted(ExtendBuckets(<<>>, c, rows, 0), ColumnOf(rows, c))
<1>1. IsSeq(<<>>) /\ Len(<<>>) = 0 /\ Len(rows) \in Nat
  BY SeqNone, SeqDomain
<1>2. Continues(rows, <<>>)
  BY <1>1 DEF Continues
<1>3. Posted(<<>>, ColumnOf(<<>>, c))
  BY DEF Posted, IsMap, Members, ColumnOf
<1> QED BY <1>1, <1>2, <1>3, ExtendPosts

\* The column when the first of the moved rows have their new values.
Halfway(rows, c, updates, order, i) ==
    [p \in DOMAIN rows |-> IF \E j \in 1 .. i : order[j] = p THEN updates[p][c] ELSE rows[p][c]]

LEMMA HalfwayNext ==
    ASSUME NEW rows, NEW c, NEW updates, NEW order, Ascends(order), NEW i \in Nat, i + 1 <= Len(order),
           order[i + 1] \in DOMAIN rows
    PROVE  LET p == order[i + 1]
               old == Halfway(rows, c, updates, order, i)
           IN  /\ DOMAIN old = DOMAIN rows /\ old[p] = rows[p][c]
               /\ Halfway(rows, c, updates, order, i + 1) =
                    [[old EXCEPT ![p] = Null] EXCEPT ![p] = updates[p][c]]
<1> DEFINE p == order[i + 1]
           old == Halfway(rows, c, updates, order, i)
           new == Halfway(rows, c, updates, order, i + 1)
           k == i + 1
<1>1. /\ Len(order) \in Nat
      /\ \A j, l \in 1 .. Len(order) : order[j] = order[l] => j = l
  BY AscendsPlaces
<1>2. k \in 1 .. Len(order) /\ k \notin 1 .. i /\ (\A j \in 1 .. i : j \in 1 .. Len(order) /\ j # k)
      /\ 1 .. k = (1 .. i) \cup {k}
  BY <1>1
<1>3. \A j \in 1 .. i : order[j] # order[k]
  <2> HIDE DEF k
  <2> QED BY <1>1, <1>2
<1>4. DOMAIN old = DOMAIN rows /\ old[p] = rows[p][c]
  BY <1>3 DEF Halfway
<1>5. \A q \in DOMAIN rows : new[q] = IF q = p THEN updates[p][c] ELSE old[q]
  <2>1. \A q : (\E j \in 1 .. k : order[j] = q) <=> (q = order[k] \/ \E j \in 1 .. i : order[j] = q)
    <3> HIDE DEF k
    <3> QED BY <1>2
  <2> QED BY <2>1 DEF Halfway
<1>6. new = [q \in DOMAIN rows |-> new[q]] /\ old = [q \in DOMAIN rows |-> old[q]]
  BY DEF Halfway
<1> HIDE DEF old, new, p
<1>7. new = [[old EXCEPT ![p] = Null] EXCEPT ![p] = updates[p][c]]
  BY <1>4, <1>5, <1>6
<1> QED BY <1>4, <1>7 DEF old, new, p

\* Buckets follow rows that change in place, one after the other.
LEMMA MovePosts ==
    ASSUME NEW rows, IsSeq(rows), NEW c, NEW updates, DOMAIN updates \subseteq DOMAIN rows,
           NEW buckets, Posted(buckets, ColumnOf(rows, c))
    PROVE  Posted(MoveBuckets(buckets, c, rows, updates), ColumnOf(Replaced(rows, updates), c))
<1> DEFINE moved == Moved(rows, updates, c)
           order == Positions(moved)
           n == Len(order)
           o == [kind |-> "move", rows |-> rows, c |-> c, updates |-> updates]
           Half(i) == Halfway(rows, c, updates, order, i)
<1>1. Len(rows) \in Nat /\ DOMAIN rows = 1 .. Len(rows)
  BY SeqDomain
<1>2. moved \subseteq DOMAIN updates /\ moved \in SUBSET (1 .. Len(rows))
  BY <1>1 DEF Moved
<1>3. Ascends(order) /\ ToSet(order) = moved
  BY <1>1, <1>2, PositionsAre
<1>4. PICK f : Runs(o, buckets, order, f, n) /\ MoveBuckets(buckets, c, rows, updates) = f[n]
  BY <1>3, MoveRuns DEF Ascends
<1>5. f[0] = buckets
      /\ \A i \in 1 .. n : f[i] = Enter(Leave(f[i - 1], rows[order[i]][c], order[i]),
                                        updates[order[i]][c], order[i])
  <2>1. o.kind = "move" /\ o.rows = rows /\ o.c = c /\ o.updates = updates
    OBVIOUS
  <2> HIDE DEF o
  <2>2. \A v, x : Step(o, v, x) = Enter(Leave(v, rows[x][c], x), updates[x][c], x)
    BY ONLY <2>1 DEF Step
  <2> QED BY <1>4, <2>2 DEF Runs
<1> HIDE DEF moved, order, o
<1>6. /\ n \in Nat /\ \A i \in 1 .. n : order[i] \in DOMAIN rows /\ order[i] \in moved
      /\ \A p \in moved : \E i \in 1 .. n : order[i] = p
  BY <1>1, <1>2, <1>3, AscendsPlaces
<1> DEFINE N == {i \in Nat : i <= n => Posted(f[i], Half(i))}
<1>7. 0 \in N
  <2>1. Half(0) = ColumnOf(rows, c)
    BY DEF Halfway, ColumnOf
  <2> QED BY <1>5, <2>1
<1>8. ASSUME NEW i \in N PROVE i + 1 \in N
  <2> SUFFICES ASSUME i + 1 <= n PROVE Posted(f[i + 1], Half(i + 1))
    OBVIOUS
  <2> DEFINE p == order[i + 1]
             old == Half(i)
             mid == [old EXCEPT ![p] = Null]
  <2>1. i + 1 \in 1 .. n /\ i + 1 - 1 = i /\ i <= n /\ i \in Nat
    BY <1>6
  <2>2. Posted(f[i], old) /\ p \in DOMAIN rows
    BY <1>6, <2>1
  <2>3. /\ DOMAIN old = DOMAIN rows /\ old[p] = rows[p][c]
        /\ Half(i + 1) = [mid EXCEPT ![p] = updates[p][c]]
    BY <1>3, <2>1, <2>2, HalfwayNext
  <2>4. f[i + 1] = Enter(Leave(f[i], rows[p][c], p), updates[p][c], p)
    <3>1. f[i + 1] = Enter(Leave(f[i + 1 - 1], rows[order[i + 1]][c], order[i + 1]),
                           updates[order[i + 1]][c], order[i + 1])
      BY ONLY <1>5, <2>1
    <3> QED BY <2>1, <3>1
  <2> DEFINE bs == f[i]
             left == Leave(bs, rows[p][c], p)
  <2> HIDE DEF p, old
  <2>5. DOMAIN old \subseteq Nat /\ p \in DOMAIN old
    BY <1>1, <2>2, <2>3
  <2>6. Posted(left, mid)
    <3> HIDE DEF bs
    <3>1. Posted(bs, old)
      BY <2>2 DEF bs
    <3>2. Posted(Leave(bs, old[p], p), [old EXCEPT ![p] = Null])
      BY <2>5, <3>1, LeavePosts
    <3> QED BY <2>3, <3>2
  <2>7. DOMAIN mid = DOMAIN old /\ mid[p] = Null
    BY <2>5
  <2> HIDE DEF mid, left
  <2>8. Posted(Enter(left, updates[p][c], p), [mid EXCEPT ![p] = updates[p][c]])
    BY <2>5, <2>6, <2>7, EnterPosts
  <2> QED BY <2>3, <2>4, <2>8 DEF left
<1> HIDE DEF N
<1>9. N = Nat
  <2>1. N \in SUBSET Nat
    BY DEF N
  <2> QED BY <1>7, <1>8, <2>1, NaturalSets
<1>10. Posted(f[n], Half(n))
  <2>1. n \in N
    BY <1>6, <1>9
  <2> QED BY <1>6, <2>1 DEF N
<1> DEFINE last == Half(n)
           new == ColumnOf(Replaced(rows, updates), c)
<1>11. DOMAIN last = DOMAIN rows /\ DOMAIN new = DOMAIN rows
  BY DEF Halfway, ColumnOf, Replaced
<1>12. \A p \in DOMAIN rows : last[p] = IF p \in moved THEN updates[p][c] ELSE rows[p][c]
  BY <1>6 DEF Halfway
<1>13. \A p \in DOMAIN rows : new[p] = IF p \in DOMAIN updates THEN updates[p][c] ELSE rows[p][c]
  BY DEF ColumnOf, Replaced
<1>14. \A p \in DOMAIN updates \ moved : Equal(rows[p][c], updates[p][c])
  BY DEF moved, Moved
<1> HIDE DEF last, new
<1>15. \A p \in DOMAIN last : Key(last[p]) = Key(new[p]) /\ (last[p] = Null <=> new[p] = Null)
  BY <1>2, <1>11, <1>12, <1>13, <1>14, EqualKeepsKey
<1>16. Posted(f[n], new)
  BY <1>10, <1>11, <1>15, PostedSame DEF last
<1> QED BY <1>4, <1>16 DEF new

\* Buckets of the rows that stay, at their new places.
LEMMA RemapPlaces ==
    ASSUME NEW rows, IsSeq(rows), NEW deleted \in SUBSET DOMAIN rows,
           NEW p \in DOMAIN rows \ deleted
    PROVE  /\ RemapRow(p, deleted) \in 1 .. Len(Stay(rows, deleted))
           /\ Stay(rows, deleted)[RemapRow(p, deleted)] = p
<1>1. PICK i \in 1 .. Len(Stay(rows, deleted)) : Stay(rows, deleted)[i] = p
  BY StayAre
<1>2. RemapRow(Stay(rows, deleted)[i], deleted) = i
  BY RemapIs
<1> QED BY <1>1, <1>2

LEMMA RemapBucket ==
    ASSUME NEW rows, IsSeq(rows), NEW deleted \in SUBSET DOMAIN rows,
           NEW r, Ascends(r), ToSet(r) \subseteq DOMAIN rows \ deleted,
           NEW new, new = [i \in DOMAIN r |-> RemapRow(r[i], deleted)]
    PROVE  /\ Ascends(new)
           /\ \A i : i \in ToSet(new) <=> /\ i \in 1 .. Len(Stay(rows, deleted))
                                         /\ Stay(rows, deleted)[i] \in ToSet(r)
<1> DEFINE kept == Stay(rows, deleted)
           m == Len(r)
           n == Len(kept)
<1>1. /\ Ascends(kept) /\ ToSet(kept) = DOMAIN rows \ deleted /\ n \in Nat /\ DOMAIN kept = 1 .. n
      /\ \A i, j \in 1 .. n : kept[i] = kept[j] => i = j
      /\ \A i \in 1 .. n : kept[i] \in Nat
  BY StayAre, AscendsPlaces
<1>2. /\ m \in Nat /\ DOMAIN r = 1 .. m /\ \A i \in 1 .. m : r[i] \in ToSet(r) /\ r[i] \in Nat
      /\ \A x \in ToSet(r) : \E i \in 1 .. m : r[i] = x
  BY AscendsPlaces
<1>3. \A i \in 1 .. m : new[i] \in 1 .. n /\ kept[new[i]] = r[i]
  BY <1>2, RemapPlaces
<1>4. DOMAIN new = 1 .. m /\ new = [i \in 1 .. m |-> new[i]]
  BY <1>2
<1> HIDE DEF kept, m, n
<1>5. IsSeq(new) /\ Len(new) = m
  BY <1>2, <1>4, SeqIsFunction
<1>6. ASSUME NEW i \in 1 .. m, NEW j \in 1 .. m, i < j PROVE new[i] < new[j]
  <2>1. r[i] < r[j] /\ r[i] \in Nat /\ r[j] \in Nat
    BY <1>2, <1>6 DEF Ascends
  <2>2. new[i] \in 1 .. n /\ new[j] \in 1 .. n /\ kept[new[i]] = r[i] /\ kept[new[j]] = r[j]
    BY <1>3
  <2>3. new[j] < new[i] => kept[new[j]] < kept[new[i]]
    BY <1>1, <2>2 DEF Ascends
  <2>4. new[i] # new[j]
    BY <2>1, <2>2
  <2>5. ~ new[j] < new[i]
    BY <2>1, <2>2, <2>3
  <2>6. new[i] \in Nat /\ new[j] \in Nat
    BY <1>1, <2>2
  <2> QED BY <2>4, <2>5, <2>6
<1>7. ToSet(new) = {i \in 1 .. n : kept[i] \in ToSet(r)}
  <2>1. \A x \in ToSet(new) : x \in 1 .. n /\ kept[x] \in ToSet(r)
    BY <1>2, <1>3, <1>4 DEF ToSet
  <2>2. ASSUME NEW x \in 1 .. n, kept[x] \in ToSet(r) PROVE x \in ToSet(new)
    <3>1. PICK i \in 1 .. m : r[i] = kept[x]
      BY <1>2, <2>2
    <3>2. new[i] = x
      BY <1>1, <1>3, <3>1
    <3> QED BY <1>4, <3>2 DEF ToSet
  <2> QED BY <2>1, <2>2
<1>8. ToSet(new) \subseteq Nat
  BY <1>1, <1>7
<1>9. Ascends(new)
  BY <1>4, <1>5, <1>6, <1>8 DEF Ascends
<1> QED BY <1>7, <1>9 DEF kept, n

LEMMA RemapPosts ==
    ASSUME NEW rows, IsSeq(rows), NEW deleted \in SUBSET DOMAIN rows, NEW c,
           NEW buckets, Posted(buckets, ColumnOf(rows, c))
    PROVE  Posted(RemapBuckets(buckets, deleted), ColumnOf(Retained(rows, deleted), c))
<1> DEFINE Rest(b) == Where(b, LAMBDA p : p \notin deleted)
           Moves(r) == [i \in DOMAIN r |-> RemapRow(r[i], deleted)]
           kept == Stay(rows, deleted)
           new == Retained(rows, deleted)
           result == RemapBuckets(buckets, deleted)
           Old(k) == Members(ColumnOf(rows, c), k)
           New(k) == Members(ColumnOf(new, c), k)
           n == Len(kept)
<1>1. /\ DOMAIN result = {j \in DOMAIN buckets : Rest(buckets[j]) # <<>>}
      /\ \A k \in DOMAIN result : result[k] = Moves(Rest(buckets[k]))
      /\ IsMap(result)
  BY DEF RemapBuckets, IsMap
<1>2. \A k : Old(k) \subseteq DOMAIN rows
  BY ColumnIs DEF Keyed
<1>3. ASSUME NEW k \in DOMAIN buckets
      PROVE  Ascends(Rest(buckets[k])) /\ ToSet(Rest(buckets[k])) = Old(k) \ deleted
  <2> DEFINE b == buckets[k]
             keep == [i \in DOMAIN b |-> b[i] \notin deleted]
  <2>1. Rest(b) = Kept(b, keep)
    BY DEF Where
  <2>2. Ascends(b) /\ ToSet(b) = Old(k)
    BY DEF Posted
  <2>3. keep = [i \in DOMAIN b |-> b[i] \notin deleted]
    OBVIOUS
  <2> HIDE DEF b, keep, Old
  <2>4. b \in Seq(ToSet(b)) /\ DOMAIN b = 1 .. Len(b) /\ \A i \in 1 .. Len(b) : b[i] \in Nat
    BY <2>2, AscendsPlaces DEF Ascends, IsSeq
  <2>5. \A i \in 1 .. Len(b) : keep[i] = (b[i] \in Nat \ deleted)
    BY <2>3, <2>4
  <2>6. Kept(b, keep) = Only(b, Nat \ deleted)
    BY <2>4, <2>5, OnlyIs
  <2> DEFINE r == Only(b, Nat \ deleted)
  <2>7. Ascends(r) /\ ToSet(r) = ToSet(b) \cap (Nat \ deleted)
    BY <2>2, AscendsOnly
  <2> HIDE DEF r
  <2>8. ToSet(r) = Old(k) \ deleted
    BY <2>2, <2>7 DEF Ascends
  <2> QED BY <2>1, <2>6, <2>7, <2>8 DEF r, b
<1>4. /\ IsSeq(new) /\ Len(new) = n /\ n \in Nat /\ DOMAIN new = 1 .. n
      /\ \A i \in 1 .. n : kept[i] \in DOMAIN rows \ deleted /\ new[i] = rows[kept[i]]
      /\ \A p \in DOMAIN rows \ deleted : \E i \in 1 .. n : kept[i] = p
  BY StayAre, SeqDomain
<1> HIDE DEF kept, new, result, n, Rest
<1>5. \A k : New(k) = {i \in 1 .. n : kept[i] \in Old(k) \ deleted}
  <2> TAKE k
  <2>1. New(k) = {i \in Keyed(new, c) : Key(new[i][c]) = k}
        /\ Old(k) = {p \in Keyed(rows, c) : Key(rows[p][c]) = k}
    BY ColumnIs
  <2> HIDE DEF New, Old
  <2> QED BY <1>4, <2>1 DEF Keyed
<1> HIDE DEF New, Old
<1>6. ASSUME NEW k \in DOMAIN result PROVE Ascends(result[k]) /\ ToSet(result[k]) = New(k)
  <2> DEFINE r == Rest(buckets[k])
  <2>1. k \in DOMAIN buckets /\ result[k] = Moves(r)
    BY <1>1
  <2>2. Ascends(r) /\ ToSet(r) = Old(k) \ deleted
    BY <1>3, <2>1
  <2>3. ToSet(r) \subseteq DOMAIN rows \ deleted
    BY <1>2, <2>2 DEF Old
  <2> HIDE DEF r
  <2> DEFINE moved == Moves(r)
  <2>4. moved = [i \in DOMAIN r |-> RemapRow(r[i], deleted)]
    OBVIOUS
  <2> HIDE DEF moved
  <2>8. /\ Ascends(moved)
        /\ \A i : i \in ToSet(moved) <=> /\ i \in 1 .. Len(Stay(rows, deleted))
                                          /\ Stay(rows, deleted)[i] \in ToSet(r)
    <3>1. IsSeq(rows) /\ deleted \in SUBSET DOMAIN rows /\ Ascends(r)
      BY <2>2
    <3> QED BY ONLY <3>1, <2>3, <2>4, RemapBucket, SMTT(20)
  <2>5. /\ Ascends(moved)
        /\ \A i : i \in ToSet(moved) <=> i \in 1 .. n /\ kept[i] \in ToSet(r)
    BY <2>8 DEF n, kept
  <2>6. ToSet(moved) = {i \in 1 .. n : kept[i] \in ToSet(r)}
    BY <2>5
  <2> QED BY <1>5, <2>1, <2>2, <2>5, <2>6 DEF moved
<1>7. \A k : k \in DOMAIN result <=> New(k) # {}
  <2> TAKE k
  <2>1. New(k) # {} <=> Old(k) \ deleted # {}
    BY <1>2, <1>4, <1>5 DEF Old
  <2>2. k \in DOMAIN buckets <=> Old(k) # {}
    BY DEF Posted, Old
  <2>3. k \in DOMAIN buckets => (Rest(buckets[k]) # <<>> <=> Old(k) \ deleted # {})
    <3> SUFFICES ASSUME k \in DOMAIN buckets PROVE Rest(buckets[k]) # <<>> <=> Old(k) \ deleted # {}
      OBVIOUS
    <3> DEFINE r == Rest(buckets[k])
    <3>1. Ascends(r) /\ ToSet(r) = Old(k) \ deleted
      BY <1>3
    <3> HIDE DEF r
    <3>2. r = <<>> <=> ToSet(r) = {}
      BY <3>1, AscendsNone, SeqNone, AscendsEqual
    <3>3. r # <<>> <=> Old(k) \ deleted # {}
      BY <3>1, <3>2
    <3> QED BY <3>3 DEF r
  <2> QED BY <1>1, <2>1, <2>2, <2>3
<1> QED BY <1>1, <1>6, <1>7 DEF Posted, New, new, result

-----------------------------------------------------------------------------
(* What holds of the rows and of the two relational caches.                  *)

RowsHold(rows) == ValidRows(rows) /\ Len(rows) <= MaxTableRows

KeysHold(keys, rows) ==
    /\ DOMAIN keys = Unique
    /\ \A c \in Unique : IsMap(keys[c]) /\ NamesRows(keys[c], rows, c)

IsIndex(index) == index = [column |-> index.column, buckets |-> index.buckets]

IndexesHold(indexes, rows) ==
    \A n \in DOMAIN indexes :
        /\ IsIndex(indexes[n])
        /\ Posted(indexes[n].buckets, ColumnOf(rows, indexes[n].column))

IsTable(t) == t = [rows |-> t.rows, indexes |-> t.indexes, unique_keys |-> t.unique_keys,
                   vector_columns |-> t.vector_columns]

Relational(t) ==
    /\ IsTable(t)
    /\ RowsHold(t.rows)
    /\ KeysHold(t.unique_keys, t.rows)
    /\ IndexesHold(t.indexes, t.rows)

\* A map of the unique keys is determined by the rows.
LEMMA NamesIsOne ==
    ASSUME NEW rows, NEW c, NEW k1, IsMap(k1), NamesRows(k1, rows, c),
           NEW k2, IsMap(k2), NamesRows(k2, rows, c)
    PROVE  k1 = k2
<1>1. DOMAIN k1 = DOMAIN k2
  BY DEF NamesRows
<1>2. \A k \in DOMAIN k1 : k1[k] = k2[k]
  <2> TAKE k \in DOMAIN k1
  <2>1. PICK p \in Keyed(rows, c) : k = Key(rows[p][c])
    BY DEF NamesRows
  <2> QED BY <2>1 DEF NamesRows
<1> QED BY <1>1, <1>2 DEF IsMap

LEMMA KeysAreMaps ==
    ASSUME NEW keys, NEW c, NEW rows, NEW first, NEW updates, NEW deleted
    PROVE  /\ IsMap(ExtendKeys(keys, c, rows, first))
           /\ IsMap(MoveKeys(keys, c, rows, updates))
           /\ IsMap(RemapKeys(keys, deleted))
<1>1. IsMap(ExtendKeys(keys, c, rows, first))
  BY DEF ExtendKeys, IsMap
<1>2. IsMap(MoveKeys(keys, c, rows, updates))
  BY DEF MoveKeys, IsMap
<1>3. IsMap(RemapKeys(keys, deleted))
  BY DEF RemapKeys, IsMap
<1> QED BY <1>1, <1>2, <1>3

\* The fields of a table whose caches were extended by the rows behind the first.
LEMMA ExtendIndexesIs ==
    ASSUME NEW t, NEW rows, NEW indexes, NEW keys, NEW columns, NEW first, NEW new,
           t = [rows |-> rows, indexes |-> indexes, unique_keys |-> keys,
                vector_columns |-> columns],
           new = ExtendIndexes(t, first)
    PROVE  /\ IsTable(new) /\ new.rows = rows
           /\ DOMAIN new.indexes = DOMAIN indexes
           /\ \A n \in DOMAIN indexes : new.indexes[n] = ExtendIndex(indexes[n], rows, first)
           /\ DOMAIN new.unique_keys = DOMAIN keys
           /\ \A c \in DOMAIN keys : new.unique_keys[c] = ExtendKeys(keys[c], c, rows, first)
           /\ DOMAIN new.vector_columns = DOMAIN columns
           /\ \A c \in DOMAIN columns : new.vector_columns[c] =
                AppendRows(columns[c], SubSeq(ColumnOf(rows, c), first + 1, Len(rows)))
<1> DEFINE i == [n \in DOMAIN t.indexes |-> ExtendIndex(t.indexes[n], t.rows, first)]
           u == [c \in DOMAIN t.unique_keys |-> ExtendKeys(t.unique_keys[c], c, t.rows, first)]
           v == [c \in DOMAIN t.vector_columns |->
                  AppendRows(t.vector_columns[c],
                             SubSeq(ColumnOf(t.rows, c), first + 1, Len(t.rows)))]
<1>1. new = [t EXCEPT !.indexes = i, !.unique_keys = u, !.vector_columns = v]
  BY Zenon DEF ExtendIndexes
<1>2. t.rows = rows /\ t.indexes = indexes /\ t.unique_keys = keys /\ t.vector_columns = columns
  OBVIOUS
<1>3. /\ i = [n \in DOMAIN indexes |-> ExtendIndex(indexes[n], rows, first)]
      /\ u = [c \in DOMAIN keys |-> ExtendKeys(keys[c], c, rows, first)]
      /\ v = [c \in DOMAIN columns |->
                AppendRows(columns[c], SubSeq(ColumnOf(rows, c), first + 1, Len(rows)))]
  BY ONLY <1>2
<1> HIDE DEF i, u, v
<1>4. new = [rows |-> rows, indexes |-> i, unique_keys |-> u, vector_columns |-> v]
  BY <1>1
<1>5. /\ IsTable(new) /\ new.rows = rows
      /\ new.indexes = i /\ new.unique_keys = u /\ new.vector_columns = v
  BY <1>4 DEF IsTable
<1> QED BY <1>3, <1>5

LEMMA RebuildRelationalIs ==
    ASSUME NEW t, IsTable(t), NEW new, new = RebuildRelational(t)
    PROVE  /\ IsTable(new) /\ new.rows = t.rows
           /\ DOMAIN new.indexes = DOMAIN t.indexes
           /\ \A n \in DOMAIN t.indexes :
                 new.indexes[n] = BuildIndex(t.indexes[n].column, t.rows)
           /\ DOMAIN new.unique_keys = Unique
           /\ \A c \in Unique : new.unique_keys[c] = ExtendKeys(<<>>, c, t.rows, 0)
           /\ new.vector_columns = t.vector_columns
BY DEF IsTable, RebuildRelational

\* Caches rebuilt from rows that satisfy the constraints.
LEMMA RebuildHolds ==
    ASSUME NEW t, IsTable(t), RowsHold(t.rows), \A c \in Unique : DistinctKeys(t.rows, c)
    PROVE  Relational(RebuildRelational(t))
<1> DEFINE new == RebuildRelational(t)
<1>1. /\ IsTable(new) /\ new.rows = t.rows
      /\ DOMAIN new.indexes = DOMAIN t.indexes
      /\ \A n \in DOMAIN t.indexes :
            new.indexes[n] = BuildIndex(t.indexes[n].column, t.rows)
      /\ DOMAIN new.unique_keys = Unique
      /\ \A c \in Unique : new.unique_keys[c] = ExtendKeys(<<>>, c, t.rows, 0)
  BY RebuildRelationalIs
<1> HIDE DEF new
<1>2. IsSeq(t.rows)
  BY DEF RowsHold, ValidRows
<1>3. KeysHold(new.unique_keys, t.rows)
  <2> DEFINE rows == t.rows
             u == new.unique_keys
  <2>1. IsSeq(rows) /\ \A c \in Unique : DistinctKeys(rows, c)
    BY <1>2
  <2>2. DOMAIN u = Unique /\ \A c \in Unique : u[c] = ExtendKeys(<<>>, c, rows, 0)
    BY <1>1
  <2> HIDE DEF rows, u
  <2>3. \A c \in Unique : IsMap(u[c]) /\ NamesRows(u[c], rows, c)
    BY <2>1, <2>2, RebuildNames, KeysAreMaps
  <2>4. KeysHold(u, rows)
    BY <2>2, <2>3 DEF KeysHold
  <2> QED BY <2>4 DEF u, rows
<1>4. IndexesHold(new.indexes, t.rows)
  <2> SUFFICES ASSUME NEW n \in DOMAIN new.indexes
               PROVE  /\ IsIndex(new.indexes[n])
                      /\ Posted(new.indexes[n].buckets, ColumnOf(t.rows, new.indexes[n].column))
    BY DEF IndexesHold
  <2> DEFINE c == t.indexes[n].column
             b == ExtendBuckets(<<>>, c, t.rows, 0)
  <2>1. n \in DOMAIN t.indexes /\ new.indexes[n] = [column |-> c, buckets |-> b]
    BY <1>1 DEF BuildIndex
  <2>2. Posted(b, ColumnOf(t.rows, c))
    BY <1>2, RebuildPosts
  <2> HIDE DEF c, b
  <2> QED BY <2>1, <2>2 DEF IsIndex
<1> QED BY <1>1, <1>3, <1>4 DEF Relational, new

\* Rows appended, if they meet no key and leave the table within its limit.
LEMMA AppendHolds ==
    ASSUME NEW t, Relational(t), NEW rows, ValidRows(rows),
           Len(t.rows) + Len(rows) <= MaxTableRows,
           \A c \in Unique : DistinctKeys(t.rows \o rows, c)
    PROVE  Relational(AppendTo(t, rows))
<1> DEFINE old == t.rows
           all == old \o rows
           i == t.indexes
           u == t.unique_keys
           v == t.vector_columns
           longer == [t EXCEPT !.rows = all]
           new == ExtendIndexes(longer, Len(old))
<1>1. IsSeq(old) /\ IsSeq(rows)
  BY DEF Relational, RowsHold, ValidRows
<1>2. t = [rows |-> old, indexes |-> i, unique_keys |-> u, vector_columns |-> v]
  BY DEF Relational, IsTable
<1> HIDE DEF all, old, i, u, v
<1>3. longer = [rows |-> all, indexes |-> i, unique_keys |-> u, vector_columns |-> v]
  BY <1>2
<1>a. new = ExtendIndexes(longer, Len(old))
  OBVIOUS
<1> HIDE DEF longer, new
<1>b. /\ IsTable(new) /\ new.rows = all
      /\ DOMAIN new.indexes = DOMAIN i
      /\ \A n \in DOMAIN i : new.indexes[n] = ExtendIndex(i[n], all, Len(old))
      /\ DOMAIN new.unique_keys = DOMAIN u
      /\ \A c \in DOMAIN u : new.unique_keys[c] = ExtendKeys(u[c], c, all, Len(old))
  BY <1>3, <1>a, ExtendIndexesIs
<1> USE DEF old, all
<1>4. /\ IsSeq(all) /\ ToSet(all) = ToSet(old) \cup ToSet(rows)
      /\ Len(all) = Len(old) + Len(rows) /\ Continues(all, old)
  BY <1>1, SeqConcat, ConcatPlaces
<1>5. RowsHold(all)
  BY <1>4 DEF RowsHold, ValidRows, Relational
<1> HIDE DEF all, old
<1>6. KeysHold(new.unique_keys, all)
  <2> DEFINE w == new.unique_keys
  <2>1. /\ DOMAIN u = Unique
        /\ \A c \in Unique : NamesRows(u[c], old, c) /\ DistinctKeys(all, c)
    BY DEF Relational, KeysHold, old, all, u
  <2>2. DOMAIN w = DOMAIN u /\ \A c \in DOMAIN u : w[c] = ExtendKeys(u[c], c, all, Len(old))
    BY <1>b
  <2> HIDE DEF w
  <2>3. \A c \in Unique : IsMap(w[c]) /\ NamesRows(w[c], all, c)
    <3> TAKE c \in Unique
    <3>1. NamesRows(u[c], old, c) /\ DistinctKeys(all, c)
      BY <2>1
    <3>2. w[c] = ExtendKeys(u[c], c, all, Len(old))
      BY <2>1, <2>2
    <3>3. NamesRows(ExtendKeys(u[c], c, all, Len(old)), all, c)
      BY <1>4, <3>1, ExtendNames
    <3> QED BY <3>2, <3>3, KeysAreMaps
  <2>4. KeysHold(w, all)
    BY <2>1, <2>2, <2>3 DEF KeysHold
  <2> QED BY <2>4 DEF w
<1>7. IndexesHold(new.indexes, all)
  <2> SUFFICES ASSUME NEW n \in DOMAIN new.indexes
               PROVE  /\ IsIndex(new.indexes[n])
                      /\ Posted(new.indexes[n].buckets, ColumnOf(all, new.indexes[n].column))
    BY DEF IndexesHold
  <2> DEFINE c == i[n].column
             b == i[n].buckets
             b2 == ExtendBuckets(b, c, all, Len(old))
  <2>1. n \in DOMAIN i /\ new.indexes[n] = [i[n] EXCEPT !.buckets = b2]
    BY <1>b DEF ExtendIndex
  <2>2. i[n] = [column |-> c, buckets |-> b] /\ Posted(b, ColumnOf(old, c))
    BY <2>1 DEF Relational, IndexesHold, IsIndex, old, i
  <2>3. Posted(b2, ColumnOf(all, c))
    BY <1>4, <2>2, ExtendPosts
  <2> HIDE DEF c, b, b2
  <2>4. new.indexes[n] = [column |-> c, buckets |-> b2]
    BY <2>1, <2>2
  <2> QED BY <2>3, <2>4 DEF IsIndex
<1>8. Relational(new)
  BY <1>b, <1>5, <1>6, <1>7 DEF Relational
<1>9. AppendTo(t, rows) = new
  BY DEF AppendTo, new, longer, all, old
<1> QED BY <1>8, <1>9

-----------------------------------------------------------------------------
(* What each way to change a table preserves.                                *)

\* The dense columns do not matter to the rows and the relational caches.
LEMMA ColumnsAside ==
    ASSUME NEW t, Relational(t), NEW columns, NEW new, new = [t EXCEPT !.vector_columns = columns]
    PROVE  Relational(new) /\ new.rows = t.rows /\ new.vector_columns = columns
<1> DEFINE r == t.rows
           i == t.indexes
           u == t.unique_keys
           v == t.vector_columns
<1>1. t = [rows |-> r, indexes |-> i, unique_keys |-> u, vector_columns |-> v]
  BY DEF Relational, IsTable
<1>2. RowsHold(r) /\ KeysHold(u, r) /\ IndexesHold(i, r)
  BY DEF Relational
<1>3. r = t.rows
  OBVIOUS
<1> HIDE DEF r, i, u, v
<1>4. new = [rows |-> r, indexes |-> i, unique_keys |-> u, vector_columns |-> columns]
  BY <1>1
<1>5. /\ IsTable(new) /\ new.rows = r /\ new.indexes = i /\ new.unique_keys = u
      /\ new.vector_columns = columns
  BY ONLY <1>4 DEF IsTable
<1> QED BY <1>2, <1>3, <1>5 DEF Relational

\* New rows and everything rebuilt from them.
LEMMA ReplacedHolds ==
    ASSUME NEW t, Relational(t), NEW rows, RowsHold(rows), ~UniqueFails(NoKeys, rows)
    PROVE  /\ Relational(RebuildIndexes([t EXCEPT !.rows = rows]))
           /\ RebuildIndexes([t EXCEPT !.rows = rows]).rows = rows
<1> DEFINE i == t.indexes
           u == t.unique_keys
           v == t.vector_columns
           base == [t EXCEPT !.rows = rows]
           new == RebuildIndexes(base)
<1>1. t = [rows |-> t.rows, indexes |-> i, unique_keys |-> u, vector_columns |-> v]
  BY DEF Relational, IsTable
<1> HIDE DEF i, u, v
<1>2. base = [rows |-> rows, indexes |-> i, unique_keys |-> u, vector_columns |-> v]
  BY <1>1
<1> HIDE DEF base
<1>3. IsTable(base) /\ base.rows = rows
  BY <1>2 DEF IsTable
<1>4. \A c \in Unique : DistinctKeys(rows, c)
  BY UniqueFailsNot DEF RowsHold, ValidRows
<1>5. Relational(RebuildRelational(base)) /\ RebuildRelational(base).rows = rows
  BY <1>3, <1>4, RebuildHolds, RebuildRelationalIs
<1> DEFINE columns == [c \in Vectors |-> AppendRows(EmptyDense, ColumnOf(base.rows, c))]
           middle == RebuildRelational(base)
<1>6. new = [middle EXCEPT !.vector_columns = columns]
  BY DEF RebuildIndexes
<1> HIDE DEF columns, middle, new
<1>7. Relational(new) /\ new.rows = rows
  BY <1>5, <1>6, ColumnsAside DEF middle
<1> QED BY <1>7 DEF new, base

\* Rows inserted after they were compared with the stored keys.
LEMMA InsertHolds ==
    ASSUME NEW t, Relational(t), NEW pending, ValidRows(pending)
    PROVE  Relational(InsertOrFail(t, pending).table)
<1>1. CASE UniqueFails(t.unique_keys, pending) \/ ~HasCapacity(Len(t.rows), Len(pending))
  BY <1>1 DEF InsertOrFail, Refused
<1>2. CASE ~UniqueFails(t.unique_keys, pending) /\ HasCapacity(Len(t.rows), Len(pending))
  <2> DEFINE r == t.rows
             u == t.unique_keys
  <2>1. InsertOrFail(t, pending).table = AppendTo(t, pending)
    BY <1>2 DEF InsertOrFail, Done
  <2>2. IsSeq(r) /\ IsSeq(pending) /\ \A c \in Unique : NamesRows(u[c], r, c)
    BY DEF Relational, RowsHold, ValidRows, KeysHold
  <2>3. ~UniqueFails(u, pending)
    BY <1>2
  <2> HIDE DEF u, r
  <2>4. ASSUME NEW c \in Unique PROVE DistinctKeys(r \o pending, c)
    <3>1. DistinctKeys(r, c)
      BY <2>2, NamedAreDistinct
    <3>2. /\ DistinctKeys(pending, c)
          /\ \A i \in Keyed(pending, c) : Key(pending[i][c]) \notin DOMAIN u[c]
      BY <2>2, <2>3, UniqueFailsNot
    <3>3. \A p \in Keyed(r, c) : Key(r[p][c]) \in DOMAIN u[c]
      BY <2>2 DEF NamesRows
    <3> QED BY <2>2, <3>1, <3>2, <3>3, DistinctConcat
  <2>5. Len(r) + Len(pending) <= MaxTableRows
    BY <1>2 DEF HasCapacity, r
  <2> QED BY <2>1, <2>4, <2>5, AppendHolds DEF r
<1> QED BY <1>1, <1>2

\* The fields of a table patched in place.
LEMMA PatchedIs ==
    ASSUME NEW t, NEW rows, NEW indexes, NEW keys, NEW columns, NEW updates, NEW new,
           t = [rows |-> rows, indexes |-> indexes, unique_keys |-> keys,
                vector_columns |-> columns],
           new = Patched(t, updates)
    PROVE  /\ IsTable(new) /\ new.rows = Replaced(rows, updates)
           /\ DOMAIN new.indexes = DOMAIN indexes
           /\ \A n \in DOMAIN indexes : new.indexes[n] = MoveIndex(indexes[n], rows, updates)
           /\ DOMAIN new.unique_keys = DOMAIN keys
           /\ \A c \in DOMAIN keys : new.unique_keys[c] = MoveKeys(keys[c], c, rows, updates)
           /\ DOMAIN new.vector_columns = DOMAIN columns
           /\ \A c \in DOMAIN columns : new.vector_columns[c] =
                PatchDense(columns[c], c, rows, updates)
<1> DEFINE r == Replaced(t.rows, updates)
           i == [n \in DOMAIN t.indexes |-> MoveIndex(t.indexes[n], t.rows, updates)]
           u == [c \in DOMAIN t.unique_keys |-> MoveKeys(t.unique_keys[c], c, t.rows, updates)]
           v == [c \in DOMAIN t.vector_columns |->
                  PatchDense(t.vector_columns[c], c, t.rows, updates)]
<1>1. new = [t EXCEPT !.rows = r, !.unique_keys = u, !.indexes = i, !.vector_columns = v]
  BY Zenon DEF Patched
<1>2. t.rows = rows /\ t.indexes = indexes /\ t.unique_keys = keys /\ t.vector_columns = columns
  OBVIOUS
<1>3. /\ r = Replaced(rows, updates)
      /\ i = [n \in DOMAIN indexes |-> MoveIndex(indexes[n], rows, updates)]
      /\ u = [c \in DOMAIN keys |-> MoveKeys(keys[c], c, rows, updates)]
      /\ v = [c \in DOMAIN columns |-> PatchDense(columns[c], c, rows, updates)]
  BY ONLY <1>2
<1> HIDE DEF r, i, u, v
<1>4. new = [rows |-> r, indexes |-> i, unique_keys |-> u, vector_columns |-> v]
  BY <1>1
<1>5. /\ IsTable(new) /\ new.rows = r
      /\ new.indexes = i /\ new.unique_keys = u /\ new.vector_columns = v
  BY <1>4 DEF IsTable
<1> QED BY <1>3, <1>5

LEMMA ReplacedAre ==
    ASSUME NEW rows, RowsHold(rows), NEW updates, DOMAIN updates \subseteq DOMAIN rows,
           \A p \in DOMAIN updates : ValidRow(updates[p])
    PROVE  RowsHold(Replaced(rows, updates))
<1> DEFINE new == Replaced(rows, updates)
           n == Len(rows)
<1>1. n \in Nat /\ DOMAIN rows = 1 .. n /\ \A p \in 1 .. n : ValidRow(rows[p])
  BY SeqDomain DEF RowsHold, ValidRows
<1>2. /\ new = [p \in 1 .. n |-> new[p]] /\ DOMAIN new = 1 .. n
      /\ \A p \in 1 .. n : new[p] = IF p \in DOMAIN updates THEN updates[p] ELSE rows[p]
  BY <1>1 DEF Replaced
<1> HIDE DEF new, n
<1>3. IsSeq(new) /\ Len(new) = n
  BY <1>1, <1>2, SeqIsFunction
<1>4. \A row \in ToSet(new) : ValidRow(row)
  BY <1>1, <1>2, <1>3, SeqDomain
<1> QED BY <1>3, <1>4 DEF RowsHold, ValidRows, new, n

\* The rows and caches patched in place, before any row is appended.
LEMMA PatchedHolds ==
    ASSUME NEW t, Relational(t), NEW updates, DOMAIN updates \subseteq DOMAIN t.rows,
           \A p \in DOMAIN updates : ValidRow(updates[p]),
           \A c \in Unique : DistinctKeys(Replaced(t.rows, updates), c)
    PROVE  Relational(Patched(t, updates)) /\ Patched(t, updates).rows = Replaced(t.rows, updates)
<1> DEFINE r == t.rows
           i == t.indexes
           u == t.unique_keys
           v == t.vector_columns
           s == Replaced(r, updates)
           new == Patched(t, updates)
<1>1. t = [rows |-> r, indexes |-> i, unique_keys |-> u, vector_columns |-> v]
  BY DEF Relational, IsTable
<1>2. RowsHold(r) /\ KeysHold(u, r) /\ IndexesHold(i, r) /\ DOMAIN updates \subseteq DOMAIN r
      /\ \A c \in Unique : DistinctKeys(s, c)
  BY DEF Relational
<1>3. new = Patched(t, updates)
  OBVIOUS
<1> HIDE DEF r, i, u, v, s, new
<1>4. /\ IsTable(new) /\ new.rows = s
      /\ DOMAIN new.indexes = DOMAIN i
      /\ \A n \in DOMAIN i : new.indexes[n] = MoveIndex(i[n], r, updates)
      /\ DOMAIN new.unique_keys = DOMAIN u
      /\ \A c \in DOMAIN u : new.unique_keys[c] = MoveKeys(u[c], c, r, updates)
  BY <1>1, <1>3, PatchedIs DEF s
<1>5. RowsHold(s)
  BY <1>2, ReplacedAre DEF s
<1>6. IsSeq(r)
  BY <1>2 DEF RowsHold, ValidRows
<1>7. KeysHold(new.unique_keys, s)
  <2> DEFINE w == new.unique_keys
  <2>1. DOMAIN u = Unique /\ \A c \in Unique : NamesRows(u[c], r, c) /\ DistinctKeys(s, c)
    BY <1>2 DEF KeysHold
  <2>2. DOMAIN w = DOMAIN u /\ \A c \in DOMAIN u : w[c] = MoveKeys(u[c], c, r, updates)
    BY <1>4
  <2> HIDE DEF w
  <2>3. \A c \in Unique : IsMap(w[c]) /\ NamesRows(w[c], s, c)
    <3> TAKE c \in Unique
    <3>1. NamesRows(u[c], r, c) /\ DistinctKeys(s, c)
      BY <2>1
    <3>2. NamesRows(MoveKeys(u[c], c, r, updates), s, c)
      BY <1>2, <3>1, KeysFollowPatch DEF DistinctKeys, s
    <3>3. w[c] = MoveKeys(u[c], c, r, updates)
      BY <2>1, <2>2
    <3> QED BY <3>2, <3>3, KeysAreMaps
  <2>4. KeysHold(w, s)
    BY <2>1, <2>2, <2>3 DEF KeysHold
  <2> QED BY <2>4 DEF w
<1>8. IndexesHold(new.indexes, s)
  <2> SUFFICES ASSUME NEW n \in DOMAIN new.indexes
               PROVE  /\ IsIndex(new.indexes[n])
                      /\ Posted(new.indexes[n].buckets, ColumnOf(s, new.indexes[n].column))
    BY DEF IndexesHold
  <2> DEFINE c == i[n].column
             b == i[n].buckets
             b2 == MoveBuckets(b, c, r, updates)
  <2>1. n \in DOMAIN i /\ new.indexes[n] = [i[n] EXCEPT !.buckets = b2]
    BY <1>4 DEF MoveIndex
  <2>2. i[n] = [column |-> c, buckets |-> b] /\ Posted(b, ColumnOf(r, c))
    BY <1>2, <2>1 DEF IndexesHold, IsIndex
  <2>3. Posted(b2, ColumnOf(s, c))
    BY <1>2, <1>6, <2>2, MovePosts DEF s
  <2> HIDE DEF c, b, b2
  <2>4. new.indexes[n] = [column |-> c, buckets |-> b2]
    BY <2>1, <2>2
  <2> QED BY <2>3, <2>4 DEF IsIndex
<1>9. Relational(new) /\ new.rows = s
  BY <1>4, <1>5, <1>7, <1>8 DEF Relational
<1> QED BY <1>9 DEF new, s, r

LEMMA PatchHolds ==
    ASSUME NEW t, Relational(t), NEW updates, DOMAIN updates \subseteq DOMAIN t.rows,
           \A p \in DOMAIN updates : ValidRow(updates[p]),
           NEW appended, ValidRows(appended), PatchFits(t, updates, appended)
    PROVE  Relational(ApplyPatch(t, updates, appended))
<1> DEFINE r == t.rows
           s == Replaced(r, updates)
           new == Patched(t, updates)
<1>1. /\ RowsHold(r) /\ IsSeq(r) /\ IsSeq(appended) /\ DOMAIN updates \subseteq DOMAIN r
      /\ \A c \in Unique : NamesRows(t.unique_keys[c], r, c)
  BY DEF Relational, RowsHold, ValidRows, KeysHold
<1>2. ASSUME NEW c \in Unique
      PROVE  /\ DistinctKeys(s, c) /\ DistinctKeys(appended, c)
             /\ \A p \in Keyed(s, c) : \A i \in Keyed(appended, c) :
                   Key(s[p][c]) # Key(appended[i][c])
  BY <1>1, FittingPatch
<1>3. Relational(new) /\ new.rows = s
  BY <1>2, PatchedHolds
<1>4. IsSeq(s) /\ Len(s) = Len(r)
  <2>1. DOMAIN s = DOMAIN r /\ s = [p \in DOMAIN r |-> s[p]]
    BY DEF Replaced
  <2>2. Len(r) \in Nat /\ DOMAIN r = 1 .. Len(r)
    BY <1>1, SeqDomain
  <2> HIDE DEF s, r
  <2> QED BY <2>1, <2>2, SeqIsFunction
<1>5. Len(r) + Len(appended) <= MaxTableRows
  BY DEF PatchFits, HasCapacity
<1> HIDE DEF s, r, new
<1>6. \A c \in Unique : DistinctKeys(s \o appended, c)
  BY <1>1, <1>2, <1>4, DistinctConcat
<1>7. Relational(AppendTo(new, appended))
  BY <1>3, <1>4, <1>5, <1>6, AppendHolds
<1> QED BY <1>7 DEF ApplyPatch, new

LEMMA FastUpsertHolds ==
    ASSUME NEW t, Relational(t), NEW pending, ValidRows(pending), NEW conflict \in Unique,
           NEW columns
    PROVE  Relational(FastUpsert(t, pending, conflict, columns).table)
<1> DEFINE patch == Patch(t, pending, conflict, columns)
<1>1. IsSeq(t.rows) /\ NamesRows(t.unique_keys[conflict], t.rows, conflict)
  BY DEF Relational, RowsHold, ValidRows, KeysHold
<1>2. PatchOf(t, patch)
  BY <1>1, PatchIs
<1> HIDE DEF patch
<1>3. FastUpsert(t, pending, conflict, columns) =
        IF patch.ok /\ PatchFits(t, patch.updates, patch.appended)
        THEN Done(ApplyPatch(t, patch.updates, patch.appended)) ELSE Refused(t)
  BY DEF FastUpsert, patch
<1>4. CASE patch.ok /\ PatchFits(t, patch.updates, patch.appended)
  <2>1. Relational(ApplyPatch(t, patch.updates, patch.appended))
    BY <1>2, <1>4, PatchHolds DEF PatchOf
  <2> QED BY <1>3, <1>4, <2>1 DEF Done
<1>5. CASE ~(patch.ok /\ PatchFits(t, patch.updates, patch.appended))
  BY <1>3, <1>5 DEF Refused
<1> QED BY <1>4, <1>5

LEMMA ConflictUpdatesHold ==
    ASSUME NEW t, Relational(t), NEW pending, ValidRows(pending), NEW conflict, NEW columns,
           NEW selection
    PROVE  Relational(ConflictUpdates(t, pending, conflict, columns, selection).table)
<1> DEFINE end == AfterConflicts(t.rows, pending, conflict, columns, selection)
           rows == end.rows
           bad == ~end.ok \/ UniqueFails(NoKeys, rows) \/ ~HasCapacity(0, Len(rows))
           new == RebuildIndexes([t EXCEPT !.rows = rows])
<1>1. StateOf(end)
  BY AfterConflictsAre DEF Relational, RowsHold
<1>2. ConflictUpdates(t, pending, conflict, columns, selection) =
        IF bad THEN Refused(t) ELSE IF end.affected THEN Done(new) ELSE Done(t)
  BY DEF ConflictUpdates
<1>3. ~bad => Relational(new)
  <2> SUFFICES ASSUME ~bad PROVE Relational(new)
    OBVIOUS
  <2>1. ValidRows(rows) /\ ~UniqueFails(NoKeys, rows) /\ HasCapacity(0, Len(rows))
    BY <1>1 DEF StateOf
  <2> HIDE DEF rows
  <2>2. RowsHold(rows)
    BY <2>1, SeqDomain DEF HasCapacity, RowsHold, ValidRows
  <2> QED BY <2>1, <2>2, ReplacedHolds
<1> HIDE DEF bad, new, end
<1> QED BY <1>2, <1>3 DEF Refused, Done

LEMMA UpdateRowsHold ==
    ASSUME NEW t, Relational(t), NEW pred, NEW c, NEW value
    PROVE  Relational(UpdateRows(t, pred, c, value).table)
<1> DEFINE old == t.rows
           rows == [p \in DOMAIN old |-> IF Holds(pred, old[p])
                                         THEN [old[p] EXCEPT ![c] = value] ELSE old[p]]
           bad == \/ ScanFails(t, pred)
                  \/ \E p \in DOMAIN rows : ~ValidRow(rows[p])
                  \/ UniqueFails(NoKeys, rows)
           new == RebuildIndexes([t EXCEPT !.rows = rows])
<1>1. UpdateRows(t, pred, c, value) = IF bad THEN Refused(t) ELSE Done(new)
  BY DEF UpdateRows
<1>2. ~bad => Relational(new)
  <2> SUFFICES ASSUME ~bad PROVE Relational(new)
    OBVIOUS
  <2>1. ~UniqueFails(NoKeys, rows) /\ \A p \in DOMAIN rows : ValidRow(rows[p])
    OBVIOUS
  <2>2. RowsHold(old)
    BY DEF Relational
  <2>3. Len(old) \in Nat /\ DOMAIN old = 1 .. Len(old)
    BY <2>2, SeqDomain DEF RowsHold, ValidRows
  <2>4. DOMAIN rows = DOMAIN old /\ rows = [p \in DOMAIN old |-> rows[p]]
    OBVIOUS
  <2> HIDE DEF rows, old
  <2>5. IsSeq(rows) /\ Len(rows) = Len(old)
    BY <2>3, <2>4, SeqIsFunction
  <2>6. \A row \in ToSet(rows) : ValidRow(row)
    BY <2>1, <2>3, <2>4, <2>5, SeqDomain
  <2>7. RowsHold(rows)
    BY <2>2, <2>5, <2>6 DEF RowsHold, ValidRows
  <2> QED BY <2>1, <2>7, ReplacedHolds
<1> HIDE DEF bad, new
<1> QED BY <1>1, <1>2 DEF Refused, Done

-----------------------------------------------------------------------------
(* The rows that the postings of a term name.                                *)

LEMMA SetToSeqIs ==
    ASSUME NEW S, IsFiniteSet(S)
    PROVE  /\ IsSeq(SetToSeq(S)) /\ ToSet(SetToSeq(S)) = S
           /\ \A i, j \in DOMAIN SetToSeq(S) : SetToSeq(S)[i] = SetToSeq(S)[j] => i = j
<1> DEFINE n == Cardinality(S)
           s == SetToSeq(S)
<1>1. n \in Nat /\ ExistsBijection(1 .. n, S)
  BY FS_CardinalityType
<1>2. \E f \in [1 .. n -> S] : IsInjective(f)
  BY <1>1 DEF ExistsBijection, Bijection, Injection
<1>3. s \in [1 .. n -> S] /\ IsInjective(s)
  BY <1>2 DEF SetToSeq
<1> HIDE DEF s
<1>4. s \in Injection(1 .. n, S)
  BY <1>3 DEF Injection
<1>5. Cardinality(1 .. n) = n
  BY <1>1, FS_Interval
<1>6. s \in Surjection(1 .. n, S)
  BY <1>4, <1>5, FS_Injection
<1>7. ToSet(s) = S
  BY <1>3, <1>6 DEF Surjection, ToSet
<1>8. IsSeq(s)
  BY <1>1, <1>3, <1>7 DEF IsSeq
<1> QED BY <1>3, <1>7, <1>8 DEF s, IsInjective

\* No element stands at two places.
Apart(s) == \A i, j \in DOMAIN s : s[i] = s[j] => i = j

LEMMA ApartConcat ==
    ASSUME NEW s, IsSeq(s), Apart(s), NEW t, IsSeq(t), Apart(t), ToSet(s) \cap ToSet(t) = {}
    PROVE  Apart(s \o t)
<1> DEFINE m == Len(s)
           n == Len(t)
           c == s \o t
<1>1. /\ m \in Nat /\ DOMAIN s = 1 .. m /\ n \in Nat /\ DOMAIN t = 1 .. n
      /\ DOMAIN c = 1 .. m + n
  BY SeqDomain, SeqConcat
<1>2. \A i \in 1 .. m + n : c[i] = IF i <= m THEN s[i] ELSE t[i - m]
  BY ConcatProperties DEF IsSeq
<1> HIDE DEF c, m, n
<1>3. \A i \in 1 .. m + n : IF i <= m THEN i \in 1 .. m /\ c[i] = s[i] /\ c[i] \in ToSet(s)
                            ELSE i - m \in 1 .. n /\ c[i] = t[i - m] /\ c[i] \in ToSet(t)
  <2> TAKE i \in 1 .. m + n
  <2>1. CASE i <= m
    <3>1. i \in 1 .. m /\ c[i] = s[i]
      BY <1>1, <1>2, <2>1
    <3> QED BY <1>1, <2>1, <3>1 DEF ToSet
  <2>2. CASE ~(i <= m)
    <3>1. i - m \in 1 .. n /\ c[i] = t[i - m]
      BY <1>1, <1>2, <2>2
    <3> QED BY <1>1, <2>2, <3>1 DEF ToSet
  <2> QED BY <2>1, <2>2
<1>4. SUFFICES ASSUME NEW i \in 1 .. m + n, NEW j \in 1 .. m + n, c[i] = c[j] PROVE i = j
  BY <1>1 DEF Apart, c
<1>5. CASE i <= m /\ j <= m
  BY <1>1, <1>3, <1>4, <1>5 DEF Apart
<1>6. CASE ~(i <= m) /\ ~(j <= m)
  <2>1. i - m = j - m
    BY <1>1, <1>3, <1>4, <1>6 DEF Apart
  <2> QED BY <1>1, <2>1
<1>7. CASE i <= m /\ ~(j <= m)
  BY <1>3, <1>4, <1>7
<1>8. CASE ~(i <= m) /\ j <= m
  BY <1>3, <1>4, <1>8
<1> QED BY <1>5, <1>6, <1>7, <1>8

LEMMA ApartFlat ==
    ASSUME NEW ss, IsSeq(ss), \A s \in ToSet(ss) : IsSeq(s) /\ Apart(s),
           \A i, j \in 1 .. Len(ss) : i # j => ToSet(ss[i]) \cap ToSet(ss[j]) = {}
    PROVE  Apart(FlattenSeq(ss))
<1> DEFINE S == ToSet(ss)
           Sep(r) == \A i, j \in 1 .. Len(r) : i # j => ToSet(r[i]) \cap ToSet(r[j]) = {}
           P == {r \in Seq(S) : Sep(r) => Apart(FlattenSeq(r))}
<1>1. <<>> \in P
  <2>1. FlattenSeq(<<>>) = <<>>
    BY DEF FlattenSeq
  <2>2. Apart(<<>>) /\ <<>> \in Seq(S)
    BY DEF Apart
  <2> QED BY <2>1, <2>2
<1> HIDE DEF Sep
<1>2. \A r \in P : \A s \in S : Append(r, s) \in P
  <2> SUFFICES ASSUME NEW r \in Seq(S), Sep(r) => Apart(FlattenSeq(r)), NEW s \in S,
                      Sep(Append(r, s))
               PROVE  Apart(FlattenSeq(Append(r, s)))
    BY DEF S
  <2>1. IsSeq(s) /\ Apart(s)
    OBVIOUS
  <2>2. \A q \in ToSet(r) : IsSeq(q)
    BY SeqIs
  <2> HIDE DEF S
  <2> DEFINE k == Len(r)
             more == Append(r, s)
  <2>3. /\ k \in Nat /\ Len(more) = k + 1 /\ more[k + 1] = s
        /\ \A i \in 1 .. k : more[i] = r[i] /\ i \in 1 .. k + 1 /\ i # k + 1
    OBVIOUS
  <2>4. k + 1 \in 1 .. k + 1
    BY <2>3
  <2>5. IsSeq(r) /\ ToSet(r) = {r[i] : i \in 1 .. k}
    BY SeqIs DEF ToSet
  <2>6. Sep(more)
    OBVIOUS
  <2> HIDE DEF k, more
  <2>7. \A i, j \in 1 .. k + 1 : i # j => ToSet(more[i]) \cap ToSet(more[j]) = {}
    BY <2>3, <2>6 DEF Sep
  <2>8. Sep(r)
    BY <2>3, <2>7 DEF k, Sep
  <2>9. \A i \in 1 .. k : ToSet(r[i]) \cap ToSet(s) = {}
    <3> TAKE i \in 1 .. k
    <3>1. ToSet(more[i]) \cap ToSet(more[k + 1]) = {}
      BY <2>3, <2>4, <2>7
    <3> QED BY <2>3, <3>1
  <2>10. CASE r = <<>>
    BY <2>1, <2>10, FlatMore
  <2>11. CASE r # <<>>
    <3> DEFINE f == FlattenSeq(r)
    <3>1. FlattenSeq(Append(r, s)) = f \o s
      BY <2>11, FlatMore
    <3>2. IsSeq(f) /\ \A x : x \in ToSet(f) <=> \E q \in ToSet(r) : x \in ToSet(q)
      BY <2>2, <2>5, FlatElements
    <3>3. Apart(f)
      BY <2>8
    <3> HIDE DEF f
    <3>4. ToSet(f) \cap ToSet(s) = {}
      BY <2>5, <2>9, <3>2
    <3> QED BY <2>1, <3>1, <3>2, <3>3, <3>4, ApartConcat
  <2> QED BY <2>10, <2>11
<1>3. P = Seq(S)
  <2> HIDE DEF P
  <2> QED BY <1>1, <1>2, SequenceSets DEF P
<1>4. ss \in P
  BY <1>3 DEF IsSeq
<1> QED BY <1>4 DEF Sep

LEMMA SortedAre ==
    ASSUME NEW rows, IsSeq(rows), ToSet(rows) \subseteq Nat, Apart(rows)
    PROVE  Ascends(Sorted(rows)) /\ ToSet(Sorted(rows)) = ToSet(rows)
<1> DEFINE n == Len(rows)
           o == [kind |-> "sort"]
<1>1. n \in Nat /\ DOMAIN rows = 1 .. n /\ \A i \in 1 .. n : rows[i] \in Nat
  BY SeqDomain
<1>2. PICK f : Runs(o, <<>>, rows, f, n) /\ Sorted(rows) = f[n]
  BY SortRuns
<1>3. f[0] = <<>> /\ \A i \in 1 .. n : f[i] = IntoBucket(f[i - 1], rows[i])
  <2>1. o.kind = "sort"
    OBVIOUS
  <2> HIDE DEF o
  <2>2. \A v, x : Step(o, v, x) = IntoBucket(v, x)
    BY ONLY <2>1 DEF Step
  <2> QED BY <1>2, <2>2 DEF Runs
<1> HIDE DEF n, o
<1> DEFINE In(x, i) == \E j \in 1 .. i : rows[j] = x
           N == {i \in Nat : i <= n => Ascends(f[i]) /\ \A x : x \in ToSet(f[i]) <=> In(x, i)}
<1>4. 0 \in N
  BY <1>3, AscendsNone, SeqNone
<1>5. ASSUME NEW i \in N PROVE i + 1 \in N
  <2> SUFFICES ASSUME i + 1 <= n
               PROVE  Ascends(f[i + 1]) /\ \A x : x \in ToSet(f[i + 1]) <=> In(x, i + 1)
    OBVIOUS
  <2> DEFINE p == rows[i + 1]
             b == f[i]
  <2>1. i + 1 \in 1 .. n /\ i + 1 - 1 = i /\ i <= n /\ i \in Nat /\ p \in Nat
    BY <1>1
  <2>2. Ascends(b) /\ \A x : x \in ToSet(b) <=> In(x, i)
    BY <2>1
  <2>3. f[i + 1] = IntoBucket(b, p)
    BY <1>3, <2>1
  <2>4. \A j \in 1 .. i : j \in 1 .. n /\ j # i + 1
    BY <1>1, <2>1
  <2>5. p \notin ToSet(b)
    BY <1>1, <2>1, <2>2, <2>4 DEF Apart
  <2>6. \A x : In(x, i + 1) <=> In(x, i) \/ x = p
    BY <2>1
  <2> HIDE DEF In, p, b
  <2>7. Ascends(IntoBucket(b, p)) /\ ToSet(IntoBucket(b, p)) = ToSet(b) \cup {p}
    BY <2>1, <2>2, <2>5, IntoBucketIs
  <2> QED BY <2>2, <2>3, <2>6, <2>7
<1>6. N = Nat
  <2> HIDE DEF N
  <2>1. N \in SUBSET Nat
    BY DEF N
  <2> QED BY <1>4, <1>5, <2>1, NaturalSets
<1>7. Ascends(f[n]) /\ \A x : x \in ToSet(f[n]) <=> In(x, n)
  BY <1>1, <1>6
<1>8. \A x : x \in ToSet(rows) <=> In(x, n)
  BY <1>1 DEF ToSet
<1> HIDE DEF In
<1> QED BY <1>2, <1>7, <1>8

LEMMA AscendsOne == ASSUME NEW p \in Nat PROVE Ascends(<<p>>) /\ ToSet(<<p>>) = {p}
<1>1. IsSeq(<<p>>) /\ ToSet(<<p>>) = {p}
  BY SeqOne
<1>2. \A i, j \in DOMAIN <<p>> : ~ i < j
  OBVIOUS
<1> QED BY <1>1, <1>2 DEF Ascends

\* The posting of each key of the term that some row has.
LEMMA FoundAre ==
    ASSUME NEW t, Relational(t), NEW term, Indexed(t, term),
           NEW found, found = Found(t, term), NEW values, values = ColumnOf(t.rows, term.column)
    PROVE  /\ \A k : k \in DOMAIN found <=> k \in Keys(term) /\ Members(values, k) # {}
           /\ \A k \in DOMAIN found : /\ Ascends(found[k])
                                      /\ ToSet(found[k]) = Members(values, k)
<1> DEFINE c == term.column
           rows == t.rows
           u == t.unique_keys[c]
<1>1. \A k : Members(values, k) = {p \in Keyed(rows, c) : Key(rows[p][c]) = k}
  BY ColumnIs
<1>2. IsSeq(rows) /\ DOMAIN rows \subseteq Nat
  BY SeqDomain DEF Relational, RowsHold, ValidRows
<1>3. CASE c \in Unique
  <2>1. found = [k \in Keys(term) \cap DOMAIN u |-> <<u[k]>>]
    BY <1>3 DEF Found
  <2>2. NamesRows(u, rows, c)
    BY <1>3 DEF Relational, KeysHold
  <2> HIDE DEF c, rows, u
  <2>3. \A k : k \in DOMAIN u <=> Members(values, k) # {}
    BY <1>1, <2>2 DEF NamesRows
  <2>4. ASSUME NEW k \in DOMAIN u PROVE Members(values, k) = {u[k]} /\ u[k] \in Nat
    <3>1. PICK p \in Keyed(rows, c) : Key(rows[p][c]) = k
      BY <2>2 DEF NamesRows
    <3>2. \A q \in Keyed(rows, c) : Key(rows[q][c]) = k => q = u[k]
      BY <2>2 DEF NamesRows
    <3>3. p \in Nat
      BY <1>2 DEF Keyed
    <3>4. p = u[k]
      BY <3>1, <3>2
    <3>5. \A q : q \in Members(values, k) <=> q = p
      BY <1>1, <3>1, <3>2, <3>4
    <3> QED BY <3>3, <3>4, <3>5
  <2> QED BY <2>1, <2>3, <2>4, AscendsOne
<1>4. CASE c \notin Unique
  <2> DEFINE n == CHOOSE m \in IndexesOn(t, c) : TRUE
             b == t.indexes[n].buckets
  <2>1. n \in IndexesOn(t, c)
    BY <1>4 DEF Indexed
  <2>2. found = Restrict(b, Keys(term) \cap DOMAIN b)
    BY <1>4 DEF Found
  <2>3. Posted(b, values)
    BY <2>1 DEF IndexesOn, Relational, IndexesHold
  <2> HIDE DEF b
  <2>4. /\ DOMAIN found = Keys(term) \cap DOMAIN b
        /\ \A k \in DOMAIN found : found[k] = b[k]
    BY <2>2 DEF Restrict
  <2> QED BY <2>3, <2>4 DEF Posted
<1> QED BY <1>3, <1>4

LEMMA PostingsAre ==
    ASSUME NEW t, Relational(t), NEW term, Indexed(t, term), IsFiniteSet(term.values),
           NEW found, found = Found(t, term)
    PROVE  /\ IsSeq(Postings(t, term))
           /\ \A s : s \in ToSet(Postings(t, term)) <=> \E k \in DOMAIN found : s = found[k]
           /\ \A i, j \in DOMAIN Postings(t, term) :
                 Postings(t, term)[i] = Postings(t, term)[j] => i = j
<1> DEFINE values == ColumnOf(t.rows, term.column)
           S == Range(found)
<1>1. DOMAIN found \subseteq Keys(term)
  BY FoundAre
<1>2. IsFiniteSet(Keys(term))
  <2> DEFINE V == term.values \ {Null}
  <2>1. IsFiniteSet(V)
    BY FS_Difference
  <2>2. [v \in V |-> Key(v)] \in Surjection(V, Keys(term))
    BY DEF Surjection, Keys
  <2> QED BY <2>1, <2>2, FS_Surjection
<1>3. IsFiniteSet(DOMAIN found)
  BY <1>1, <1>2, FS_Subset
<1>4. IsFiniteSet(S)
  <2>1. [k \in DOMAIN found |-> found[k]] \in Surjection(DOMAIN found, S)
    BY DEF Surjection, Range
  <2> QED BY <1>3, <2>1, FS_Surjection
<1>5. Postings(t, term) = SetToSeq(S)
  BY DEF Postings
<1>6. \A s : s \in S <=> \E k \in DOMAIN found : s = found[k]
  BY DEF Range
<1> HIDE DEF S
<1> QED BY <1>4, <1>5, <1>6, SetToSeqIs

\* The rows whose key is one of the term's.
Named(t, term) == {p \in Keyed(t.rows, term.column) : Key(t.rows[p][term.column]) \in Keys(term)}

LEMMA TermRowsAre ==
    ASSUME NEW t, Relational(t), NEW term, Indexed(t, term), IsFiniteSet(term.values)
    PROVE  Ascends(TermRows(t, term)) /\ ToSet(TermRows(t, term)) = Named(t, term)
<1> DEFINE found == Found(t, term)
           values == ColumnOf(t.rows, term.column)
           ps == Postings(t, term)
           all == FlattenSeq(ps)
<1>1. /\ IsSeq(ps)
      /\ \A s : s \in ToSet(ps) <=> \E k \in DOMAIN found : s = found[k]
      /\ \A i, j \in DOMAIN ps : ps[i] = ps[j] => i = j
  BY PostingsAre
<1>2. /\ \A k : k \in DOMAIN found <=> k \in Keys(term) /\ Members(values, k) # {}
      /\ \A k \in DOMAIN found : Ascends(found[k]) /\ ToSet(found[k]) = Members(values, k)
  BY FoundAre
<1>3. \A k : Members(values, k) =
        {p \in Keyed(t.rows, term.column) : Key(t.rows[p][term.column]) = k}
  BY ColumnIs
<1>4. \A p : p \in Named(t, term) <=> \E k \in DOMAIN found : p \in Members(values, k)
  BY <1>2, <1>3 DEF Named
<1>5. TermRows(t, term) = IF Len(ps) = 1 THEN ps[1] ELSE Sorted(all)
  BY DEF TermRows
<1> HIDE DEF found, values, ps, all
<1>6. \A s \in ToSet(ps) : Ascends(s)
  BY <1>1, <1>2
<1>7. \A x : x \in Named(t, term) <=> \E s \in ToSet(ps) : x \in ToSet(s)
  BY <1>1, <1>2, <1>4
<1>8. /\ Len(ps) \in Nat /\ DOMAIN ps = 1 .. Len(ps)
      /\ \A i \in 1 .. Len(ps) : ps[i] \in ToSet(ps)
      /\ \A x \in ToSet(ps) : \E i \in 1 .. Len(ps) : ps[i] = x
  BY <1>1, SeqDomain
<1>9. CASE Len(ps) = 1
  <2>1. \A x \in ToSet(ps) : x = ps[1]
    BY <1>8, <1>9
  <2>2. ps[1] \in ToSet(ps)
    BY <1>8, <1>9
  <2>3. \A x : x \in Named(t, term) <=> x \in ToSet(ps[1])
    BY <1>7, <2>1, <2>2
  <2> QED BY <1>5, <1>6, <1>9, <2>2, <2>3
<1>10. CASE Len(ps) # 1
  <2>1. \A s \in ToSet(ps) : IsSeq(s) /\ Apart(s) /\ ToSet(s) \subseteq Nat
    <3> TAKE s \in ToSet(ps)
    <3>1. Ascends(s)
      BY <1>6
    <3> QED BY <3>1, AscendsPlaces DEF Ascends, Apart
  <2>2. ASSUME NEW i \in 1 .. Len(ps), NEW j \in 1 .. Len(ps), i # j
        PROVE  ToSet(ps[i]) \cap ToSet(ps[j]) = {}
    <3> SUFFICES ASSUME NEW x, x \in ToSet(ps[i]), x \in ToSet(ps[j]) PROVE FALSE
      OBVIOUS
    <3>1. PICK k \in DOMAIN found : ps[i] = found[k]
      BY <1>1, <1>8
    <3>2. PICK l \in DOMAIN found : ps[j] = found[l]
      BY <1>1, <1>8
    <3>3. k = l
      BY <1>2, <1>3, <3>1, <3>2
    <3> QED BY <1>1, <1>8, <2>2, <3>1, <3>2, <3>3
  <2>3. Apart(all)
    BY <1>1, <2>1, <2>2, ApartFlat DEF all
  <2>4. IsSeq(all) /\ \A x : x \in ToSet(all) <=> \E s \in ToSet(ps) : x \in ToSet(s)
    BY <1>1, <2>1, FlatElements DEF all
  <2>5. ToSet(all) \subseteq Nat
    BY <2>1, <2>4
  <2>6. Ascends(Sorted(all)) /\ ToSet(Sorted(all)) = ToSet(all)
    BY <2>3, <2>4, <2>5, SortedAre
  <2> QED BY <1>5, <1>7, <1>10, <2>4, <2>6
<1> QED BY <1>9, <1>10

LEMMA ScanIs ==
    ASSUME NEW t, IsSeq(t.rows), NEW pred
    PROVE  /\ Ascends(Scan(t, pred))
           /\ ToSet(Scan(t, pred)) = {p \in DOMAIN t.rows : Holds(pred, t.rows[p])}
<1> DEFINE S == {p \in DOMAIN t.rows : Holds(pred, t.rows[p])}
           n == Len(t.rows)
<1>1. n \in Nat /\ S \in SUBSET (1 .. n)
  BY SeqDomain
<1>2. Scan(t, pred) = Positions(S)
  BY DEF Scan
<1> HIDE DEF S, n
<1>3. Ascends(Positions(S)) /\ ToSet(Positions(S)) = S
  BY <1>1, PositionsAre
<1> QED BY <1>2, <1>3 DEF S

LEMMA RetainedAre ==
    ASSUME NEW rows, RowsHold(rows), NEW deleted \in SUBSET DOMAIN rows
    PROVE  RowsHold(Retained(rows, deleted))
<1> DEFINE new == Retained(rows, deleted)
           stay == Stay(rows, deleted)
           n == Len(stay)
           m == Len(rows)
<1>1. IsSeq(rows) /\ m \in Nat /\ DOMAIN rows = 1 .. m /\ m <= MaxTableRows
      /\ \A p \in DOMAIN rows : ValidRow(rows[p])
  BY SeqDomain DEF RowsHold, ValidRows
<1>2. /\ IsSeq(new) /\ Len(new) = n /\ n \in Nat
      /\ \A i \in 1 .. n : stay[i] \in DOMAIN rows \ deleted /\ new[i] = rows[stay[i]]
  BY <1>1, StayAre
<1>3. \A i \in 1 .. n : RemapRow(stay[i], deleted) = i
  BY <1>1, RemapIs
<1> HIDE DEF new, stay, n, m
<1>4. n <= m
  <2>1. CASE n = 0
    BY <1>1, <2>1
  <2>2. CASE n # 0
    <3> DEFINE last == stay[n]
               less == {d \in deleted : d < last}
    <3>1. n \in 1 .. n /\ last \in 1 .. m /\ RemapRow(last, deleted) = n
      BY <1>1, <1>2, <1>3, <2>2
    <3>2. Cardinality(less) \in Nat
      <4>1. IsFiniteSet(1 .. m)
        BY <1>1, FS_Interval
      <4>2. IsFiniteSet(less)
        BY <1>1, <4>1, FS_Subset
      <4> QED BY <4>2, FS_CardinalityType
    <3>3. n = last - Cardinality(less)
      BY <3>1 DEF RemapRow
    <3> HIDE DEF last, less
    <3> QED BY <1>1, <1>2, <3>1, <3>2, <3>3
  <2> QED BY <2>1, <2>2
<1>5. \A row \in ToSet(new) : ValidRow(row)
  BY <1>1, <1>2, SeqDomain
<1>6. MaxTableRows \in Nat
  BY TableStoreAssumption DEF TableStoreAssumption
<1>7. Len(new) <= MaxTableRows
  BY <1>1, <1>2, <1>4, <1>6
<1> QED BY <1>2, <1>5, <1>7 DEF RowsHold, ValidRows, new

\* The fields of a table some of whose rows were deleted.
LEMMA DeletedIs ==
    ASSUME NEW t, NEW rows, NEW indexes, NEW keys, NEW columns, NEW deleted, NEW new,
           t = [rows |-> rows, indexes |-> indexes, unique_keys |-> keys,
                vector_columns |-> columns],
           deleted # {}, Retained(rows, deleted) # <<>>,
           new = DeleteRows(t, deleted)
    PROVE  /\ IsTable(new) /\ new.rows = Retained(rows, deleted)
           /\ DOMAIN new.indexes = DOMAIN indexes
           /\ \A n \in DOMAIN indexes : new.indexes[n] = RemapIndex(indexes[n], deleted)
           /\ DOMAIN new.unique_keys = DOMAIN keys
           /\ \A c \in DOMAIN keys : new.unique_keys[c] = RemapKeys(keys[c], deleted)
           /\ DOMAIN new.vector_columns = DOMAIN columns
           /\ \A c \in DOMAIN columns : new.vector_columns[c] =
                DeleteFromDense(columns[c], ColumnOf(Retained(rows, deleted), c), deleted)
<1> DEFINE r == Retained(t.rows, deleted)
           i == [n \in DOMAIN t.indexes |-> RemapIndex(t.indexes[n], deleted)]
           u == [c \in DOMAIN t.unique_keys |-> RemapKeys(t.unique_keys[c], deleted)]
           v == [c \in DOMAIN t.vector_columns |->
                  DeleteFromDense(t.vector_columns[c], ColumnOf(r, c), deleted)]
<1>1. t.rows = rows /\ t.indexes = indexes /\ t.unique_keys = keys /\ t.vector_columns = columns
  OBVIOUS
<1>2. r # <<>>
  BY <1>1
<1>3. new = [t EXCEPT !.rows = r, !.vector_columns = v, !.indexes = i, !.unique_keys = u]
  BY <1>2, Zenon DEF DeleteRows
<1>4. /\ r = Retained(rows, deleted)
      /\ i = [n \in DOMAIN indexes |-> RemapIndex(indexes[n], deleted)]
      /\ u = [c \in DOMAIN keys |-> RemapKeys(keys[c], deleted)]
      /\ v = [c \in DOMAIN columns |->
               DeleteFromDense(columns[c], ColumnOf(Retained(rows, deleted), c), deleted)]
  BY ONLY <1>1
<1> HIDE DEF r, i, u, v
<1>5. new = [rows |-> r, indexes |-> i, unique_keys |-> u, vector_columns |-> v]
  BY <1>3
<1>6. /\ IsTable(new) /\ new.rows = r
      /\ new.indexes = i /\ new.unique_keys = u /\ new.vector_columns = v
  BY <1>5 DEF IsTable
<1> QED BY <1>4, <1>6

LEMMA DeleteHolds ==
    ASSUME NEW t, Relational(t), NEW deleted \in SUBSET DOMAIN t.rows
    PROVE  /\ Relational(DeleteRows(t, deleted))
           /\ DeleteRows(t, deleted).rows = Retained(t.rows, deleted)
<1> DEFINE r == t.rows
           i == t.indexes
           u == t.unique_keys
           v == t.vector_columns
           s == Retained(r, deleted)
           new == DeleteRows(t, deleted)
<1>1. t = [rows |-> r, indexes |-> i, unique_keys |-> u, vector_columns |-> v]
  BY DEF Relational, IsTable
<1>2. RowsHold(r) /\ KeysHold(u, r) /\ IndexesHold(i, r) /\ deleted \in SUBSET DOMAIN r
  BY DEF Relational
<1>3. IsSeq(r)
  BY <1>2 DEF RowsHold, ValidRows
<1>4. RowsHold(s)
  BY <1>2, RetainedAre
<1>5. CASE deleted = {}
  <2>1. new = t
    BY <1>5 DEF DeleteRows
  <2>2. Positions(DOMAIN r) = [p \in 1 .. Len(r) |-> p]
    <3> DEFINE n == Len(r)
               id == [p \in 1 .. n |-> p]
    <3>1. n \in Nat /\ DOMAIN r = 1 .. n
      BY <1>3, SeqDomain
    <3>2. Ascends(Positions(1 .. n)) /\ ToSet(Positions(1 .. n)) = 1 .. n
      BY <3>1, PositionsAre
    <3>3. id = [p \in 1 .. n |-> id[p]] /\ DOMAIN id = 1 .. n /\ \A p \in 1 .. n : id[p] = p
      OBVIOUS
    <3> HIDE DEF id, n
    <3>4. IsSeq(id)
      BY <3>1, <3>3, SeqIsFunction
    <3>5. ToSet(id) = 1 .. n
      BY <3>3 DEF ToSet
    <3>6. Ascends(id)
      BY <3>1, <3>3, <3>4, <3>5 DEF Ascends
    <3> QED BY <3>1, <3>2, <3>5, <3>6, AscendsEqual DEF id, n
  <2>3. DOMAIN r \ deleted = DOMAIN r
    BY <1>5
  <2>4. s = r
    <3> DEFINE kept == Positions(DOMAIN r)
    <3>1. s = [j \in DOMAIN kept |-> r[kept[j]]]
      BY <2>3 DEF Retained
    <3>2. DOMAIN kept = DOMAIN r /\ \A j \in DOMAIN r : kept[j] = j
      BY <1>3, <2>2, SeqDomain
    <3> HIDE DEF kept
    <3>3. s = [j \in DOMAIN r |-> r[j]]
      BY <3>1, <3>2
    <3> QED BY <1>3, <3>3 DEF IsSeq
  <2> QED BY <2>1, <2>4
<1>6. CASE deleted # {} /\ s = <<>>
  <2>1. new = RebuildIndexes([t EXCEPT !.rows = <<>>])
    BY <1>6 DEF DeleteRows
  <2>2. ~UniqueFails(NoKeys, <<>>)
    BY DEF UniqueFails
  <2> QED BY <1>4, <1>6, <2>1, <2>2, ReplacedHolds
<1>7. CASE deleted # {} /\ s # <<>>
  <2>1. new = DeleteRows(t, deleted)
    OBVIOUS
  <2> HIDE DEF r, i, u, v, s, new
  <2>2. Retained(r, deleted) # <<>>
    BY <1>7 DEF s
  <2>3. /\ IsTable(new) /\ new.rows = s
        /\ DOMAIN new.indexes = DOMAIN i
        /\ \A n \in DOMAIN i : new.indexes[n] = RemapIndex(i[n], deleted)
        /\ DOMAIN new.unique_keys = DOMAIN u
        /\ \A c \in DOMAIN u : new.unique_keys[c] = RemapKeys(u[c], deleted)
    BY <1>1, <1>7, <2>1, <2>2, DeletedIs DEF s
  <2>4. KeysHold(new.unique_keys, s)
    <3> DEFINE w == new.unique_keys
    <3>1. DOMAIN u = Unique /\ \A c \in Unique : NamesRows(u[c], r, c)
      BY <1>2 DEF KeysHold
    <3>2. DOMAIN w = DOMAIN u /\ \A c \in DOMAIN u : w[c] = RemapKeys(u[c], deleted)
      BY <2>3
    <3> HIDE DEF w
    <3>3. \A c \in Unique : IsMap(w[c]) /\ NamesRows(w[c], s, c)
      <4> TAKE c \in Unique
      <4>1. NamesRows(RemapKeys(u[c], deleted), s, c)
        BY <1>2, <1>3, <3>1, RemapNames DEF s
      <4>2. w[c] = RemapKeys(u[c], deleted)
        BY <3>1, <3>2
      <4> QED BY <4>1, <4>2, KeysAreMaps
    <3>4. KeysHold(w, s)
      BY <3>1, <3>2, <3>3 DEF KeysHold
    <3> QED BY <3>4 DEF w
  <2>5. IndexesHold(new.indexes, s)
    <3> SUFFICES ASSUME NEW n \in DOMAIN new.indexes
                 PROVE  /\ IsIndex(new.indexes[n])
                        /\ Posted(new.indexes[n].buckets, ColumnOf(s, new.indexes[n].column))
      BY DEF IndexesHold
    <3> DEFINE c == i[n].column
               b == i[n].buckets
               b2 == RemapBuckets(b, deleted)
    <3>1. n \in DOMAIN i /\ new.indexes[n] = [i[n] EXCEPT !.buckets = b2]
      BY <2>3 DEF RemapIndex
    <3>2. i[n] = [column |-> c, buckets |-> b] /\ Posted(b, ColumnOf(r, c))
      BY <1>2, <3>1 DEF IndexesHold, IsIndex
    <3>3. Posted(b2, ColumnOf(s, c))
      BY <1>2, <1>3, <3>2, RemapPosts DEF s
    <3> HIDE DEF c, b, b2
    <3>4. new.indexes[n] = [column |-> c, buckets |-> b2]
      BY <3>1, <3>2
    <3> QED BY <3>3, <3>4 DEF IsIndex
  <2>6. Relational(new) /\ new.rows = s
    BY <1>4, <2>3, <2>4, <2>5 DEF Relational
  <2> QED BY <2>6 DEF new, s, r
<1> QED BY <1>5, <1>6, <1>7

-----------------------------------------------------------------------------
(* The statements.                                                           *)

\* The rows of a batch.
LEMMA BatchIs == ASSUME NEW pending \in Batches PROVE ValidRows(pending)
<1> DEFINE S == {row \in Rows : ValidRow(row)}
<1>1. PICK n \in 1 .. MaxBatch : pending \in [1 .. n -> S]
  BY DEF Batches
<1>2. n \in Nat
  BY TableStoreAssumption DEF TableStoreAssumption
<1>3. pending \in Seq(S)
  BY <1>1, <1>2
<1>4. IsSeq(pending) /\ ToSet(pending) \subseteq S
  BY <1>3, SeqIs
<1> QED BY <1>4 DEF ValidRows

LEMMA SingleBatchIs == ASSUME NEW row, ValidRow(row) PROVE ValidRows(<<row>>)
BY SeqOne DEF ValidRows

\* Without a conflict update: what is not accepted is left out.
LEMMA InsertDoNothingHolds ==
    ASSUME NEW t, Relational(t), NEW pending, ValidRows(pending), NEW columns
    PROVE  Relational(InsertDoNothing(t, pending, columns).table)
BY AcceptedAre, InsertHolds DEF InsertDoNothing

LEMMA ReplaceColumnsHolds ==
    ASSUME NEW t, Relational(t), NEW pending, ValidRows(pending), NEW conflict \in Unique,
           NEW columns
    PROVE  Relational(ReplaceColumns(t, pending, conflict, columns).table)
BY FastUpsertHolds, ConflictUpdatesHold DEF ReplaceColumns

\* The rows a DELETE names exist, whether indexes or a scan found them.
LEMMA DeletedRowsExist ==
    ASSUME NEW t, Relational(t), NEW pred,
           pred \in {Everything} \cup {Single(term) : term \in Terms}
    PROVE  ToSet(IF FullyIndexed(t, pred) THEN IndexedRows(t, pred) ELSE Scan(t, pred))
             \in SUBSET DOMAIN t.rows
<1>1. IsSeq(t.rows)
  BY DEF Relational, RowsHold, ValidRows
<1>2. CASE ~FullyIndexed(t, pred)
  BY <1>1, <1>2, ScanIs
<1>3. CASE FullyIndexed(t, pred)
  <2>1. pred.op # "all" /\ Indexed(t, pred.left)
    BY <1>3 DEF FullyIndexed
  <2>2. PICK term \in Terms : pred = Single(term)
    BY <2>1 DEF Everything
  <2>3. pred.op = "term" /\ pred.left = term
    BY <2>2 DEF Single
  <2>4. IndexedRows(t, pred) = TermRows(t, term)
    BY <2>1, <2>3 DEF IndexedRows
  <2>5. IsFiniteSet(term.values)
    <3>1. PICK c \in Scalars : term \in [column : {c}, values : {{v, w} : v, w \in Values(c) \ {NaN}}]
      BY DEF Terms
    <3>2. PICK v, w \in Values(c) \ {NaN} : term.values = {v, w}
      BY <3>1
    <3>3. IsFiniteSet({v}) /\ {v, w} = {v} \cup {w}
      BY FS_Singleton
    <3> QED BY <3>2, <3>3, FS_AddElement
  <2>6. ToSet(TermRows(t, term)) = Named(t, term)
    BY <2>1, <2>3, <2>5, TermRowsAre
  <2>7. Named(t, term) \subseteq DOMAIN t.rows
    BY DEF Named, Keyed
  <2> QED BY <1>3, <2>4, <2>6, <2>7
<1> QED BY <1>2, <1>3

LEMMA CreateIndexHolds ==
    ASSUME NEW t, Relational(t), NEW name, NEW c, NEW new,
           new = [t EXCEPT !.indexes = Put(@, name, BuildIndex(c, t.rows))]
    PROVE  Relational(new)
<1> DEFINE r == t.rows
           i == t.indexes
           u == t.unique_keys
           v == t.vector_columns
           j == Put(i, name, BuildIndex(c, r))
<1>1. t = [rows |-> r, indexes |-> i, unique_keys |-> u, vector_columns |-> v]
  BY DEF Relational, IsTable
<1>2. new = [t EXCEPT !.indexes = j]
  OBVIOUS
<1>3. RowsHold(r) /\ KeysHold(u, r) /\ IndexesHold(i, r)
  BY DEF Relational
<1> HIDE DEF r, i, u, v, j
<1>4. new = [rows |-> r, indexes |-> j, unique_keys |-> u, vector_columns |-> v]
  BY <1>1, <1>2
<1>5. IsTable(new) /\ new.rows = r /\ new.indexes = j /\ new.unique_keys = u
  BY ONLY <1>4 DEF IsTable
<1>6. IndexesHold(j, r)
  <2> SUFFICES ASSUME NEW n \in DOMAIN j
               PROVE  IsIndex(j[n]) /\ Posted(j[n].buckets, ColumnOf(r, j[n].column))
    BY DEF IndexesHold
  <2>1. CASE n = name
    <3> DEFINE b == ExtendBuckets(<<>>, c, r, 0)
    <3>1. j[n] = [column |-> c, buckets |-> b]
      BY <2>1 DEF j, Put, BuildIndex
    <3>2. Posted(b, ColumnOf(r, c))
      BY <1>3, RebuildPosts DEF RowsHold, ValidRows
    <3> HIDE DEF b
    <3> QED BY <3>1, <3>2 DEF IsIndex
  <2>2. CASE n # name
    <3>1. n \in DOMAIN i /\ j[n] = i[n]
      BY <2>2 DEF j, Put
    <3> QED BY <1>3, <3>1 DEF IndexesHold
  <2> QED BY <2>1, <2>2
<1> QED BY <1>3, <1>5, <1>6 DEF Relational

LEMMA DropIndexHolds ==
    ASSUME NEW t, Relational(t), NEW name, NEW new,
           new = [t EXCEPT !.indexes = Restrict(@, DOMAIN @ \ {name})]
    PROVE  Relational(new)
<1> DEFINE r == t.rows
           i == t.indexes
           u == t.unique_keys
           v == t.vector_columns
           j == Restrict(i, DOMAIN i \ {name})
<1>1. t = [rows |-> r, indexes |-> i, unique_keys |-> u, vector_columns |-> v]
  BY DEF Relational, IsTable
<1>2. new = [t EXCEPT !.indexes = j]
  OBVIOUS
<1>3. RowsHold(r) /\ KeysHold(u, r) /\ IndexesHold(i, r)
  BY DEF Relational
<1> HIDE DEF r, i, u, v, j
<1>4. new = [rows |-> r, indexes |-> j, unique_keys |-> u, vector_columns |-> v]
  BY <1>1, <1>2
<1>5. IsTable(new) /\ new.rows = r /\ new.indexes = j /\ new.unique_keys = u
  BY ONLY <1>4 DEF IsTable
<1>6. DOMAIN j = DOMAIN i \ {name} /\ \A n \in DOMAIN j : j[n] = i[n]
  BY DEF j, Restrict
<1>7. IndexesHold(j, r)
  BY <1>3, <1>6 DEF IndexesHold
<1> QED BY <1>3, <1>5, <1>7 DEF Relational

LEMMA LoadedHolds ==
    ASSUME NEW t, Relational(t)
    PROVE  Relational(Loaded(t)) /\ Loaded(t).rows = t.rows
<1> DEFINE columns == [c \in Vectors |-> LoadedDense(ColumnOf(t.rows, c))]
           middle == RebuildRelational(t)
<1>1. IsTable(t) /\ RowsHold(t.rows) /\ \A c \in Unique : DistinctKeys(t.rows, c)
  BY NamedAreDistinct DEF Relational, KeysHold
<1>2. Relational(middle) /\ middle.rows = t.rows
  BY <1>1, RebuildHolds, RebuildRelationalIs
<1>3. Loaded(t) = [middle EXCEPT !.vector_columns = columns]
  BY DEF Loaded
<1> HIDE DEF columns, middle
<1> QED BY <1>2, <1>3, ColumnsAside

LEMMA InitRelational == Init => Relational(table)
<1> SUFFICES ASSUME Init PROVE Relational(table)
  OBVIOUS
<1>1. table = [rows |-> <<>>, indexes |-> <<>>, unique_keys |-> NoKeys,
               vector_columns |-> [c \in Vectors |-> EmptyDense]]
  BY DEF Init
<1>2. IsTable(table) /\ table.rows = <<>> /\ table.indexes = <<>> /\ table.unique_keys = NoKeys
  BY ONLY <1>1 DEF IsTable
<1>3. RowsHold(<<>>)
  BY SeqNone, TableStoreAssumption DEF RowsHold, ValidRows, TableStoreAssumption
<1>4. KeysHold(NoKeys, <<>>)
  <2>1. IsMap(<<>>)
    BY DEF IsMap
  <2> QED BY <2>1, NoKeysName DEF KeysHold, NoKeys
<1>5. IndexesHold(<<>>, <<>>)
  BY DEF IndexesHold
<1> QED BY <1>2, <1>3, <1>4, <1>5 DEF Relational

LEMMA RelationalIsInductive == Relational(table) /\ [Next]_table => Relational(table')
<1> SUFFICES ASSUME Relational(table), [Next]_table PROVE Relational(table')
  OBVIOUS
<1>1. CASE Insert
  BY <1>1, BatchIs, InsertHolds DEF Insert
<1>2. CASE InsertIgnore
  BY <1>2, BatchIs, InsertDoNothingHolds DEF InsertIgnore
<1>3. CASE Upsert
  BY <1>3, BatchIs, ReplaceColumnsHolds DEF Upsert
<1>4. CASE SqlUpsert
  BY <1>4, SingleBatchIs, ConflictUpdatesHold DEF SqlUpsert
<1>5. CASE Update
  BY <1>5, UpdateRowsHold DEF Update
<1>6. CASE Delete
  BY <1>6, DeletedRowsExist, DeleteHolds DEF Delete
<1>7. CASE CreateIndex
  BY <1>7, CreateIndexHolds DEF CreateIndex
<1>8. CASE DropIndex
  BY <1>8, DropIndexHolds DEF DropIndex
<1>9. CASE Reload
  BY <1>9, LoadedHolds DEF Reload
<1>10. CASE FillCache
  <2>1. PICK c \in Vectors : table' = [table EXCEPT !.vector_columns[c].remembered = table.rows]
    BY <1>10 DEF FillCache
  <2> DEFINE columns == [table.vector_columns EXCEPT ![c].remembered = table.rows]
  <2>2. table' = [table EXCEPT !.vector_columns = columns]
    BY <2>1
  <2> HIDE DEF columns
  <2> QED BY <2>2, ColumnsAside
<1>11. CASE UNCHANGED table
  BY <1>11
<1> QED BY <1>1, <1>2, <1>3, <1>4, <1>5, <1>6, <1>7, <1>8, <1>9, <1>10, <1>11 DEF Next

TableHolds == Relational(table)

LEMMA TableHoldsAlways == Spec => []TableHolds
<1>1. Init => TableHolds
  BY InitRelational DEF TableHolds
<1>2. TableHolds /\ [Next]_table => TableHolds'
  BY RelationalIsInductive DEF TableHolds
<1> QED BY <1>1, <1>2, PTL DEF Spec

\* No sequence of statements, by whichever path each goes, lets in two rows with
\* one key, a Null where none may be, or more rows than a table may have: the
\* fast paths compare new keys with the maps only, and the maps hold every key.
THEOREM Constraints == Spec => []ConstraintsHold
<1>1. TableHolds => ConstraintsHold
  <2> SUFFICES ASSUME Relational(table) PROVE ConstraintsHold
    BY DEF TableHolds
  <2>1. IsSeq(table.rows) /\ \A c \in Unique : DistinctKeys(table.rows, c)
    BY NamedAreDistinct DEF Relational, KeysHold, RowsHold, ValidRows
  <2>2. ~UniqueFails(NoKeys, table.rows)
    BY <2>1, DistinctSucceeds
  <2>3. \A p \in DOMAIN table.rows : ValidRow(table.rows[p])
    BY <2>1, SeqDomain DEF Relational, RowsHold, ValidRows
  <2> QED BY <2>2, <2>3 DEF ConstraintsHold, Relational, RowsHold
<1> QED BY <1>1, TableHoldsAlways, PTL
=============================================================================
