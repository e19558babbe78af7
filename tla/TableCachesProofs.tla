-------------------------- MODULE TableCachesProofs --------------------------
(* What the caches of TableStore are for.  The dense columns hold the rows'  *)
(* vectors and their generation names what they hold; the lookups through    *)
(* keys and buckets find the rows of a scan; the typed upsert, prepared      *)
(* against the keys, is the general one.  For any columns, rows, batches,    *)
(* slabs and bounds.                                                         *)
EXTENDS TableStoreProofs

-----------------------------------------------------------------------------
(* Dense columns: the slabs lie end to end, and the slab remembered for each  *)
(* block of rows is the one that holds the block's first row.                *)

LEMMA TimesGrows ==
    ASSUME NEW a \in Nat, NEW b \in Nat, a <= b, NEW size \in Nat
    PROVE  a * size <= b * size
OBVIOUS

LEMMA DivIs ==
    ASSUME NEW n \in Nat, NEW size \in Nat \ {0}
    PROVE  /\ n \div size \in Nat
           /\ (n \div size) * size <= n
           /\ n < (n \div size) * size + size
OBVIOUS

LEMMA DivAtLeast ==
    ASSUME NEW n \in Nat, NEW size \in Nat \ {0}, NEW b \in Nat
    PROVE  b <= n \div size <=> b * size <= n
<1> DEFINE q == n \div size
<1>1. q \in Nat /\ q * size <= n /\ n < q * size + size
  BY DivIs
<1> HIDE DEF q
<1>2. ASSUME b <= q PROVE b * size <= n
  <2>1. b * size <= q * size
    BY <1>1, <1>2, TimesGrows
  <2> DEFINE x == b * size
             y == q * size
  <2>2. x \in Nat /\ y \in Nat
    BY <1>1
  <2> HIDE DEF x, y
  <2> QED BY <1>1, <2>1, <2>2 DEF x, y
<1>3. ASSUME ~(b <= q) PROVE ~(b * size <= n)
  <2>1. (q + 1) * size <= b * size
    BY <1>1, <1>3, TimesGrows
  <2>2. (q + 1) * size = q * size + size
    BY <1>1
  <2> DEFINE x == b * size
             y == q * size
  <2>3. x \in Nat /\ y \in Nat
    BY <1>1
  <2> HIDE DEF x, y
  <2> QED BY <1>1, <2>1, <2>2, <2>3 DEF x, y
<1> QED BY <1>2, <1>3 DEF q

\* The first row of a block, and the number of blocks that k rows make.
StartOf(b) == (b - 1) * BlockRows + 1
BlocksOf(k) == IF k = 0 THEN 0 ELSE (k - 1) \div BlockRows + 1

LEMMA BlocksAre ==
    ASSUME NEW k \in Nat, NEW b \in Nat \ {0}
    PROVE  /\ BlocksOf(k) \in Nat /\ StartOf(b) \in Nat \ {0}
           /\ b <= BlocksOf(k) <=> StartOf(b) <= k
<1>1. BlockRows \in Nat \ {0}
  BY TableStoreAssumption DEF TableStoreAssumption
<1> DEFINE a == b - 1
           x == a * BlockRows
<1>2. a \in Nat /\ x \in Nat /\ StartOf(b) = x + 1 /\ b = a + 1
  BY <1>1 DEF StartOf
<1>3. CASE k = 0
  <2> HIDE DEF x, a
  <2> QED BY <1>2, <1>3 DEF BlocksOf
<1>4. CASE k # 0
  <2> DEFINE m == k - 1
             q == m \div BlockRows
  <2>1. m \in Nat /\ k = m + 1
    BY <1>4
  <2>2. q \in Nat /\ (a <= q <=> x <= m)
    BY <1>1, <1>2, <2>1, DivIs, DivAtLeast
  <2>3. BlocksOf(k) = q + 1
    BY <1>4 DEF BlocksOf
  <2> HIDE DEF x, a, m, q
  <2> QED BY <1>2, <2>1, <2>2, <2>3
<1> QED BY <1>3, <1>4

\* The rows before and up to the end of a slab, and up to the end of the i-th.
Holding(chunk, p) == chunk.first < p /\ p <= chunk.first + Len(chunk.values)
EndAt(chunks, i) == IF i = 0 THEN 0 ELSE chunks[i].first + Len(chunks[i].values)

IsChunk(chunk, column) ==
    /\ chunk = [first |-> chunk.first, values |-> chunk.values]
    /\ chunk.first \in Nat /\ IsSeq(chunk.values) /\ Len(chunk.values) \in Nat \ {0}
    /\ \A j \in 1 .. Len(chunk.values) : chunk.values[j] = column[chunk.first + j]

Aligned(chunks, column, k) ==
    /\ IsSeq(chunks) /\ k \in Nat /\ k = EndAt(chunks, Len(chunks))
    /\ \A i \in 1 .. Len(chunks) : /\ IsChunk(chunks[i], column)
                                   /\ chunks[i].first = EndAt(chunks, i - 1)

LooksUp(lookup, chunks, k) ==
    /\ IsSeq(lookup) /\ Len(lookup) = BlocksOf(k)
    /\ \A b \in 1 .. BlocksOf(k) : /\ lookup[b] \in 1 .. Len(chunks)
                                   /\ Holding(chunks[lookup[b]], StartOf(b))

IsDense(d) == d = [row_count |-> d.row_count, chunks |-> d.chunks,
                   chunk_lookup |-> d.chunk_lookup, remembered |-> d.remembered]

\* The slabs hold the first k values of the column.
Packs(d, column, k) ==
    /\ IsDense(d) /\ d.row_count = k
    /\ Aligned(d.chunks, column, k)
    /\ LooksUp(d.chunk_lookup, d.chunks, k)

LEMMA EndsRise ==
    ASSUME NEW chunks, NEW column, NEW k, Aligned(chunks, column, k),
           NEW i \in Nat
    PROVE  \A j \in Nat : i <= j /\ j <= Len(chunks) =>
              /\ EndAt(chunks, i) \in Nat /\ EndAt(chunks, j) \in Nat
              /\ EndAt(chunks, i) <= EndAt(chunks, j)
<1> DEFINE m == Len(chunks)
           E(j) == EndAt(chunks, j)
           N == {j \in Nat : i <= j /\ j <= m => E(i) \in Nat /\ E(j) \in Nat /\ E(i) <= E(j)}
<1>1. m \in Nat
  BY SeqDomain DEF Aligned
<1>2. ASSUME NEW j \in Nat, j <= m PROVE E(j) \in Nat
  <2>1. CASE j = 0
    BY <2>1 DEF EndAt
  <2>2. CASE j # 0
    <3>1. IsChunk(chunks[j], column)
      BY <1>1, <1>2, <2>2 DEF Aligned
    <3> QED BY <2>2, <3>1 DEF EndAt, IsChunk
  <2> QED BY <2>1, <2>2
<1>3. \A j \in Nat : j + 1 <= m => E(j) <= E(j + 1)
  <2> SUFFICES ASSUME NEW j \in Nat, j + 1 <= m PROVE E(j) <= E(j + 1)
    OBVIOUS
  <2>1. j + 1 \in 1 .. m /\ j + 1 - 1 = j /\ j + 1 # 0
    BY <1>1
  <2>2. chunks[j + 1].first = EndAt(chunks, j) /\ IsChunk(chunks[j + 1], column)
    BY <2>1 DEF Aligned
  <2>3. E(j + 1) = chunks[j + 1].first + Len(chunks[j + 1].values)
    BY <2>1 DEF EndAt
  <2> QED BY <2>2, <2>3 DEF IsChunk
<1> HIDE DEF m, E
<1>4. 0 \in N
  BY <1>1, <1>2
<1>5. ASSUME NEW j \in N PROVE j + 1 \in N
  <2>1. CASE j + 1 <= m /\ i <= j
    BY <1>1, <1>2, <1>3, <2>1
  <2>2. CASE ~(j + 1 <= m /\ i <= j)
    BY <1>1, <1>2, <2>2
  <2> QED BY <2>1, <2>2
<1>6. N = Nat
  <2> HIDE DEF N
  <2>1. N \in SUBSET Nat
    BY DEF N
  <2> QED BY <1>4, <1>5, <2>1, NaturalSets
<1> QED BY <1>6 DEF E, m

\* Every packed row lies in a slab.
LEMMA SomeHolds ==
    ASSUME NEW chunks, NEW column, NEW k, Aligned(chunks, column, k), NEW p \in 1 .. k
    PROVE  \E i \in 1 .. Len(chunks) : Holding(chunks[i], p)
<1> DEFINE m == Len(chunks)
           S == {i \in 1 .. m : p <= EndAt(chunks, i)}
           i == Min(S)
<1>1. m \in Nat /\ k = EndAt(chunks, m) /\ k \in Nat
  BY SeqDomain DEF Aligned
<1>2. m \in S
  BY <1>1 DEF EndAt
<1>3. i \in S /\ \A j \in S : i <= j
  <2>1. S \in SUBSET Nat /\ S # {}
    BY <1>2
  <2> HIDE DEF S
  <2> QED BY <2>1, SmallestPlace
<1> HIDE DEF i
<1>4. i \in 1 .. m /\ p <= EndAt(chunks, i)
  BY <1>3
<1>5. chunks[i].first < p
  <2>1. CASE i = 1
    <3>1. chunks[1].first = EndAt(chunks, 1 - 1)
      BY <1>4, <2>1 DEF Aligned
    <3> QED BY <2>1, <3>1 DEF EndAt
  <2>2. CASE i # 1
    <3>1. i - 1 \in 1 .. m /\ i - 1 \notin S /\ i - 1 \in Nat /\ i - 1 <= m
      BY <1>1, <1>3, <1>4, <2>2
    <3>2. EndAt(chunks, i - 1) \in Nat /\ ~(p <= EndAt(chunks, i - 1))
      BY <1>1, <3>1, EndsRise
    <3>3. chunks[i].first = EndAt(chunks, i - 1)
      BY <1>4 DEF Aligned
    <3> QED BY <3>2, <3>3
  <2> QED BY <2>1, <2>2
<1> QED BY <1>4, <1>5 DEF EndAt, Holding

\* A row lies in one slab; those that start before it come before that one.
LEMMA StartsBefore ==
    ASSUME NEW chunks, NEW column, NEW k, Aligned(chunks, column, k), NEW p \in Nat,
           NEW i \in 1 .. Len(chunks), Holding(chunks[i], p), NEW j \in 1 .. Len(chunks)
    PROVE  /\ chunks[j].first \in Nat
           /\ chunks[j].first < p <=> j <= i
<1>1. Len(chunks) \in Nat
  BY SeqDomain DEF Aligned
<1>2. /\ chunks[j].first = EndAt(chunks, j - 1) /\ chunks[j].first \in Nat
      /\ chunks[i].first = EndAt(chunks, i - 1) /\ chunks[i].first \in Nat
  BY DEF Aligned, IsChunk
<1>3. p <= EndAt(chunks, i) /\ chunks[i].first < p
  BY DEF Holding, EndAt
<1>4. CASE j <= i
  <2>1. j - 1 \in Nat /\ i - 1 \in Nat /\ j - 1 <= i - 1 /\ i - 1 <= Len(chunks)
    BY <1>1, <1>4
  <2>2. EndAt(chunks, j - 1) <= EndAt(chunks, i - 1)
    BY <2>1, EndsRise
  <2> QED BY <1>2, <1>3, <1>4, <2>2
<1>5. CASE ~(j <= i)
  <2>1. i \in Nat /\ j - 1 \in Nat /\ i <= j - 1 /\ j - 1 <= Len(chunks)
    BY <1>1, <1>5
  <2>2. EndAt(chunks, i) <= EndAt(chunks, j - 1) /\ EndAt(chunks, i) \in Nat
    BY <2>1, EndsRise
  <2> QED BY <1>2, <1>3, <1>5, <2>2
<1> QED BY <1>4, <1>5

LEMMA ChunkIndexIs ==
    ASSUME NEW d, NEW column, NEW k, Packs(d, column, k), NEW p \in 1 .. k,
           NEW i \in 1 .. Len(d.chunks), Holding(d.chunks[i], p)
    PROVE  ChunkIndex(d, p) = i
<1> DEFINE chunks == d.chunks
           lookup == d.chunk_lookup
           m == Len(chunks)
           n == BlocksOf(k)
           b == (p - 1) \div BlockRows + 1
           first == lookup[b]
           last == IF b < Len(lookup) THEN Min({lookup[b + 1], m}) ELSE m
           S == {0} \cup {j \in first .. last : chunks[j].first < p}
<1>1. /\ m \in Nat /\ k \in Nat /\ p \in Nat /\ i \in 1 .. m /\ Holding(chunks[i], p)
      /\ Aligned(chunks, column, k) /\ LooksUp(lookup, chunks, k) /\ d.row_count = k
      /\ Len(lookup) = n
  BY SeqDomain DEF Packs, Aligned, LooksUp
<1>2. \A j \in 1 .. m : chunks[j].first \in Nat /\ (chunks[j].first < p <=> j <= i)
  BY <1>1, StartsBefore
<1>3. BlocksOf(p) = b /\ b \in Nat \ {0}
  <2>1. p \in Nat /\ p # 0 /\ p - 1 \in Nat
    BY <1>1
  <2>2. (p - 1) \div BlockRows \in Nat
    BY <2>1, DivIs, TableStoreAssumption DEF TableStoreAssumption
  <2> QED BY <2>1, <2>2 DEF BlocksOf
<1> HIDE DEF b
<1>4. StartOf(b) \in Nat /\ StartOf(b) <= p /\ p \in Nat
  BY <1>1, <1>3, BlocksAre
<1>5. b <= n /\ n \in Nat
  <2>1. StartOf(b) <= k
    BY <1>1, <1>4
  <2> QED BY <1>1, <1>3, <2>1, BlocksAre
<1>6. first \in 1 .. m /\ Holding(chunks[first], StartOf(b))
  <2>1. b \in 1 .. n
    BY <1>3, <1>5
  <2> QED BY <1>1, <2>1 DEF LooksUp
<1>7. first <= i
  <2>1. chunks[first].first < p
    BY <1>2, <1>4, <1>6 DEF Holding
  <2> QED BY <1>2, <1>6, <2>1
<1>8. b < n => lookup[b + 1] \in 1 .. m /\ i <= lookup[b + 1]
  <2> SUFFICES ASSUME b < n PROVE lookup[b + 1] \in 1 .. m /\ i <= lookup[b + 1]
    OBVIOUS
  <2>1. b + 1 \in 1 .. n /\ b + 1 \in Nat \ {0}
    BY <1>3, <1>5
  <2>2. lookup[b + 1] \in 1 .. m /\ Holding(chunks[lookup[b + 1]], StartOf(b + 1))
    BY <1>1, <2>1 DEF LooksUp
  <2>3. ~(b + 1 <= BlocksOf(p)) /\ StartOf(b + 1) \in Nat
    BY <1>3, <1>4, <2>1, BlocksAre
  <2>4. ~(StartOf(b + 1) <= p)
    BY <1>4, <2>1, <2>3, BlocksAre
  <2>5. chunks[i].first < StartOf(b + 1)
    BY <1>1, <1>2, <1>4, <2>3, <2>4 DEF Holding
  <2>6. i <= lookup[b + 1]
    BY <1>1, <2>2, <2>3, <2>5, StartsBefore
  <2> QED BY <2>2, <2>6
<1>9. last \in Nat /\ i <= last /\ last <= m
  <2>1. CASE b < n
    <3> DEFINE T == {lookup[b + 1], m}
    <3>1. T \in SUBSET Nat /\ T # {}
      BY <1>1, <1>8, <2>1
    <3>2. Min(T) \in T /\ \A y \in T : Min(T) <= y
      <4> HIDE DEF T
      <4> QED BY <3>1, SmallestPlace
    <3>3. last = Min(T)
      BY <1>1, <2>1
    <3> QED BY <1>1, <1>8, <2>1, <3>2, <3>3
  <2>2. CASE ~(b < n)
    BY <1>1, <2>2
  <2> QED BY <2>1, <2>2
<1> HIDE DEF last, first
<1>10. S = {0} \cup (first .. i)
  <2>1. \A j \in first .. last : j \in 1 .. m
    BY <1>1, <1>6, <1>9
  <2>2. \A j \in first .. i : j \in first .. last
    BY <1>1, <1>6, <1>9
  <2>3. \A j \in first .. last : chunks[j].first < p <=> j <= i
    BY <1>2, <2>1
  <2>4. \A j \in first .. last : j <= i <=> j \in first .. i
    BY <1>1, <1>6, <1>9
  <2> QED BY <2>2, <2>3, <2>4
<1>11. Max(S) = i
  <2>1. S \in SUBSET (0 .. m) /\ S # {} /\ i \in S
    BY <1>1, <1>6, <1>7, <1>10
  <2>2. \A j \in S : j \in Nat /\ j <= i
    BY <1>1, <1>6, <1>7, <1>10
  <2> HIDE DEF S
  <2>3. Max(S) \in S /\ \A y \in S : Max(S) >= y
    BY <1>1, <2>1, GreatestPlace
  <2> DEFINE top == Max(S)
  <2>4. top \in Nat /\ top <= i /\ top >= i
    BY <2>1, <2>2, <2>3
  <2> HIDE DEF top
  <2>5. top = i
    BY <1>1, <2>4
  <2> QED BY <2>5 DEF top
<1>12. ChunkIndex(d, p) = Max(S)
  <2>1. ~(p > d.row_count)
    BY <1>1
  <2> QED BY <2>1 DEF ChunkIndex, b, first, last
<1> QED BY <1>11, <1>12

\* The column answers for every row with the row's value.
LEMMA DenseGetIs ==
    ASSUME NEW d, NEW column, NEW k, Packs(d, column, k), NEW p \in 1 .. k
    PROVE  DenseGet(d, p) = column[p]
<1>1. Aligned(d.chunks, column, k) /\ k \in Nat
  BY DEF Packs, Aligned
<1>2. PICK i \in 1 .. Len(d.chunks) : Holding(d.chunks[i], p)
  BY <1>1, SomeHolds
<1>3. ChunkIndex(d, p) = i
  BY <1>2, ChunkIndexIs
<1> DEFINE chunk == d.chunks[i]
           j == p - chunk.first
<1>4. IsChunk(chunk, column) /\ i # 0
  BY <1>1, SeqDomain DEF Aligned
<1>5. Holding(chunk, p) /\ p \in Nat
  BY <1>1, <1>2
<1>6. j \in 1 .. Len(chunk.values) /\ chunk.first + j = p /\ j <= Len(chunk.values)
  BY <1>4, <1>5 DEF IsChunk, Holding
<1>7. chunk.values[j] = column[p]
  BY <1>4, <1>6 DEF IsChunk
<1>8. DenseGet(d, p) = IF i # 0 /\ j <= Len(chunk.values) THEN chunk.values[j] ELSE Null
  BY <1>3 DEF DenseGet
<1> QED BY <1>4, <1>6, <1>7, <1>8

\* Pushing a slab of the next rows.
LEMMA PushPacks ==
    ASSUME NEW d, NEW column, NEW k, Packs(d, column, k),
           NEW values, IsSeq(values), Len(values) # 0,
           \A j \in 1 .. Len(values) : values[j] = column[k + j]
    PROVE  /\ Packs(PushChunk(d, values), column, k + Len(values))
           /\ PushChunk(d, values).remembered = NoRows
<1> DEFINE chunks == d.chunks
           lookup == d.chunk_lookup
           m == Len(chunks)
           n == BlocksOf(k)
           l == Len(values)
           n2 == BlocksOf(k + l)
           chunk == [first |-> k, values |-> values]
           more == Append(chunks, chunk)
           tail == [b \in 1 .. n2 - n |-> m + 1]
           look == lookup \o tail
           new == PushChunk(d, values)
<1>1. /\ d = [row_count |-> k, chunks |-> chunks, chunk_lookup |-> lookup,
              remembered |-> d.remembered]
      /\ Aligned(chunks, column, k) /\ LooksUp(lookup, chunks, k)
  BY DEF Packs, IsDense
<1>2. /\ IsSeq(chunks) /\ m \in Nat /\ DOMAIN chunks = 1 .. m /\ k \in Nat /\ l \in Nat \ {0}
      /\ k = EndAt(chunks, m) /\ k + l \in Nat
      /\ \A i \in 1 .. m : IsChunk(chunks[i], column) /\ chunks[i].first = EndAt(chunks, i - 1)
  BY <1>1, SeqDomain DEF Aligned
<1>3. /\ IsSeq(lookup) /\ Len(lookup) = n
      /\ \A b \in 1 .. n : lookup[b] \in 1 .. m /\ Holding(chunks[lookup[b]], StartOf(b))
  BY <1>1 DEF LooksUp
<1>4. new = [row_count |-> k + l, chunks |-> more, chunk_lookup |-> look, remembered |-> NoRows]
  <2>1. n2 = (k + l - 1) \div BlockRows + 1
    BY <1>2 DEF BlocksOf
  <2>2. Len(lookup) = n
    BY <1>3
  <2> HIDE DEF chunks, lookup, n, n2, l
  <2>3. new = NewGeneration([d EXCEPT
          !.row_count = @ + l,
          !.chunks = Append(@, [first |-> d.row_count, values |-> values]),
          !.chunk_lookup = @ \o [b \in 1 .. ((d.row_count + l - 1) \div BlockRows + 1)
                                              - Len(d.chunk_lookup) |-> Len(d.chunks) + 1]])
    BY DEF PushChunk, l
  <2>4. d.row_count = k /\ d.chunks = chunks /\ d.chunk_lookup = lookup
    BY <1>1
  <2>5. new = NewGeneration([d EXCEPT !.row_count = k + l, !.chunks = more,
                                      !.chunk_lookup = look])
    BY ONLY <2>1, <2>2, <2>3, <2>4
  <2> HIDE DEF look, more, new
  <2> QED BY <1>1, <2>5 DEF NewGeneration
<1>5. n \in Nat /\ n2 \in Nat /\ n <= n2
  <2>1. n \in Nat /\ n2 \in Nat
    BY <1>2, BlocksAre
  <2>2. CASE n = 0
    BY <2>1, <2>2
  <2>3. CASE n # 0
    <3>1. n \in Nat \ {0} /\ n <= n
      BY <2>1, <2>3
    <3>2. StartOf(n) <= k /\ StartOf(n) \in Nat
      BY <1>2, <3>1, BlocksAre
    <3>3. StartOf(n) <= k + l
      BY <1>2, <3>2
    <3> QED BY <1>2, <2>1, <3>1, <3>3, BlocksAre
  <2> QED BY <2>1, <2>2, <2>3
<1>6. IsChunk(chunk, column)
  BY <1>2 DEF IsChunk
<1> HIDE DEF chunks, lookup, m, n, n2, l, new
<1>7. /\ IsSeq(more) /\ Len(more) = m + 1 /\ more[m + 1] = chunk
      /\ \A i \in 1 .. m : more[i] = chunks[i]
  <2>1. IsSeq(more) /\ Len(more) = m + 1
    BY <1>2, SeqAppend DEF m
  <2>2. chunks \in Seq(ToSet(chunks))
    BY <1>2 DEF IsSeq
  <2> QED BY <1>2, <2>1, <2>2 DEF m
<1>8. /\ IsSeq(look) /\ Len(look) = n2
      /\ \A b \in 1 .. n : look[b] = lookup[b]
      /\ \A b \in n + 1 .. n2 : look[b] = m + 1
  <2> DEFINE q == n2 - n
  <2>1. q \in Nat /\ n + q = n2
    BY <1>5
  <2>2. DOMAIN tail = 1 .. q /\ tail = [b \in 1 .. q |-> tail[b]] /\ \A b \in 1 .. q : tail[b] = m + 1
    OBVIOUS
  <2> HIDE DEF tail, q
  <2>3. IsSeq(tail) /\ Len(tail) = q
    BY <2>1, <2>2, SeqIsFunction
  <2>4. IsSeq(look) /\ Len(look) = Len(lookup) + Len(tail) /\ Continues(look, lookup)
        /\ \A b \in Len(lookup) + 1 .. Len(look) : b - Len(lookup) \in DOMAIN tail
                                                 /\ look[b] = tail[b - Len(lookup)]
    <3>1. IsSeq(lookup) /\ IsSeq(tail)
      BY <1>3, <2>3
    <3> HIDE DEF look
    <3>2. look = lookup \o tail
      BY DEF look
    <3> QED BY <3>1, <3>2, SeqConcat, ConcatPlaces
  <2>5. Len(look) = n2
    BY <1>3, <2>1, <2>3, <2>4
  <2> HIDE DEF look
  <2> QED BY <1>3, <2>2, <2>4, <2>5 DEF Continues
<1> HIDE DEF more, look, chunk, tail
<1>9. Aligned(more, column, k + l)
  <2>1. \A i \in 0 .. m : EndAt(more, i) = EndAt(chunks, i)
    BY <1>2, <1>7 DEF EndAt
  <2>2. EndAt(more, m + 1) = k + l
    BY <1>2, <1>7 DEF EndAt, chunk, l
  <2>3. ASSUME NEW i \in 1 .. m + 1
        PROVE  IsChunk(more[i], column) /\ more[i].first = EndAt(more, i - 1)
    <3>1. CASE i <= m
      <4>1. i \in 1 .. m /\ i - 1 \in 0 .. m
        BY <1>2, <3>1
      <4> QED BY <1>2, <1>7, <2>1, <4>1
    <3>2. CASE ~(i <= m)
      <4>0. m \in Nat /\ i \in 1 .. m + 1 /\ ~(i <= m)
        BY <1>2, <3>2
      <4>1. i = m + 1 /\ i - 1 = m /\ m \in 0 .. m
        BY ONLY <4>0
      <4>2. more[i].first = k
        BY <1>7, <4>1 DEF chunk
      <4> QED BY <1>2, <1>6, <1>7, <2>1, <4>1, <4>2
    <3> QED BY <3>1, <3>2
  <2> QED BY <1>2, <1>7, <2>2, <2>3 DEF Aligned
<1>10. LooksUp(look, more, k + l)
  <2>1. ASSUME NEW b \in 1 .. n2
        PROVE  look[b] \in 1 .. m + 1 /\ Holding(more[look[b]], StartOf(b))
    <3>1. CASE b <= n
      <4>1. b \in 1 .. n
        BY <1>5, <3>1
      <4>2. look[b] = lookup[b] /\ lookup[b] \in 1 .. m /\ Holding(chunks[lookup[b]], StartOf(b))
        BY <1>3, <1>8, <4>1
      <4> QED BY <1>2, <1>7, <4>2
    <3>2. CASE ~(b <= n)
      <4>1. b \in n + 1 .. n2 /\ b \in Nat \ {0}
        BY <1>5, <3>2
      <4>2. look[b] = m + 1 /\ m + 1 \in 1 .. m + 1 /\ more[m + 1] = chunk
        BY <1>2, <1>7, <1>8, <4>1
      <4>3. ~(StartOf(b) <= k) /\ StartOf(b) \in Nat
        BY <1>2, <3>2, <4>1, BlocksAre DEF n
      <4>4. StartOf(b) <= k + l
        <5>1. PICK to : to = k + l
          OBVIOUS
        <5>2. to \in Nat /\ n2 = BlocksOf(to) /\ n2 \in Nat /\ b <= n2
          BY <1>2, <1>5, <4>1, <5>1 DEF n2
        <5>3. b <= BlocksOf(to) <=> StartOf(b) <= to
          BY <4>1, <5>2, BlocksAre
        <5> QED BY ONLY <5>1, <5>2, <5>3
      <4>5. Holding(chunk, StartOf(b))
        BY <1>2, <4>3, <4>4 DEF Holding, chunk, l
      <4> QED BY <4>2, <4>5
    <3> QED BY <3>1, <3>2
  <2> QED BY <1>7, <1>8, <2>1 DEF LooksUp, n2
<1>11. /\ IsDense(new) /\ new.row_count = k + l /\ new.chunks = more /\ new.chunk_lookup = look
       /\ new.remembered = NoRows
  BY ONLY <1>4 DEF IsDense
<1>12. Packs(new, column, k + l) /\ new.remembered = NoRows
  BY <1>9, <1>10, <1>11 DEF Packs
<1> QED BY <1>12 DEF new, l

\* Where the i-th piece of n values ends.
CutAt(n, size, i) == IF i * size <= n THEN i * size ELSE n

LEMMA CutBound ==
    ASSUME NEW n \in Nat, NEW size \in Nat, NEW i \in Nat
    PROVE  CutAt(n, size, i) \in Nat /\ CutAt(n, size, i) <= n
<1> DEFINE x == i * size
<1>1. x \in Nat
  OBVIOUS
<1>2. CutAt(n, size, i) = IF x <= n THEN x ELSE n
  BY DEF CutAt
<1> HIDE DEF x
<1> QED BY <1>1, <1>2

\* The number of pieces.
IsCount(m, n, size) == m = (n + size - 1) \div size

Cuts(m, n, size) ==
    /\ m \in Nat /\ CutAt(n, size, 0) = 0 /\ CutAt(n, size, m) = n
    /\ \A i \in 1 .. m : /\ CutAt(n, size, i - 1) = (i - 1) * size
                         /\ CutAt(n, size, i - 1) < CutAt(n, size, i)
                         /\ CutAt(n, size, i) = Min({i * size, n})

LEMMA CutsAre ==
    ASSUME NEW n \in Nat, NEW size \in Nat \ {0}, NEW m, IsCount(m, n, size)
    PROVE  Cuts(m, n, size)
<1> DEFINE t == n + size - 1
<1>1. t \in Nat /\ m = t \div size
  BY DEF IsCount
<1> HIDE DEF t
<1>2. m \in Nat
  BY <1>1, DivIs
<1>3. ASSUME NEW i \in Nat PROVE i * size \in Nat /\ (i + 1) * size = i * size + size
  OBVIOUS
<1>5. CutAt(n, size, 0) = 0
  <2>1. 0 * size = 0
    OBVIOUS
  <2> QED BY <2>1 DEF CutAt
<1>6. CutAt(n, size, m) = n
  <2> DEFINE x == m * size
             y == (m + 1) * size
  <2>1. x \in Nat /\ y = x + size
    BY <1>2, <1>3
  <2>2. ~(m + 1 <= m) /\ m + 1 \in Nat
    BY <1>2
  <2>3. ~(y <= t)
    BY <1>1, <2>2, DivAtLeast
  <2>4. CutAt(n, size, m) = IF x <= n THEN x ELSE n
    BY DEF CutAt
  <2> HIDE DEF x, y
  <2>5. x >= n
    BY <2>1, <2>3 DEF t
  <2> QED BY <2>1, <2>4, <2>5
<1>7. ASSUME NEW i \in 1 .. m
      PROVE  /\ CutAt(n, size, i - 1) = (i - 1) * size
             /\ CutAt(n, size, i - 1) < CutAt(n, size, i)
             /\ CutAt(n, size, i) = Min({i * size, n})
  <2> DEFINE j == i - 1
             x == j * size
             y == i * size
             T == {y, n}
  <2>1. j \in Nat /\ i = j + 1 /\ i \in Nat /\ i <= m
    BY <1>2
  <2>2. x \in Nat /\ y = x + size /\ y \in Nat
    BY <1>3, <2>1
  <2>3. y <= t
    BY <1>1, <2>1, DivAtLeast
  <2>4. CutAt(n, size, j) = IF x <= n THEN x ELSE n
    BY DEF CutAt
  <2>5. CutAt(n, size, i) = IF y <= n THEN y ELSE n
    BY DEF CutAt
  <2>6. Min(T) \in T /\ \A z \in T : Min(T) <= z
    <3>1. T \in SUBSET Nat /\ T # {}
      BY <2>2
    <3> HIDE DEF T
    <3> QED BY <3>1, SmallestPlace
  <2> HIDE DEF x, y, j
  <2>7. x + 1 <= n
    BY <2>2, <2>3 DEF t
  <2>8. CutAt(n, size, j) = x /\ x < CutAt(n, size, i)
    BY <2>2, <2>4, <2>5, <2>7
  <2>9. Min(T) = IF y <= n THEN y ELSE n
    BY <2>2, <2>6
  <2> QED BY <2>5, <2>8, <2>9 DEF x, y, j
<1> QED BY <1>2, <1>5, <1>6, <1>7 DEF Cuts

\* The pieces are the values, cut at these places.
CutInto(pieces, values, n, size) ==
    /\ IsSeq(pieces) /\ CutAt(n, size, 0) = 0 /\ CutAt(n, size, Len(pieces)) = n
    /\ \A i \in 1 .. Len(pieces) :
          /\ CutAt(n, size, i - 1) \in Nat
          /\ IsSeq(pieces[i]) /\ Len(pieces[i]) # 0 /\ Len(pieces[i]) \in Nat
          /\ CutAt(n, size, i - 1) + Len(pieces[i]) = CutAt(n, size, i)
          /\ \A j \in 1 .. Len(pieces[i]) : pieces[i][j] = values[CutAt(n, size, i - 1) + j]

LEMMA PiecesAre ==
    ASSUME NEW values, IsSeq(values), NEW size \in Nat \ {0},
           NEW n, n = Len(values), NEW pieces, pieces = Pieces(values, size)
    PROVE  CutInto(pieces, values, n, size)
<1>0. PICK m : IsCount(m, n, size)
  BY DEF IsCount
<1>1. n \in Nat /\ DOMAIN values = 1 .. n /\ values \in Seq(ToSet(values))
      /\ \A i \in 1 .. n : values[i] \in ToSet(values)
  BY SeqDomain DEF IsSeq
<1>2. /\ m \in Nat /\ CutAt(n, size, 0) = 0 /\ CutAt(n, size, m) = n
      /\ \A i \in Nat : CutAt(n, size, i) \in Nat /\ CutAt(n, size, i) <= n
      /\ \A i \in 1 .. m : /\ CutAt(n, size, i - 1) = (i - 1) * size
                           /\ CutAt(n, size, i - 1) < CutAt(n, size, i)
                           /\ CutAt(n, size, i) = Min({i * size, n})
  <2>1. Cuts(m, n, size)
    BY <1>0, <1>1, CutsAre
  <2>2. \A i \in Nat : CutAt(n, size, i) \in Nat /\ CutAt(n, size, i) <= n
    BY <1>1, CutBound
  <2> QED BY <2>1, <2>2 DEF Cuts
<1> DEFINE Cut(i) == CutAt(n, size, i)
<1>3. /\ pieces = [i \in 1 .. m |-> pieces[i]] /\ DOMAIN pieces = 1 .. m
      /\ \A i \in 1 .. m : pieces[i] = SubSeq(values, (i - 1) * size + 1, Min({i * size, n}))
  BY <1>0 DEF Pieces, IsCount
<1>4. IsSeq(pieces) /\ Len(pieces) = m
  BY <1>2, <1>3, SeqIsFunction
<1>5. ASSUME NEW i \in 1 .. m
      PROVE  /\ Cut(i - 1) \in Nat
             /\ IsSeq(pieces[i]) /\ Len(pieces[i]) # 0 /\ Len(pieces[i]) \in Nat
             /\ Cut(i - 1) + Len(pieces[i]) = Cut(i)
             /\ \A j \in 1 .. Len(pieces[i]) : pieces[i][j] = values[Cut(i - 1) + j]
  <2> DEFINE a == Cut(i - 1)
             z == Cut(i)
             s == pieces[i]
  <2>1. pieces[i] = SubSeq(values, a + 1, z)
    BY <1>2, <1>3
  <2>2. a \in Nat /\ z \in Nat /\ z <= n /\ a < z
    <3>1. i - 1 \in Nat /\ i \in Nat
      BY <1>2
    <3> QED BY <1>2, <3>1
  <2> HIDE DEF a, z, Cut
  <2> DEFINE l == a + 1
  <2>3. l \in Int /\ z \in Int /\ l <= z /\ z - l + 1 = z - a
        /\ \A j \in l .. z : values[j] \in ToSet(values)
    BY <1>1, <2>2
  <2> HIDE DEF l, s
  <2>4. /\ SubSeq(values, l, z) \in Seq(ToSet(values))
        /\ Len(SubSeq(values, l, z)) = z - a
        /\ \A j \in 1 .. z - l + 1 : SubSeq(values, l, z)[j] = values[l + j - 1]
    BY <2>3, SubSeqProperties
  <2>5. s = SubSeq(values, l, z)
    BY <2>1 DEF l, s
  <2>6. IsSeq(s) /\ Len(s) = z - a
    BY <2>4, <2>5, SeqIs
  <2>7. \A j \in 1 .. Len(s) : s[j] = values[a + j]
    <3> TAKE j \in 1 .. Len(s)
    <3>1. j \in 1 .. z - l + 1 /\ l + j - 1 = a + j
      BY <2>2, <2>3, <2>6 DEF l
    <3>2. s[j] = values[l + j - 1]
      BY <2>4, <2>5, <3>1
    <3> QED BY <3>1, <3>2
  <2>8. Len(s) # 0 /\ Len(s) \in Nat /\ a + Len(s) = z
    BY <2>2, <2>6
  <2> QED BY <2>2, <2>6, <2>7, <2>8 DEF a, z, s
<1> QED BY <1>2, <1>4, <1>5 DEF CutInto

\* Appending the next values, cut into slabs.
LEMMA AppendPacks ==
    ASSUME NEW d, NEW column, NEW k, Packs(d, column, k),
           NEW values, IsSeq(values), \A j \in 1 .. Len(values) : values[j] = column[k + j]
    PROVE  /\ Packs(AppendRows(d, values), column, k + Len(values))
           /\ AppendRows(d, values).remembered = IF Len(values) = 0 THEN d.remembered ELSE NoRows
           /\ Len(values) = 0 => AppendRows(d, values) = d
<1>0. PICK n, size, pieces, m : /\ n = Len(values) /\ size = SlabRows
                                /\ pieces = Pieces(values, size) /\ m = Len(pieces)
  OBVIOUS
<1>1. size \in Nat \ {0} /\ k \in Nat /\ n \in Nat
  BY <1>0, SeqDomain, TableStoreAssumption DEF TableStoreAssumption, Packs, Aligned
<1>2. /\ IsSeq(pieces) /\ CutAt(n, size, 0) = 0 /\ CutAt(n, size, m) = n
      /\ \A i \in 1 .. m :
            /\ CutAt(n, size, i - 1) \in Nat
            /\ IsSeq(pieces[i]) /\ Len(pieces[i]) # 0 /\ Len(pieces[i]) \in Nat
            /\ CutAt(n, size, i - 1) + Len(pieces[i]) = CutAt(n, size, i)
            /\ \A j \in 1 .. Len(pieces[i]) : pieces[i][j] = values[CutAt(n, size, i - 1) + j]
  <2>1. CutInto(pieces, values, n, size)
    BY <1>0, <1>1, PiecesAre
  <2>2. m = Len(pieces)
    BY <1>0
  <2> QED BY ONLY <2>1, <2>2 DEF CutInto
<1> DEFINE Cut(i) == CutAt(n, size, i)
           o == [kind |-> "push"]
<1>3. m \in Nat
  BY <1>0, <1>2, SeqDomain
<1>4. PICK f : Runs(o, d, pieces, f, m) /\ AppendRows(d, values) = f[m]
  <2> HIDE DEF o, Cut
  <2>1. pieces = Pieces(values, SlabRows) /\ IsSeq(pieces) /\ o = [kind |-> "push"]
    BY <1>0, <1>2 DEF o
  <2>2. \E f : Runs(o, d, pieces, f, Len(pieces)) /\ AppendRows(d, values) = f[Len(pieces)]
    BY <2>1, PushRuns
  <2> QED BY <1>0, <2>2
<1>5. f[0] = d /\ \A i \in 1 .. m : f[i] = PushChunk(f[i - 1], pieces[i])
  <2>1. o.kind = "push"
    OBVIOUS
  <2> HIDE DEF o
  <2>2. \A v, x : Step(o, v, x) = PushChunk(v, x)
    BY ONLY <2>1 DEF Step
  <2> QED BY <1>4, <2>2 DEF Runs
<1> HIDE DEF o
<1> DEFINE N == {i \in Nat : i <= m => /\ Cut(i) \in Nat /\ Cut(i) <= n
                                       /\ Packs(f[i], column, k + Cut(i))
                                       /\ f[i].remembered = IF i = 0 THEN d.remembered ELSE NoRows
                                       /\ i # 0 => Cut(i) # 0}
<1>6. \A i \in 1 .. m : Cut(i) <= n /\ Cut(i) \in Nat
  <2> TAKE i \in 1 .. m
  <2>1. i \in Nat
    BY <1>3
  <2> QED BY <1>1, <2>1, CutBound
<1> HIDE DEF Cut
<1>7. 0 \in N
  <2>1. Cut(0) = 0
    BY <1>2 DEF Cut
  <2> QED BY <1>1, <1>5, <2>1
<1>8. ASSUME NEW i \in N PROVE i + 1 \in N
  <2> SUFFICES ASSUME i + 1 <= m
               PROVE  /\ Cut(i + 1) \in Nat /\ Cut(i + 1) <= n
                      /\ Packs(f[i + 1], column, k + Cut(i + 1))
                      /\ f[i + 1].remembered = NoRows
                      /\ Cut(i + 1) # 0
    BY <1>3
  <2> DEFINE piece == pieces[i + 1]
             at == k + Cut(i)
  <2>1. i + 1 \in 1 .. m /\ i + 1 - 1 = i /\ i <= m /\ i \in Nat
    BY <1>3
  <2>2. /\ Cut(i) \in Nat /\ IsSeq(piece) /\ Len(piece) # 0 /\ Len(piece) \in Nat
        /\ Cut(i) + Len(piece) = Cut(i + 1)
        /\ \A j \in 1 .. Len(piece) : piece[j] = values[Cut(i) + j]
    BY <1>2, <2>1 DEF Cut
  <2>3. Cut(i + 1) <= n /\ Cut(i + 1) \in Nat
    BY <1>6, <2>1
  <2>4. f[i + 1] = PushChunk(f[i], piece) /\ Packs(f[i], column, at)
    BY <1>5, <2>1
  <2>5. \A j \in 1 .. Len(piece) : piece[j] = column[at + j]
    <3> TAKE j \in 1 .. Len(piece)
    <3>1. Cut(i) + j \in 1 .. n /\ k + (Cut(i) + j) = at + j
      <4>1. PICK x, l, y : x = Cut(i) /\ l = Len(piece) /\ y = Cut(i + 1)
        OBVIOUS
      <4>2. /\ k \in Nat /\ n \in Nat /\ x \in Nat /\ l \in Nat /\ j \in 1 .. l
            /\ x + l = y /\ y \in Nat /\ y <= n
        BY ONLY <1>1, <2>2, <2>3, <4>1, j \in 1 .. Len(piece)
      <4>3. x + j \in 1 .. n /\ k + (x + j) = k + x + j
        BY ONLY <4>2
      <4> QED BY ONLY <4>1, <4>3 DEF at
    <3>2. values[Cut(i) + j] = column[k + (Cut(i) + j)]
      BY <1>0, <3>1
    <3> QED BY <2>2, <3>1, <3>2
  <2>6. at + Len(piece) = k + Cut(i + 1) /\ Cut(i + 1) # 0
    BY <1>1, <2>2, <2>3
  <2> HIDE DEF at, piece
  <2> QED BY <2>2, <2>3, <2>4, <2>5, <2>6, PushPacks
<1>9. N = Nat
  <2> HIDE DEF N
  <2>1. N \in SUBSET Nat
    BY DEF N
  <2> QED BY <1>7, <1>8, <2>1, NaturalSets
<1>10. /\ Packs(f[m], column, k + Cut(m)) /\ (m # 0 => Cut(m) # 0)
       /\ f[m].remembered = IF m = 0 THEN d.remembered ELSE NoRows
  BY <1>3, <1>9
<1>11. Cut(0) = 0 /\ Cut(m) = n /\ (m = 0 <=> n = 0)
  BY <1>2, <1>10 DEF Cut
<1>12. m = 0 => f[m] = d
  BY <1>5
<1> QED BY <1>0, <1>4, <1>10, <1>11, <1>12

LEMMA EmptyPacks ==
    ASSUME NEW column
    PROVE  Packs(EmptyDense, column, 0) /\ EmptyDense.remembered = NoRows
<1>1. /\ EmptyDense.row_count = 0 /\ EmptyDense.chunks = <<>> /\ EmptyDense.chunk_lookup = <<>>
      /\ EmptyDense.remembered = NoRows /\ IsDense(EmptyDense)
  BY DEF EmptyDense, IsDense
<1>2. IsSeq(<<>>) /\ Len(<<>>) = 0
  BY SeqNone
<1>3. Aligned(<<>>, column, 0)
  BY <1>2 DEF Aligned, EndAt
<1>4. LooksUp(<<>>, <<>>, 0)
  BY <1>2 DEF LooksUp, BlocksOf
<1> QED BY <1>1, <1>3, <1>4 DEF Packs

\* A load packs the values in batches, each cut into slabs.
LEMMA LoadPacks ==
    ASSUME NEW values, IsSeq(values)
    PROVE  /\ Packs(LoadedDense(values), values, Len(values))
           /\ LoadedDense(values).remembered = NoRows
<1>0. PICK n, size, pieces, m : /\ n = Len(values) /\ size = LoadRows
                                /\ pieces = Pieces(values, size) /\ m = Len(pieces)
  OBVIOUS
<1>1. size \in Nat \ {0} /\ n \in Nat
  BY <1>0, SeqDomain, TableStoreAssumption DEF TableStoreAssumption
<1>2. CutInto(pieces, values, n, size)
  BY <1>0, <1>1, PiecesAre
<1>3. /\ m \in Nat /\ IsSeq(pieces) /\ CutAt(n, size, 0) = 0 /\ CutAt(n, size, m) = n
      /\ \A i \in 1 .. m :
            /\ CutAt(n, size, i - 1) \in Nat
            /\ IsSeq(pieces[i]) /\ Len(pieces[i]) # 0 /\ Len(pieces[i]) \in Nat
            /\ CutAt(n, size, i - 1) + Len(pieces[i]) = CutAt(n, size, i)
            /\ \A j \in 1 .. Len(pieces[i]) : pieces[i][j] = values[CutAt(n, size, i - 1) + j]
  <2>1. m = Len(pieces)
    BY <1>0
  <2>2. m \in Nat
    BY <1>2, <2>1, SeqDomain DEF CutInto
  <2> QED BY ONLY <1>2, <2>1, <2>2 DEF CutInto
<1> DEFINE Cut(i) == CutAt(n, size, i)
           o == [kind |-> "append"]
<1>4. PICK f : Runs(o, EmptyDense, pieces, f, m) /\ LoadedDense(values) = f[m]
  <2> HIDE DEF o, Cut
  <2>1. pieces = Pieces(values, LoadRows) /\ IsSeq(pieces) /\ o = [kind |-> "append"]
    BY <1>0, <1>3 DEF o
  <2>2. \E f : Runs(o, EmptyDense, pieces, f, Len(pieces)) /\ LoadedDense(values) = f[Len(pieces)]
    BY <2>1, LoadRuns
  <2> QED BY <1>0, <2>2
<1>5. f[0] = EmptyDense /\ \A i \in 1 .. m : f[i] = AppendRows(f[i - 1], pieces[i])
  <2>1. o.kind = "append"
    OBVIOUS
  <2> HIDE DEF o
  <2>2. \A v, x : Step(o, v, x) = AppendRows(v, x)
    BY ONLY <2>1 DEF Step
  <2> QED BY <1>4, <2>2 DEF Runs
<1> HIDE DEF o, Cut
<1> DEFINE N == {i \in Nat : i <= m => /\ Packs(f[i], values, Cut(i))
                                       /\ f[i].remembered = NoRows}
<1>6. 0 \in N
  <2>1. Cut(0) = 0
    BY <1>3 DEF Cut
  <2> QED BY <1>5, <2>1, EmptyPacks
<1>7. ASSUME NEW i \in N PROVE i + 1 \in N
  <2> SUFFICES ASSUME i + 1 <= m
               PROVE  Packs(f[i + 1], values, Cut(i + 1)) /\ f[i + 1].remembered = NoRows
    BY <1>3
  <2> DEFINE piece == pieces[i + 1]
             at == Cut(i)
  <2>1. i + 1 \in 1 .. m /\ i + 1 - 1 = i /\ i <= m /\ i \in Nat
    BY <1>3
  <2>2. /\ IsSeq(piece) /\ Len(piece) # 0
        /\ Cut(i) + Len(piece) = Cut(i + 1)
        /\ \A j \in 1 .. Len(piece) : piece[j] = values[Cut(i) + j]
    <3>1. PICK k : k = i + 1
      OBVIOUS
    <3>2. k \in 1 .. m /\ k - 1 = i
      BY ONLY <2>1, <3>1
    <3>3. /\ IsSeq(pieces[k]) /\ Len(pieces[k]) # 0
          /\ CutAt(n, size, k - 1) + Len(pieces[k]) = CutAt(n, size, k)
          /\ \A j \in 1 .. Len(pieces[k]) : pieces[k][j] = values[CutAt(n, size, k - 1) + j]
      BY ONLY <1>3, <3>2
    <3> QED BY ONLY <3>1, <3>2, <3>3 DEF Cut, piece
  <2>3. f[i + 1] = AppendRows(f[i], piece) /\ Packs(f[i], values, at)
    BY <1>5, <2>1
  <2>4. at = Cut(i)
    OBVIOUS
  <2> HIDE DEF at, piece
  <2>5. /\ Packs(AppendRows(f[i], piece), values, at + Len(piece))
        /\ AppendRows(f[i], piece).remembered = IF Len(piece) = 0 THEN f[i].remembered ELSE NoRows
    BY <2>2, <2>3, <2>4, AppendPacks
  <2> QED BY <2>2, <2>3, <2>4, <2>5
<1>8. N = Nat
  <2> HIDE DEF N
  <2>1. N \in SUBSET Nat
    BY DEF N
  <2> QED BY <1>6, <1>7, <2>1, NaturalSets
<1> HIDE DEF N
<1>9. Packs(f[m], values, Cut(m)) /\ f[m].remembered = NoRows
  <2>1. m \in N /\ m <= m
    BY <1>3, <1>8
  <2> QED BY <2>1 DEF N
<1> QED BY <1>0, <1>3, <1>4, <1>9 DEF Cut

\* Packing the changed slabs again gives the changed column.
LEMMA RepackPacks ==
    ASSUME NEW c, NEW rows, IsSeq(rows), NEW updates, DOMAIN updates \subseteq DOMAIN rows,
           NEW d, Packs(d, ColumnOf(rows, c), Len(rows)),
           NEW replaced, replaced = Replaced(rows, updates), IsSeq(replaced),
           Len(replaced) = Len(rows),
           NEW new, new = RepackChunks(d, c, rows, updates, replaced)
    PROVE  /\ Packs(new, ColumnOf(replaced, c), Len(rows))
           /\ new.remembered = d.remembered
<1> DEFINE n == Len(rows)
           old == ColumnOf(rows, c)
           column == ColumnOf(replaced, c)
           chunks == d.chunks
           m == Len(chunks)
           changed == {ChunkIndex(d, p) : p \in {q \in DOMAIN updates : rows[q][c] # updates[q][c]}}
           Packed(i) == SubSeq(column, chunks[i].first + 1, chunks[i].first + Len(chunks[i].values))
           again == [i \in DOMAIN chunks |->
                        IF i \in changed THEN [chunks[i] EXCEPT !.values = Packed(i)] ELSE chunks[i]]
<1>1. /\ d = [row_count |-> n, chunks |-> chunks, chunk_lookup |-> d.chunk_lookup,
              remembered |-> d.remembered]
      /\ Aligned(chunks, old, n) /\ LooksUp(d.chunk_lookup, chunks, n)
  BY DEF Packs, IsDense
<1>2. new = [d EXCEPT !.chunks = again]
  BY DEF RepackChunks
<1>3. /\ IsSeq(chunks) /\ m \in Nat /\ DOMAIN chunks = 1 .. m /\ n \in Nat /\ n = EndAt(chunks, m)
      /\ \A i \in 1 .. m : IsChunk(chunks[i], old) /\ chunks[i].first = EndAt(chunks, i - 1)
  BY <1>1, SeqDomain DEF Aligned
<1>4. DOMAIN rows = 1 .. n /\ DOMAIN replaced = 1 .. n
  BY SeqDomain
<1>5. \A p \in 1 .. n : /\ old[p] = rows[p][c]
                        /\ column[p] = IF p \in DOMAIN updates THEN updates[p][c] ELSE rows[p][c]
  BY <1>4 DEF ColumnOf, Replaced
<1>6. IsSeq(column) /\ Len(column) = n
  <2>1. column = [p \in 1 .. n |-> replaced[p][c]] /\ DOMAIN column = 1 .. n
    BY <1>4 DEF ColumnOf
  <2> HIDE DEF column
  <2>2. column = [p \in 1 .. n |-> column[p]]
    BY <2>1
  <2> QED BY <1>3, <2>1, <2>2, SeqIsFunction
<1> HIDE DEF column
<1>7. DOMAIN again = 1 .. m /\ again = [i \in 1 .. m |-> again[i]]
      /\ \A i \in 1 .. m : again[i] = IF i \in changed THEN [chunks[i] EXCEPT !.values = Packed(i)]
                                      ELSE chunks[i]
  BY <1>3
<1> HIDE DEF again
<1>8. IsSeq(again) /\ Len(again) = m
  BY <1>3, <1>7, SeqIsFunction
<1> HIDE DEF chunks, m, old, changed, n
<1>9. ASSUME NEW i \in 1 .. m
      PROVE  /\ IsChunk(again[i], column) /\ again[i].first = chunks[i].first
             /\ Len(again[i].values) = Len(chunks[i].values)
  <2> DEFINE first == chunks[i].first
             values == chunks[i].values
             l == Len(values)
  <2>1. /\ chunks[i] = [first |-> first, values |-> values]
        /\ first \in Nat /\ IsSeq(values) /\ l \in Nat \ {0}
        /\ \A j \in 1 .. l : values[j] = old[first + j]
    BY <1>3 DEF IsChunk
  <2>2. first + l <= n
    <3>1. i \in Nat /\ i <= m /\ m \in Nat /\ m <= m /\ i # 0
      BY <1>3
    <3>2. m = Len(chunks) /\ EndAt(chunks, i) <= EndAt(chunks, m)
      BY <1>1, <3>1, EndsRise DEF m
    <3>3. EndAt(chunks, i) = first + l
      BY <3>1 DEF EndAt
    <3> QED BY <1>3, <3>2, <3>3
  <2>3. CASE i \in changed
    <3> DEFINE a == first + 1
               z == first + l
               s == SubSeq(column, a, z)
    <3>1. a \in Int /\ z \in Int /\ a <= z /\ z - a + 1 = l
          /\ \A j \in a .. z : column[j] \in ToSet(column)
      <4>1. a \in Int /\ z \in Int /\ a <= z /\ z - a + 1 = l
        BY <2>1
      <4>2. \A j \in a .. z : j \in 1 .. n
        BY <1>3, <2>1, <2>2
      <4>3. \A j \in 1 .. n : column[j] \in ToSet(column)
        BY <1>6, SeqDomain
      <4> QED BY <4>1, <4>2, <4>3
    <3> HIDE DEF a, z
    <3>2. /\ s \in Seq(ToSet(column)) /\ Len(s) = l
          /\ \A j \in 1 .. l : s[j] = column[a + j - 1]
      BY <3>1, SubSeqProperties
    <3>3. IsSeq(s) /\ \A j \in 1 .. l : s[j] = column[first + j]
      <4>1. \A j \in 1 .. l : a + j - 1 = first + j
        BY <2>1 DEF a
      <4> QED BY <3>2, <4>1, SeqIs
    <3>4. again[i] = [chunks[i] EXCEPT !.values = s]
      BY <1>7, <2>3 DEF a, z
    <3> HIDE DEF s, first, values, l
    <3>5. again[i] = [first |-> first, values |-> s]
      BY <2>1, <3>4
    <3>6. IsChunk(again[i], column) /\ again[i].first = first /\ Len(again[i].values) = l
      <4>1. again[i].first = first /\ again[i].values = s
        BY ONLY <3>5
      <4> QED BY <2>1, <3>2, <3>3, <3>5, <4>1 DEF IsChunk
    <3> QED BY <3>6 DEF first, values, l
  <2>4. CASE i \notin changed
    <3>1. again[i] = chunks[i]
      BY <1>7, <2>4
    <3>2. \A j \in 1 .. l : old[first + j] = column[first + j]
      <4> TAKE j \in 1 .. l
      <4> DEFINE p == first + j
      <4>1. p \in 1 .. n /\ first < p /\ p <= first + l
        BY <1>3, <2>1, <2>2
      <4>2. Holding(chunks[i], p)
        BY <4>1 DEF Holding
      <4> HIDE DEF p
      <4>3. ChunkIndex(d, p) = i
        BY <4>1, <4>2, ChunkIndexIs DEF n, old, chunks, m
      <4>4. ~(p \in DOMAIN updates /\ rows[p][c] # updates[p][c])
        BY <2>4, <4>3 DEF changed
      <4>5. old[p] = column[p]
        BY <1>5, <4>1, <4>4
      <4> QED BY <4>5 DEF p
    <3> QED BY <2>1, <3>1, <3>2 DEF IsChunk
  <2> QED BY <2>3, <2>4
<1>10. \A i \in 0 .. m : EndAt(again, i) = EndAt(chunks, i)
  <2> TAKE i \in 0 .. m
  <2>1. i # 0 => i \in 1 .. m
    BY <1>3
  <2> QED BY <1>9, <2>1 DEF EndAt
<1>11. Aligned(again, column, n)
  <2>1. m \in 0 .. m /\ \A i \in 1 .. m : i - 1 \in 0 .. m
    BY <1>3
  <2>2. n = EndAt(again, m)
    BY <1>3, <1>10, <2>1
  <2>3. \A i \in 1 .. m : IsChunk(again[i], column) /\ again[i].first = EndAt(again, i - 1)
    BY <1>3, <1>9, <1>10, <2>1
  <2> QED BY <1>3, <1>8, <2>2, <2>3 DEF Aligned
<1>12. LooksUp(d.chunk_lookup, again, n)
  <2>1. \A i \in 1 .. m : \A p : Holding(chunks[i], p) <=> Holding(again[i], p)
    BY <1>9 DEF Holding
  <2>2. m = Len(chunks)
    BY DEF m
  <2> QED BY <1>1, <1>8, <2>1, <2>2 DEF LooksUp
<1>13. new = [row_count |-> n, chunks |-> again, chunk_lookup |-> d.chunk_lookup,
              remembered |-> d.remembered]
  BY <1>1, <1>2
<1>14. /\ IsDense(new) /\ new.row_count = n /\ new.chunks = again
       /\ new.chunk_lookup = d.chunk_lookup /\ new.remembered = d.remembered
  BY ONLY <1>13 DEF IsDense
<1> QED BY <1>11, <1>12, <1>14 DEF Packs, n, column

\* The rows up to a place that are not deleted.
Left(x, deleted) == Cardinality((1 .. x) \ deleted)

LEMMA LeftAre ==
    ASSUME NEW x \in Nat, NEW y \in Nat, x <= y, NEW deleted
    PROVE  /\ Left(x, deleted) \in Nat /\ Left(y, deleted) \in Nat
           /\ Left(x, deleted) <= Left(y, deleted)
           /\ Cardinality(deleted \cap (x + 1 .. y)) \in Nat
           /\ Left(y, deleted) + Cardinality(deleted \cap (x + 1 .. y))
                = Left(x, deleted) + (y - x)
<1> DEFINE A == (1 .. x) \ deleted
           B == (x + 1 .. y) \ deleted
           C == deleted \cap (x + 1 .. y)
           I == x + 1 .. y
<1>1. IsFiniteSet(1 .. x) /\ IsFiniteSet(I) /\ Cardinality(I) = y - x
  <2>1. 1 \in Int /\ x \in Int /\ y \in Int /\ x + 1 \in Int
    OBVIOUS
  <2>2. IsFiniteSet(1 .. x) /\ IsFiniteSet(I)
        /\ Cardinality(I) = IF x + 1 > y THEN 0 ELSE y - (x + 1) + 1
    BY <2>1, FS_Interval
  <2>3. (IF x + 1 > y THEN 0 ELSE y - (x + 1) + 1) = y - x
    OBVIOUS
  <2> QED BY <2>2, <2>3
<1>2. /\ A \cup B = (1 .. y) \ deleted /\ A \cap B = {}
      /\ B \cup C = I /\ B \cap C = {}
      /\ A \subseteq 1 .. x /\ B \subseteq I /\ C \subseteq I
  <2>1. \A p \in 1 .. y : p \in 1 .. x \/ p \in I
    OBVIOUS
  <2>2. \A p \in 1 .. x : p \in 1 .. y /\ p \notin I
    OBVIOUS
  <2>3. \A p \in I : p \in 1 .. y
    OBVIOUS
  <2> HIDE DEF I
  <2> QED BY <2>1, <2>2, <2>3 DEF I
<1> HIDE DEF A, B, C, I
<1>3. IsFiniteSet(A) /\ IsFiniteSet(B) /\ IsFiniteSet(C)
  BY <1>1, <1>2, FS_Subset
<1>4. Cardinality(A \cup B) = Cardinality(A) + Cardinality(B) - Cardinality(A \cap B)
  BY <1>3, FS_Union
<1>5. Cardinality(B \cup C) = Cardinality(B) + Cardinality(C) - Cardinality(B \cap C)
  BY <1>3, FS_Union
<1>6. Cardinality(A \cap B) = 0 /\ Cardinality(B \cap C) = 0
  BY <1>2, FS_EmptySet
<1>7. Cardinality(A) \in Nat /\ Cardinality(B) \in Nat /\ Cardinality(C) \in Nat
  BY <1>3, FS_CardinalityType
<1>8. Left(x, deleted) = Cardinality(A) /\ Left(y, deleted) = Cardinality(A \cup B)
  BY <1>2 DEF Left, A
<1>9. Cardinality(B \cup C) = y - x
  BY <1>1, <1>2
<1> DEFINE a == Cardinality(A)
           b == Cardinality(B)
           k == Cardinality(C)
           ab == Cardinality(A \cup B)
<1>10. a \in Nat /\ b \in Nat /\ k \in Nat /\ ab = a + b - 0 /\ y - x = b + k - 0
  BY <1>4, <1>5, <1>6, <1>7, <1>9
<1>11. Left(x, deleted) = a /\ Left(y, deleted) = ab /\ Cardinality(deleted \cap (x + 1 .. y)) = k
  BY <1>8 DEF C, I
<1> HIDE DEF a, b, k, ab
<1>12. ab \in Nat /\ a <= ab /\ ab + k = a + (y - x)
  BY <1>10
<1> QED BY <1>10, <1>11, <1>12

\* A row that stays moves behind those before it that stay.
LEMMA MovesTo ==
    ASSUME NEW rows, IsSeq(rows), NEW deleted \in SUBSET DOMAIN rows,
           NEW p \in DOMAIN rows \ deleted
    PROVE  /\ Left(p, deleted) \in 1 .. Len(Stay(rows, deleted))
           /\ Retained(rows, deleted)[Left(p, deleted)] = rows[p]
<1>1. DOMAIN rows = 1 .. Len(rows) /\ Len(rows) \in Nat /\ p \in Nat \ {0}
  BY SeqDomain
<1>2. PICK i \in 1 .. Len(Stay(rows, deleted)) : Stay(rows, deleted)[i] = p
  BY StayAre
<1>3. Retained(rows, deleted)[i] = rows[p]
  BY <1>2, StayAre
<1>4. RemapRow(p, deleted) = i /\ i \in Nat
  BY <1>2, RemapIs, StayAre
<1> DEFINE gone == Cardinality({q \in deleted : q < p})
<1>5. PICK z : z = 0
  OBVIOUS
<1>6. /\ Left(p, deleted) + gone = Left(z, deleted) + (p - z) /\ gone \in Nat
      /\ Left(p, deleted) \in Nat
  <2>1. \A q \in deleted : q < p <=> q \in z + 1 .. p
    <3> TAKE q \in deleted
    <3>1. q \in 1 .. Len(rows) /\ q # p
      BY <1>1
    <3> QED BY <1>1, <1>5, <3>1
  <2>2. {q \in deleted : q < p} = deleted \cap (z + 1 .. p)
    BY <2>1
  <2>3. z \in Nat /\ p \in Nat /\ z <= p
    BY <1>1, <1>5
  <2> QED BY <2>2, <2>3, LeftAre
<1>7. Left(z, deleted) = 0
  <2>1. (1 .. z) \ deleted = {}
    BY <1>5
  <2> QED BY <2>1, FS_EmptySet DEF Left
<1>8. i = p - gone
  BY <1>4 DEF RemapRow
<1> HIDE DEF gone
<1>9. Left(p, deleted) = i
  BY <1>1, <1>5, <1>6, <1>7, <1>8
<1> QED BY <1>2, <1>3, <1>9

\* All rows that stay.
LEMMA AllLeft ==
    ASSUME NEW rows, IsSeq(rows), NEW deleted \in SUBSET DOMAIN rows
    PROVE  Left(Len(rows), deleted) = Len(Retained(rows, deleted))
<1> DEFINE kept == Stay(rows, deleted)
           n == Len(kept)
           S == DOMAIN rows \ deleted
<1>1. /\ Ascends(kept) /\ n \in Nat /\ Len(Retained(rows, deleted)) = n
      /\ \A i \in 1 .. n : kept[i] \in S
      /\ \A p \in S : \E i \in 1 .. n : kept[i] = p
  BY StayAre
<1>2. DOMAIN kept = 1 .. n /\ kept = [i \in 1 .. n |-> kept[i]]
      /\ \A i, j \in 1 .. n : kept[i] = kept[j] => i = j
  BY <1>1, AscendsPlaces DEF Ascends, IsSeq
<1>3. S = (1 .. Len(rows)) \ deleted
  BY SeqDomain
<1> HIDE DEF kept, n, S
<1> DEFINE I == 1 .. n
<1>4. /\ kept \in [I -> S] /\ \A j, k \in I : kept[j] = kept[k] => j = k
      /\ \A q \in S : \E j \in I : kept[j] = q
  BY <1>1, <1>2
<1>5. IsFiniteSet(I) /\ Cardinality(I) = n
  <2>1. 1 \in Int /\ n \in Int /\ (1 > n <=> n = 0) /\ n - 1 + 1 = n
    BY <1>1
  <2> QED BY <1>1, <2>1, FS_Interval
<1> HIDE DEF I
<1>6. kept \in Bijection(I, S)
  BY <1>4 DEF Bijection, Injection, Surjection, IsInjective
<1>7. ExistsBijection(I, S)
  BY <1>6 DEF ExistsBijection
<1>8. Cardinality(S) = n
  BY <1>5, <1>7, FS_Bijection
<1> QED BY <1>1, <1>3, <1>8 DEF Left

LEMMA ColumnSeq ==
    ASSUME NEW rows, IsSeq(rows), NEW c
    PROVE  /\ IsSeq(ColumnOf(rows, c)) /\ Len(ColumnOf(rows, c)) = Len(rows)
           /\ \A p \in 1 .. Len(rows) : ColumnOf(rows, c)[p] = rows[p][c]
<1> DEFINE column == ColumnOf(rows, c)
           n == Len(rows)
<1>1. n \in Nat /\ DOMAIN rows = 1 .. n
  BY SeqDomain
<1>2. column = [p \in 1 .. n |-> rows[p][c]] /\ DOMAIN column = 1 .. n
  BY <1>1 DEF ColumnOf
<1> HIDE DEF column, n
<1>3. column = [p \in 1 .. n |-> column[p]] /\ \A p \in 1 .. n : column[p] = rows[p][c]
  BY <1>2
<1>4. IsSeq(column) /\ Len(column) = n
  BY <1>1, <1>2, <1>3, SeqIsFunction
<1> QED BY <1>3, <1>4 DEF column, n

\* One old slab: skipped, moved, or packed again from the rows that are left.
LEMMA KeepPacks ==
    ASSUME NEW c, NEW rows, IsSeq(rows), NEW deleted \in SUBSET DOMAIN rows,
           NEW left, left = Retained(rows, deleted),
           NEW column, column = ColumnOf(left, c),
           NEW chunk, IsChunk(chunk, ColumnOf(rows, c)),
           NEW first, first = chunk.first,
           NEW end \in Nat, end = first + Len(chunk.values), end <= Len(rows),
           NEW dense, NEW k, k = Left(first, deleted), Packs(dense, column, k),
           NEW new, new = KeepChunk(column, deleted, dense, chunk)
    PROVE  /\ Packs(new, column, Left(end, deleted))
           /\ new.remembered = NoRows \/ (new = dense /\ Left(end, deleted) = k)
<1>0. PICK values, l : values = chunk.values /\ l = Len(values)
  OBVIOUS
<1>1. PICK removed, retained : /\ removed = Cardinality(deleted \cap (first + 1 .. end))
                               /\ retained = l - removed
  OBVIOUS
<1>2. /\ first \in Nat /\ IsSeq(values) /\ l \in Nat \ {0} /\ end = first + l
      /\ \A j \in 1 .. l : values[j] = ColumnOf(rows, c)[first + j]
  BY <1>0 DEF IsChunk
<1>3. first <= end
  BY <1>2
<1>4. /\ k \in Nat /\ Left(end, deleted) \in Nat /\ k <= Left(end, deleted) /\ removed \in Nat
      /\ Left(end, deleted) + removed = k + (end - first)
  BY <1>1, <1>2, <1>3, LeftAre
<1>5. Left(end, deleted) = k + retained /\ retained \in Nat
  <2> DEFINE e == Left(end, deleted)
  <2>1. e \in Nat /\ e + removed = k + (end - first) /\ k <= e
    BY <1>4
  <2>2. /\ first \in Nat /\ end = first + l /\ l \in Nat /\ k \in Nat /\ removed \in Nat
        /\ retained = l - removed
    BY <1>1, <1>2, <1>4
  <2> HIDE DEF e
  <2>3. e = k + retained /\ retained \in Nat
    BY ONLY <2>1, <2>2
  <2> QED BY <2>3 DEF e
<1>6. Len(rows) \in Nat /\ DOMAIN rows = 1 .. Len(rows)
  BY SeqDomain
<1>7. IsSeq(left) /\ Len(left) = Len(Stay(rows, deleted))
  BY StayAre
<1>8. IsSeq(column) /\ Len(column) = Len(left) /\ \A p \in 1 .. Len(left) : column[p] = left[p][c]
  BY <1>7, ColumnSeq
<1>9. new = IF retained = 0 THEN dense
            ELSE IF removed = 0 THEN PushChunk(dense, values)
            ELSE AppendRows(dense, SubSeq(column, k + 1, k + retained))
  BY <1>0, <1>1 DEF KeepChunk, Packs
<1>10. CASE retained = 0
  <2>1. new = dense /\ Left(end, deleted) = k
    BY <1>4, <1>5, <1>9, <1>10
  <2> QED BY <2>1
<1>11. CASE retained # 0 /\ removed = 0
  <2>1. retained = l
    BY <1>1, <1>2, <1>11
  <2>2. deleted \cap (first + 1 .. end) = {}
    <3>1. IsFiniteSet(first + 1 .. end)
      <4>1. first + 1 \in Int /\ end \in Int
        BY <1>2
      <4> QED BY <4>1, FS_Interval
    <3>2. IsFiniteSet(deleted \cap (first + 1 .. end))
      BY <3>1, FS_Subset
    <3> QED BY <1>1, <1>11, <3>2, FS_EmptySet
  <2>3. ASSUME NEW j \in 1 .. l PROVE values[j] = column[k + j]
    <3> DEFINE p == first + j
    <3>1. p \in 1 .. Len(rows) /\ p \in first + 1 .. end /\ p \in Nat /\ first <= p /\ p - first = j
      BY <1>2, <1>6
    <3> HIDE DEF p
    <3>2. p \notin deleted
      BY <2>2, <3>1
    <3>3. Left(p, deleted) \in 1 .. Len(left) /\ left[Left(p, deleted)] = rows[p]
      BY <1>6, <1>7, <3>1, <3>2, MovesTo
    <3>4. Left(p, deleted) = k + j
      <4>1. deleted \cap (first + 1 .. p) = {}
        <5>1. \A q \in first + 1 .. p : q \in first + 1 .. end
          BY <1>2, <3>1
        <5> QED BY <2>2, <5>1
      <4>2. Cardinality(deleted \cap (first + 1 .. p)) = 0
        BY <4>1, FS_EmptySet
      <4>3. /\ Left(p, deleted) \in Nat
            /\ Left(p, deleted) + Cardinality(deleted \cap (first + 1 .. p)) = k + (p - first)
        <5>1. first \in Nat /\ p \in Nat /\ first <= p
          BY <1>2, <3>1
        <5> QED BY <5>1, LeftAre
      <4> QED BY <1>4, <3>1, <4>2, <4>3
    <3>5. column[k + j] = rows[p][c]
      BY <1>8, <3>3, <3>4
    <3>6. values[j] = ColumnOf(rows, c)[p]
      BY <1>2 DEF p
    <3>7. ColumnOf(rows, c)[p] = rows[p][c]
      BY <3>1, ColumnSeq
    <3> QED BY <3>5, <3>6, <3>7
  <2>4. new = PushChunk(dense, values)
    BY <1>9, <1>11
  <2>5. Packs(new, column, k + l) /\ new.remembered = NoRows
    BY <1>0, <1>2, <2>3, <2>4, PushPacks
  <2> QED BY <1>5, <2>1, <2>5
<1>12. CASE retained # 0 /\ removed # 0
  <2>1. PICK a, z, s : a = k + 1 /\ z = k + retained /\ s = SubSeq(column, a, z)
    OBVIOUS
  <2>2. z <= Len(left) /\ Len(left) \in Nat
    <3>1. Left(Len(rows), deleted) = Len(left)
      BY AllLeft
    <3>2. Left(end, deleted) <= Left(Len(rows), deleted) /\ Left(Len(rows), deleted) \in Nat
      BY <1>6, LeftAre
    <3> QED BY <1>5, <2>1, <3>1, <3>2
  <2>3. /\ a \in Int /\ z \in Int /\ a <= z /\ z - a + 1 = retained
        /\ \A j \in a .. z : column[j] \in ToSet(column)
    <3>0. /\ a = k + 1 /\ z = k + retained /\ k \in Nat /\ retained \in Nat /\ retained # 0
          /\ z <= Len(column) /\ Len(column) \in Nat
      BY <1>4, <1>5, <1>8, <1>12, <2>1, <2>2
    <3>1. a \in Int /\ z \in Int /\ a <= z /\ z - a + 1 = retained
      BY ONLY <3>0
    <3>2. \A j \in a .. z : j \in 1 .. Len(column)
      BY ONLY <3>0
    <3>3. \A j \in 1 .. Len(column) : column[j] \in ToSet(column)
      BY <1>8, SeqDomain
    <3> QED BY <3>1, <3>2, <3>3
  <2>4. /\ s \in Seq(ToSet(column)) /\ Len(s) = retained
        /\ \A j \in 1 .. retained : s[j] = column[a + j - 1]
    BY <2>1, <2>3, SubSeqProperties
  <2>5. \A j \in 1 .. retained : s[j] = column[k + j]
    <3>1. \A j \in 1 .. retained : a + j - 1 = k + j
      BY <1>4, <1>5, <2>1
    <3> QED BY <2>4, <3>1
  <2>6. IsSeq(s)
    BY <2>4, SeqIs
  <2>7. new = AppendRows(dense, s)
    BY <1>9, <1>12, <2>1
  <2>8. Packs(new, column, k + retained) /\ new.remembered = NoRows
    BY <1>12, <2>4, <2>5, <2>6, <2>7, AppendPacks
  <2> QED BY <1>5, <2>8
<1> QED BY <1>10, <1>11, <1>12

\* Deleting rows from a column.
LEMMA DeletePacks ==
    ASSUME NEW c, NEW rows, IsSeq(rows), NEW deleted \in SUBSET DOMAIN rows,
           NEW d, Packs(d, ColumnOf(rows, c), Len(rows)),
           NEW left, left = Retained(rows, deleted),
           NEW column, column = ColumnOf(left, c),
           NEW new, new = DeleteFromDense(d, column, deleted)
    PROVE  /\ Packs(new, column, Len(left))
           /\ Len(left) # 0 => new.remembered = NoRows
<1>0. PICK n, chunks, m, base, o :
        /\ n = Len(rows) /\ chunks = d.chunks /\ m = Len(chunks)
        /\ base = Cleared(d)
        /\ o = [kind |-> "keep", values |-> column, deleted |-> deleted]
  OBVIOUS
<1> DEFINE E(i) == EndAt(chunks, i)
           L(x) == Left(x, deleted)
<1>1. /\ IsDense(d) /\ Aligned(chunks, ColumnOf(rows, c), n)
      /\ IsSeq(chunks) /\ m \in Nat /\ n \in Nat /\ n = E(m)
      /\ \A i \in 1 .. m : IsChunk(chunks[i], ColumnOf(rows, c)) /\ chunks[i].first = E(i - 1)
  BY <1>0, SeqDomain DEF Packs, Aligned
<1>2. PICK f : Runs(o, base, chunks, f, m) /\ new = f[m]
  <2>1. \E f : /\ Runs(o, base, chunks, f, Len(chunks))
               /\ DeleteFromDense(d, column, deleted) = f[Len(chunks)]
    BY <1>0, <1>1, KeepRuns
  <2> QED BY <1>0, <2>1
<1>3. f[0] = base /\ \A i \in 1 .. m : f[i] = KeepChunk(column, deleted, f[i - 1], chunks[i])
  <2>1. o.kind = "keep" /\ o.values = column /\ o.deleted = deleted
    BY <1>0
  <2>2. \A v, x : Step(o, v, x) = KeepChunk(column, deleted, v, x)
    BY ONLY <2>1 DEF Step
  <2> QED BY <1>2, <2>2 DEF Runs
<1>4. Packs(base, column, 0)
  <2>1. base = [row_count |-> 0, chunks |-> <<>>, chunk_lookup |-> <<>>,
                remembered |-> d.remembered]
    BY <1>0, <1>1 DEF IsDense, Cleared
  <2>2. /\ base.row_count = 0 /\ base.chunks = <<>> /\ base.chunk_lookup = <<>> /\ IsDense(base)
    BY ONLY <2>1 DEF IsDense
  <2>3. Packs(EmptyDense, column, 0)
    BY EmptyPacks
  <2> QED BY <2>2, <2>3 DEF Packs, EmptyDense
<1> DEFINE N == {i \in Nat : i <= m => /\ Packs(f[i], column, L(E(i)))
                                       /\ f[i].remembered = NoRows \/ L(E(i)) = 0}
<1>5. E(0) = 0 /\ L(0) = 0
  <2>1. (1 .. 0) \ deleted = {}
    OBVIOUS
  <2> QED BY <2>1, FS_EmptySet DEF Left, EndAt
<1>6. \A i \in Nat : i <= m => E(i) \in Nat /\ E(i) <= n
  BY <1>0, <1>1, EndsRise
<1>7. \A i \in 1 .. m : E(i) = E(i - 1) + Len(chunks[i].values)
  <2> TAKE i \in 1 .. m
  <2>1. i # 0 /\ E(i - 1) = chunks[i].first
    BY <1>1
  <2> QED BY <2>1 DEF EndAt
<1> HIDE DEF E, L
<1>8. 0 \in N
  BY <1>3, <1>4, <1>5
<1>9. ASSUME NEW i \in N PROVE i + 1 \in N
  <2> SUFFICES ASSUME i + 1 <= m
               PROVE  /\ Packs(f[i + 1], column, L(E(i + 1)))
                      /\ f[i + 1].remembered = NoRows \/ L(E(i + 1)) = 0
    BY <1>1
  <2>1. i + 1 \in 1 .. m /\ i + 1 - 1 = i /\ i <= m /\ i \in Nat /\ i + 1 \in Nat
    BY <1>1
  <2>2. PICK chunk, first, end, k : /\ chunk = chunks[i + 1] /\ first = E(i) /\ end = E(i + 1)
                                    /\ k = L(E(i))
    OBVIOUS
  <2>3. /\ IsChunk(chunk, ColumnOf(rows, c)) /\ first = chunk.first
        /\ end = first + Len(chunk.values) /\ end \in Nat /\ end <= Len(rows)
        /\ f[i + 1] = KeepChunk(column, deleted, f[i], chunk)
    BY <1>0, <1>1, <1>3, <1>6, <1>7, <2>1, <2>2
  <2>4. /\ Packs(f[i], column, k) /\ k = Left(first, deleted)
        /\ f[i].remembered = NoRows \/ k = 0
    BY <2>1, <2>2 DEF L
  <2>5. /\ Packs(f[i + 1], column, Left(end, deleted))
        /\ f[i + 1].remembered = NoRows \/ (f[i + 1] = f[i] /\ Left(end, deleted) = k)
    BY <2>3, <2>4, KeepPacks
  <2> QED BY <2>2, <2>4, <2>5 DEF L
<1>10. N = Nat
  <2> HIDE DEF N
  <2>1. N \in SUBSET Nat
    BY DEF N
  <2> QED BY <1>8, <1>9, <2>1, NaturalSets
<1> HIDE DEF N
<1>11. Packs(f[m], column, L(E(m))) /\ (f[m].remembered = NoRows \/ L(E(m)) = 0)
  <2>1. m \in N /\ m <= m
    BY <1>1, <1>10
  <2> QED BY <2>1 DEF N
<1>12. L(E(m)) = Len(left)
  BY <1>0, <1>1, AllLeft DEF L
<1> QED BY <1>2, <1>11, <1>12

-----------------------------------------------------------------------------
(* What holds of the dense columns, statement by statement.                  *)

DenseHolds(columns, rows) ==
    /\ DOMAIN columns = Vectors
    /\ \A c \in Vectors : /\ Packs(columns[c], ColumnOf(rows, c), Len(rows))
                          /\ columns[c].remembered \in {NoRows, rows}

Dense(t) == IsTable(t) /\ IsSeq(t.rows) /\ DenseHolds(t.vector_columns, t.rows)

\* Only the packed part of a column counts.
LEMMA PacksSame ==
    ASSUME NEW d, NEW old, NEW k, Packs(d, old, k),
           NEW column, \A p \in 1 .. k : column[p] = old[p]
    PROVE  Packs(d, column, k)
<1>1. PICK chunks, m : chunks = d.chunks /\ m = Len(chunks)
  OBVIOUS
<1>2. Aligned(chunks, old, k) /\ m \in Nat /\ k \in Nat
  BY <1>1, SeqDomain DEF Packs, Aligned
<1>3. ASSUME NEW i \in 1 .. m PROVE IsChunk(chunks[i], column)
  <2>1. IsChunk(chunks[i], old)
    BY <1>1, <1>2 DEF Aligned
  <2>2. chunks[i].first + Len(chunks[i].values) <= k
    <3>1. i \in Nat /\ i <= m /\ m <= m /\ i # 0
      BY <1>2
    <3>2. EndAt(chunks, i) <= EndAt(chunks, m) /\ EndAt(chunks, m) = k
      BY <1>1, <1>2, <3>1, EndsRise DEF Aligned
    <3> QED BY <3>1, <3>2 DEF EndAt
  <2>3. \A j \in 1 .. Len(chunks[i].values) : chunks[i].first + j \in 1 .. k
    <3> DEFINE a == chunks[i].first
               l == Len(chunks[i].values)
    <3>1. a \in Nat /\ l \in Nat /\ a + l <= k /\ k \in Nat
      BY <1>2, <2>1, <2>2 DEF IsChunk
    <3> HIDE DEF a, l
    <3>2. \A j \in 1 .. l : a + j \in 1 .. k
      BY ONLY <3>1
    <3> QED BY <3>2 DEF a, l
  <2> QED BY <2>1, <2>3 DEF IsChunk
<1> QED BY <1>1, <1>2, <1>3 DEF Packs, Aligned

LEMMA AppendDense ==
    ASSUME NEW t, Dense(t), NEW added, IsSeq(added), NEW new, new = AppendTo(t, added)
    PROVE  Dense(new) /\ new.rows = t.rows \o added
<1>0. PICK r, i, u, v, s, n : /\ r = t.rows /\ i = t.indexes /\ u = t.unique_keys
                              /\ v = t.vector_columns /\ s = r \o added /\ n = Len(r)
  OBVIOUS
<1>1. t = [rows |-> r, indexes |-> i, unique_keys |-> u, vector_columns |-> v]
  BY <1>0 DEF Dense, IsTable
<1>2. PICK base : base = [rows |-> s, indexes |-> i, unique_keys |-> u, vector_columns |-> v]
  OBVIOUS
<1>3. new = ExtendIndexes(base, n)
  <2>1. base = [t EXCEPT !.rows = s]
    BY ONLY <1>1, <1>2
  <2>2. s = t.rows \o added /\ n = Len(t.rows)
    BY <1>0
  <2>3. [t EXCEPT !.rows = s] = [t EXCEPT !.rows = t.rows \o added]
    BY ONLY <2>2
  <2> QED BY <2>1, <2>2, <2>3 DEF AppendTo
<1>4. /\ IsTable(new) /\ new.rows = s
      /\ DOMAIN new.vector_columns = DOMAIN v
      /\ \A c \in DOMAIN v : new.vector_columns[c] =
           AppendRows(v[c], SubSeq(ColumnOf(s, c), n + 1, Len(s)))
  BY <1>2, <1>3, ExtendIndexesIs
<1>5. IsSeq(r) /\ DenseHolds(v, r)
  BY <1>0 DEF Dense
<1>6. /\ IsSeq(s) /\ Len(s) = n + Len(added) /\ n \in Nat /\ Len(added) \in Nat
      /\ DOMAIN r = 1 .. n /\ \A p \in 1 .. n : s[p] = r[p]
  <2>1. IsSeq(s) /\ Len(s) = Len(r) + Len(added) /\ Continues(s, r)
    BY <1>0, <1>5, SeqConcat, ConcatPlaces
  <2>2. n \in Nat /\ Len(added) \in Nat /\ DOMAIN r = 1 .. n
    BY <1>0, <1>5, SeqDomain
  <2> QED BY <1>0, <2>1, <2>2 DEF Continues
<1>7. ASSUME NEW c \in Vectors
      PROVE  /\ Packs(new.vector_columns[c], ColumnOf(s, c), Len(s))
             /\ new.vector_columns[c].remembered \in {NoRows, s}
  <2>1. PICK d, d2, column, values : /\ d = v[c] /\ d2 = new.vector_columns[c]
                                     /\ column = ColumnOf(s, c)
                                     /\ values = SubSeq(column, n + 1, Len(s))
    OBVIOUS
  <2>2. Packs(d, ColumnOf(r, c), n) /\ d.remembered \in {NoRows, r} /\ c \in DOMAIN v
    BY <1>0, <1>5, <2>1 DEF DenseHolds
  <2>3. d2 = AppendRows(d, values)
    BY <1>4, <2>1, <2>2
  <2>4. /\ IsSeq(column) /\ Len(column) = Len(s)
        /\ \A p \in 1 .. Len(s) : column[p] = s[p][c]
    BY <1>6, <2>1, ColumnSeq
  <2>5. Packs(d, column, n)
    <3>1. \A p \in 1 .. n : ColumnOf(r, c)[p] = r[p][c]
      BY <1>0, <1>5, ColumnSeq
    <3>2. \A p \in 1 .. n : p \in 1 .. Len(s)
      BY <1>6
    <3>3. \A p \in 1 .. n : column[p] = ColumnOf(r, c)[p]
      BY <1>6, <2>4, <3>1, <3>2
    <3> QED BY <2>2, <3>3, PacksSame
  <2>6. /\ IsSeq(values) /\ Len(values) = Len(added)
        /\ \A j \in 1 .. Len(values) : values[j] = column[n + j]
    <3>1. PICK a, z, l : a = n + 1 /\ z = Len(s) /\ l = Len(added)
      OBVIOUS
    <3>2. /\ a \in Int /\ z \in Int /\ z = n + l /\ l \in Nat /\ n \in Nat
      BY <1>6, <3>1
    <3>3. \A j \in a .. z : column[j] \in ToSet(column)
      <4>1. \A j \in a .. z : j \in 1 .. Len(column)
        BY <2>4, <3>1, <3>2
      <4>2. \A j \in 1 .. Len(column) : column[j] \in ToSet(column)
        BY <2>4, SeqDomain
      <4> QED BY <4>1, <4>2
    <3>4. /\ values \in Seq(ToSet(column))
          /\ Len(values) = IF a <= z THEN z - a + 1 ELSE 0
          /\ \A j \in 1 .. z - a + 1 : values[j] = column[a + j - 1]
      BY <2>1, <3>1, <3>2, <3>3, SubSeqProperties
    <3>5. z - a + 1 = l /\ (IF a <= z THEN z - a + 1 ELSE 0) = l
          /\ \A j \in 1 .. l : a + j - 1 = n + j
      BY <3>1, <3>2
    <3>6. Len(values) = l /\ \A j \in 1 .. l : values[j] = column[n + j]
      BY <3>4, <3>5
    <3> QED BY <3>1, <3>4, <3>6, SeqIs
  <2>7. /\ Packs(d2, column, n + Len(values))
        /\ d2.remembered = IF Len(values) = 0 THEN d.remembered ELSE NoRows
    BY <2>3, <2>5, <2>6, AppendPacks
  <2>8. CASE Len(added) = 0
    <3>1. s = r
      <4>1. added = <<>>
        BY <2>8, SeqNone
      <4>2. r \in Seq(ToSet(r))
        BY <1>5 DEF IsSeq
      <4> QED BY <1>0, <4>1, <4>2
    <3> QED BY <1>6, <2>1, <2>2, <2>6, <2>7, <2>8, <3>1
  <2>9. CASE Len(added) # 0
    BY <1>6, <2>1, <2>6, <2>7, <2>9
  <2> QED BY <2>8, <2>9
<1>8. DenseHolds(new.vector_columns, s)
  <2>1. DOMAIN v = Vectors
    BY <1>5 DEF DenseHolds
  <2> QED BY <1>4, <1>7, <2>1 DEF DenseHolds
<1> QED BY <1>0, <1>4, <1>6, <1>8 DEF Dense

\* Columns packed from the rows, after a change or a load.
LEMMA RebuildDense ==
    ASSUME NEW t, IsTable(t), NEW rows, IsSeq(rows), NEW new,
           new = RebuildIndexes([t EXCEPT !.rows = rows])
    PROVE  Dense(new) /\ new.rows = rows
<1>0. PICK i, u, v, base, middle, columns :
        /\ i = t.indexes /\ u = t.unique_keys /\ v = t.vector_columns
        /\ base = [t EXCEPT !.rows = rows] /\ middle = RebuildRelational(base)
        /\ columns = [c \in Vectors |-> AppendRows(EmptyDense, ColumnOf(base.rows, c))]
  OBVIOUS
<1>1. t = [rows |-> t.rows, indexes |-> i, unique_keys |-> u, vector_columns |-> v]
  BY <1>0 DEF IsTable
<1>2. base = [rows |-> rows, indexes |-> i, unique_keys |-> u, vector_columns |-> v]
  BY <1>0, <1>1
<1>3. IsTable(base) /\ base.rows = rows
  BY <1>2 DEF IsTable
<1>4. IsTable(middle) /\ middle.rows = rows
  BY <1>0, <1>3, RebuildRelationalIs
<1>5. new = [middle EXCEPT !.vector_columns = columns]
  BY <1>0 DEF RebuildIndexes
<1>6. IsTable(new) /\ new.rows = rows /\ new.vector_columns = columns
  BY <1>4, <1>5 DEF IsTable
<1>7. ASSUME NEW c \in Vectors
      PROVE  Packs(columns[c], ColumnOf(rows, c), Len(rows)) /\ columns[c].remembered = NoRows
  <2>1. PICK d, column : d = columns[c] /\ column = ColumnOf(rows, c)
    OBVIOUS
  <2>2. IsSeq(column) /\ Len(column) = Len(rows) /\ Len(rows) \in Nat
    BY <2>1, ColumnSeq, SeqDomain
  <2>3. d = AppendRows(EmptyDense, column)
    BY <1>0, <1>3, <2>1
  <2>4. Packs(EmptyDense, column, 0) /\ EmptyDense.remembered = NoRows
    BY EmptyPacks
  <2>5. PICK k : k = 0
    OBVIOUS
  <2>6. \A j \in 1 .. Len(column) : column[j] = column[k + j]
    <3>1. \A j \in 1 .. Len(column) : k + j = j
      BY <2>2, <2>5
    <3> QED BY <3>1
  <2>7. /\ Packs(d, column, k + Len(column))
        /\ d.remembered = IF Len(column) = 0 THEN EmptyDense.remembered ELSE NoRows
    BY <2>2, <2>3, <2>4, <2>5, <2>6, AppendPacks
  <2>8. k + Len(column) = Len(rows)
    BY <2>2, <2>5
  <2> QED BY <2>1, <2>4, <2>7, <2>8
<1>8. DOMAIN columns = Vectors
  BY <1>0
<1> QED BY <1>6, <1>7, <1>8 DEF Dense, DenseHolds

LEMMA LoadedDenseHolds ==
    ASSUME NEW t, Dense(t), NEW new, new = Loaded(t)
    PROVE  Dense(new) /\ new.rows = t.rows
<1>0. PICK middle, columns :
        /\ middle = RebuildRelational(t)
        /\ columns = [c \in Vectors |-> LoadedDense(ColumnOf(t.rows, c))]
  OBVIOUS
<1>1. IsTable(middle) /\ middle.rows = t.rows
  BY <1>0, RebuildRelationalIs DEF Dense
<1>2. new = [middle EXCEPT !.vector_columns = columns]
  BY <1>0 DEF Loaded
<1>3. IsTable(new) /\ new.rows = t.rows /\ new.vector_columns = columns
  BY <1>1, <1>2 DEF IsTable
<1>4. ASSUME NEW c \in Vectors
      PROVE  Packs(columns[c], ColumnOf(t.rows, c), Len(t.rows)) /\ columns[c].remembered = NoRows
  <2>1. PICK column : column = ColumnOf(t.rows, c)
    OBVIOUS
  <2>2. IsSeq(column) /\ Len(column) = Len(t.rows)
    BY <2>1, ColumnSeq DEF Dense
  <2>3. columns[c] = LoadedDense(column)
    BY <1>0, <2>1
  <2> QED BY <2>1, <2>2, <2>3, LoadPacks
<1>5. DOMAIN columns = Vectors
  BY <1>0
<1> QED BY <1>3, <1>4, <1>5 DEF Dense, DenseHolds

LEMMA PatchedDense ==
    ASSUME NEW t, Dense(t), NEW updates, DOMAIN updates \subseteq DOMAIN t.rows,
           NEW new, new = Patched(t, updates)
    PROVE  Dense(new) /\ new.rows = Replaced(t.rows, updates)
<1>0. PICK r, i, u, v, s, n : /\ r = t.rows /\ i = t.indexes /\ u = t.unique_keys
                              /\ v = t.vector_columns /\ s = Replaced(r, updates) /\ n = Len(r)
  OBVIOUS
<1>1. t = [rows |-> r, indexes |-> i, unique_keys |-> u, vector_columns |-> v]
  BY <1>0 DEF Dense, IsTable
<1>2. /\ IsTable(new) /\ new.rows = s
      /\ DOMAIN new.vector_columns = DOMAIN v
      /\ \A c \in DOMAIN v : new.vector_columns[c] = PatchDense(v[c], c, r, updates)
  BY <1>0, <1>1, PatchedIs
<1>3. IsSeq(r) /\ DenseHolds(v, r) /\ DOMAIN updates \subseteq DOMAIN r
  BY <1>0 DEF Dense
<1>4. IsSeq(s) /\ Len(s) = n
  <2>1. DOMAIN s = DOMAIN r /\ s = [p \in DOMAIN r |-> s[p]]
    BY <1>0 DEF Replaced
  <2>2. n \in Nat /\ DOMAIN r = 1 .. n
    BY <1>0, <1>3, SeqDomain
  <2> QED BY <2>1, <2>2, SeqIsFunction
<1>5. ~ContentChanged(r, updates) => s = r
  <2> SUFFICES ASSUME ~ContentChanged(r, updates) PROVE s = r
    OBVIOUS
  <2>1. \A p \in DOMAIN r : s[p] = r[p]
    BY <1>0 DEF ContentChanged, Replaced
  <2>2. DOMAIN s = DOMAIN r /\ s = [p \in DOMAIN r |-> s[p]] /\ r = [p \in DOMAIN r |-> r[p]]
    BY <1>0, <1>3 DEF Replaced, IsSeq
  <2> QED BY <2>1, <2>2
<1>6. ASSUME NEW c \in Vectors
      PROVE  /\ Packs(new.vector_columns[c], ColumnOf(s, c), n)
             /\ new.vector_columns[c].remembered \in {NoRows, s}
  <2>1. PICK d, d2, d3 : /\ d = v[c] /\ d2 = RepackChunks(d, c, r, updates, s)
                         /\ d3 = new.vector_columns[c]
    OBVIOUS
  <2>2. c \in DOMAIN v /\ Packs(d, ColumnOf(r, c), n) /\ d.remembered \in {NoRows, r}
    BY <1>0, <1>3, <2>1 DEF DenseHolds
  <2>3. Packs(d2, ColumnOf(s, c), n) /\ d2.remembered = d.remembered
    BY <1>0, <1>3, <1>4, <2>1, <2>2, RepackPacks
  <2>4. d3 = IF ContentChanged(r, updates) THEN NewGeneration(d2) ELSE d2
    BY <1>0, <1>2, <2>1, <2>2 DEF PatchDense
  <2>5. CASE ~ContentChanged(r, updates)
    BY <1>5, <2>1, <2>2, <2>3, <2>4, <2>5
  <2>6. CASE ContentChanged(r, updates)
    <3>1. d2 = [row_count |-> d2.row_count, chunks |-> d2.chunks,
                chunk_lookup |-> d2.chunk_lookup, remembered |-> d2.remembered]
      BY <2>3 DEF Packs, IsDense
    <3>2. PICK k, chunks, lookup : k = d2.row_count /\ chunks = d2.chunks /\ lookup = d2.chunk_lookup
      OBVIOUS
    <3>3. d3 = [row_count |-> k, chunks |-> chunks, chunk_lookup |-> lookup,
                remembered |-> NoRows]
      BY <2>4, <2>6, <3>1, <3>2 DEF NewGeneration
    <3>4. /\ IsDense(d3) /\ d3.row_count = k /\ d3.chunks = chunks /\ d3.chunk_lookup = lookup
          /\ d3.remembered = NoRows
      BY ONLY <3>3 DEF IsDense
    <3> QED BY <2>1, <2>3, <3>2, <3>4 DEF Packs
  <2> QED BY <2>5, <2>6
<1>7. DenseHolds(new.vector_columns, s)
  <2>1. DOMAIN v = Vectors
    BY <1>3 DEF DenseHolds
  <2> QED BY <1>2, <1>4, <1>6, <2>1 DEF DenseHolds
<1> QED BY <1>0, <1>2, <1>4, <1>7 DEF Dense

LEMMA DeleteDense ==
    ASSUME NEW t, Dense(t), NEW deleted \in SUBSET DOMAIN t.rows,
           NEW new, new = DeleteRows(t, deleted)
    PROVE  Dense(new)
<1>0. PICK r, i, u, v, s : /\ r = t.rows /\ i = t.indexes /\ u = t.unique_keys
                           /\ v = t.vector_columns /\ s = Retained(r, deleted)
  OBVIOUS
<1>1. t = [rows |-> r, indexes |-> i, unique_keys |-> u, vector_columns |-> v]
  BY <1>0 DEF Dense, IsTable
<1>2. IsSeq(r) /\ DenseHolds(v, r) /\ deleted \in SUBSET DOMAIN r
  BY <1>0 DEF Dense
<1>3. IsSeq(s) /\ Len(s) \in Nat
  BY <1>0, <1>2, StayAre
<1>4. CASE deleted = {}
  BY <1>4 DEF DeleteRows
<1>5. CASE deleted # {} /\ s = <<>>
  <2>1. new = RebuildIndexes([t EXCEPT !.rows = s])
    BY <1>0, <1>5 DEF DeleteRows
  <2> QED BY <1>3, <2>1, RebuildDense DEF Dense
<1>6. CASE deleted # {} /\ s # <<>>
  <2>1. /\ IsTable(new) /\ new.rows = s
        /\ DOMAIN new.vector_columns = DOMAIN v
        /\ \A c \in DOMAIN v : new.vector_columns[c] =
             DeleteFromDense(v[c], ColumnOf(s, c), deleted)
    <3>1. deleted # {} /\ Retained(r, deleted) # <<>>
      BY <1>0, <1>6
    <3> QED BY <1>0, <1>1, <3>1, DeletedIs
  <2>2. Len(s) # 0
    BY <1>3, <1>6, SeqNone
  <2>3. ASSUME NEW c \in Vectors
        PROVE  /\ Packs(new.vector_columns[c], ColumnOf(s, c), Len(s))
               /\ new.vector_columns[c].remembered = NoRows
    <3>1. PICK d, d2, column : d = v[c] /\ d2 = new.vector_columns[c] /\ column = ColumnOf(s, c)
      OBVIOUS
    <3>2. c \in DOMAIN v /\ Packs(d, ColumnOf(r, c), Len(r))
      BY <1>2, <3>1 DEF DenseHolds
    <3>3. d2 = DeleteFromDense(d, column, deleted)
      BY <2>1, <3>1, <3>2
    <3>4. Packs(d2, column, Len(s)) /\ (Len(s) # 0 => d2.remembered = NoRows)
      BY <1>0, <1>2, <3>1, <3>2, <3>3, DeletePacks
    <3> QED BY <2>2, <3>1, <3>4
  <2>4. DenseHolds(new.vector_columns, s)
    <3>1. DOMAIN v = Vectors
      BY <1>2 DEF DenseHolds
    <3> QED BY <2>1, <2>3, <3>1 DEF DenseHolds
  <2> QED BY <1>3, <2>1, <2>4 DEF Dense
<1> QED BY <1>4, <1>5, <1>6

LEMMA PatchDenseHolds ==
    ASSUME NEW t, Dense(t), NEW updates, DOMAIN updates \subseteq DOMAIN t.rows,
           NEW appended, IsSeq(appended)
    PROVE  Dense(ApplyPatch(t, updates, appended))
<1>1. PICK middle : middle = Patched(t, updates)
  OBVIOUS
<1>2. Dense(middle)
  BY <1>1, PatchedDense
<1>3. ApplyPatch(t, updates, appended) = AppendTo(middle, appended)
  BY <1>1 DEF ApplyPatch
<1> QED BY <1>2, <1>3, AppendDense

-----------------------------------------------------------------------------
(* Every statement keeps the dense columns.                                  *)

Whole(t) == Relational(t) /\ Dense(t)

LEMMA InsertDense ==
    ASSUME NEW t, Dense(t), NEW pending, IsSeq(pending)
    PROVE  Dense(InsertOrFail(t, pending).table)
<1>1. Dense(AppendTo(t, pending))
  BY AppendDense
<1> QED BY <1>1 DEF InsertOrFail, Refused, Done

LEMMA InsertDoNothingDense ==
    ASSUME NEW t, Dense(t), NEW pending, ValidRows(pending), NEW columns
    PROVE  Dense(InsertDoNothing(t, pending, columns).table)
<1>1. IsSeq(Accepted(t, pending, columns))
  BY AcceptedAre DEF ValidRows
<1> QED BY <1>1, InsertDense DEF InsertDoNothing

LEMMA FastUpsertDense ==
    ASSUME NEW t, Whole(t), NEW pending, ValidRows(pending), NEW conflict \in Unique,
           NEW columns
    PROVE  Dense(FastUpsert(t, pending, conflict, columns).table)
<1>1. PICK patch : patch = Patch(t, pending, conflict, columns)
  OBVIOUS
<1>2. IsSeq(t.rows) /\ NamesRows(t.unique_keys[conflict], t.rows, conflict)
  BY DEF Whole, Relational, RowsHold, ValidRows, KeysHold
<1>3. PatchOf(t, patch)
  BY <1>1, <1>2, PatchIs
<1>4. FastUpsert(t, pending, conflict, columns) =
        IF patch.ok /\ PatchFits(t, patch.updates, patch.appended)
        THEN Done(ApplyPatch(t, patch.updates, patch.appended)) ELSE Refused(t)
  BY <1>1 DEF FastUpsert
<1>5. Dense(ApplyPatch(t, patch.updates, patch.appended))
  <2>1. Dense(t) /\ DOMAIN patch.updates \subseteq DOMAIN t.rows /\ IsSeq(patch.appended)
    BY <1>3 DEF PatchOf, ValidRows, Whole
  <2> QED BY <2>1, PatchDenseHolds
<1> QED BY <1>4, <1>5 DEF Done, Refused, Whole

LEMMA ConflictUpdatesDense ==
    ASSUME NEW t, Whole(t), NEW pending, ValidRows(pending), NEW conflict, NEW columns,
           NEW selection
    PROVE  Dense(ConflictUpdates(t, pending, conflict, columns, selection).table)
<1>1. PICK end, rows, new :
        /\ end = AfterConflicts(t.rows, pending, conflict, columns, selection)
        /\ rows = end.rows /\ new = RebuildIndexes([t EXCEPT !.rows = rows])
  OBVIOUS
<1>2. IsSeq(rows)
  BY <1>1, AfterConflictsAre DEF Whole, Relational, RowsHold, StateOf, ValidRows
<1>3. Dense(new)
  BY <1>1, <1>2, RebuildDense DEF Whole, Dense
<1>4. ConflictUpdates(t, pending, conflict, columns, selection).table \in {t, new}
  BY <1>1 DEF ConflictUpdates, Refused, Done
<1> QED BY <1>3, <1>4 DEF Whole

LEMMA UpdateRowsDense ==
    ASSUME NEW t, Dense(t), NEW pred, NEW c, NEW value
    PROVE  Dense(UpdateRows(t, pred, c, value).table)
<1>1. PICK old, rows, new :
        /\ old = t.rows
        /\ rows = [p \in DOMAIN old |-> IF Holds(pred, old[p])
                                        THEN [old[p] EXCEPT ![c] = value] ELSE old[p]]
        /\ new = RebuildIndexes([t EXCEPT !.rows = rows])
  OBVIOUS
<1>2. IsSeq(rows)
  <2>1. Len(old) \in Nat /\ DOMAIN old = 1 .. Len(old)
    BY <1>1, SeqDomain DEF Dense
  <2>2. rows = [p \in DOMAIN old |-> rows[p]]
    BY <1>1
  <2> QED BY <2>1, <2>2, SeqIsFunction
<1>3. Dense(new)
  BY <1>1, <1>2, RebuildDense DEF Dense
<1>4. UpdateRows(t, pred, c, value).table \in {t, new}
  BY <1>1 DEF UpdateRows, Refused, Done
<1> QED BY <1>3, <1>4

LEMMA IndexesAside ==
    ASSUME NEW t, Dense(t), NEW indexes, NEW new, new = [t EXCEPT !.indexes = indexes]
    PROVE  Dense(new)
<1>0. PICK r, i, u, v : /\ r = t.rows /\ i = t.indexes /\ u = t.unique_keys
                        /\ v = t.vector_columns
  OBVIOUS
<1>1. t = [rows |-> r, indexes |-> i, unique_keys |-> u, vector_columns |-> v]
  BY <1>0 DEF Dense, IsTable
<1>2. new = [rows |-> r, indexes |-> indexes, unique_keys |-> u, vector_columns |-> v]
  BY <1>1
<1>3. IsTable(new) /\ new.rows = r /\ new.vector_columns = v
  BY ONLY <1>2 DEF IsTable
<1> QED BY <1>0, <1>3 DEF Dense

\* A reader's cache is filled from the rows as they are.
LEMMA FillCacheDense ==
    ASSUME NEW t, Dense(t), NEW c \in Vectors, NEW columns,
           columns = [t.vector_columns EXCEPT ![c].remembered = t.rows],
           NEW new, new = [t EXCEPT !.vector_columns = columns]
    PROVE  Dense(new)
<1>0. PICK r, i, u, v : /\ r = t.rows /\ i = t.indexes /\ u = t.unique_keys
                        /\ v = t.vector_columns
  OBVIOUS
<1>1. t = [rows |-> r, indexes |-> i, unique_keys |-> u, vector_columns |-> v]
  BY <1>0 DEF Dense, IsTable
<1>2. new = [rows |-> r, indexes |-> i, unique_keys |-> u, vector_columns |-> columns]
  BY <1>1
<1>3. IsTable(new) /\ new.rows = r /\ new.vector_columns = columns
  BY ONLY <1>2 DEF IsTable
<1>4. DOMAIN v = Vectors /\ IsSeq(r)
      /\ \A e \in Vectors : /\ Packs(v[e], ColumnOf(r, e), Len(r))
                            /\ v[e].remembered \in {NoRows, r}
  BY <1>0 DEF Dense, DenseHolds
<1>5. DOMAIN columns = Vectors /\ \A e \in Vectors : e # c => columns[e] = v[e]
  BY <1>0, <1>4
<1>6. columns[c] = [v[c] EXCEPT !.remembered = r]
  BY <1>0, <1>4
<1>7. Packs(columns[c], ColumnOf(r, c), Len(r)) /\ columns[c].remembered = r
  <2>1. PICK d, d2, k, chunks, lookup : /\ d = v[c] /\ d2 = columns[c] /\ k = d.row_count
                                        /\ chunks = d.chunks /\ lookup = d.chunk_lookup
    OBVIOUS
  <2>2. Packs(d, ColumnOf(r, c), Len(r))
    BY <1>4, <2>1
  <2>3. d = [row_count |-> k, chunks |-> chunks, chunk_lookup |-> lookup,
             remembered |-> d.remembered]
    BY <2>1, <2>2 DEF Packs, IsDense
  <2>4. d2 = [row_count |-> k, chunks |-> chunks, chunk_lookup |-> lookup, remembered |-> r]
    BY <1>6, <2>1, <2>3
  <2>5. /\ IsDense(d2) /\ d2.row_count = k /\ d2.chunks = chunks /\ d2.chunk_lookup = lookup
        /\ d2.remembered = r
    BY ONLY <2>4 DEF IsDense
  <2> QED BY <2>1, <2>2, <2>5 DEF Packs
<1>8. DenseHolds(columns, r)
  BY <1>4, <1>5, <1>7 DEF DenseHolds
<1> QED BY <1>3, <1>4, <1>8 DEF Dense

LEMMA InitDense == Init => Dense(table)
<1> SUFFICES ASSUME Init PROVE Dense(table)
  OBVIOUS
<1>1. PICK columns : columns = [c \in Vectors |-> EmptyDense]
  OBVIOUS
<1>2. table = [rows |-> <<>>, indexes |-> <<>>, unique_keys |-> NoKeys, vector_columns |-> columns]
  BY <1>1 DEF Init
<1>3. IsTable(table) /\ table.rows = <<>> /\ table.vector_columns = columns
  BY <1>2 DEF IsTable
<1>4. IsSeq(<<>>) /\ Len(<<>>) = 0
  BY SeqNone
<1>5. DOMAIN columns = Vectors /\ \A c \in Vectors : columns[c] = EmptyDense
  BY <1>1
<1>6. DenseHolds(columns, <<>>)
  BY <1>4, <1>5, EmptyPacks DEF DenseHolds
<1> QED BY <1>3, <1>4, <1>6 DEF Dense

LEMMA DenseIsInductive == Whole(table) /\ [Next]_table => Dense(table')
<1> SUFFICES ASSUME Whole(table), [Next]_table PROVE Dense(table')
  OBVIOUS
<1>0. Relational(table) /\ Dense(table)
  BY DEF Whole
<1>1. CASE Insert
  BY <1>0, <1>1, BatchIs, InsertDense DEF Insert, ValidRows
<1>2. CASE InsertIgnore
  BY <1>0, <1>2, BatchIs, InsertDoNothingDense DEF InsertIgnore
<1>3. CASE Upsert
  BY <1>3, BatchIs, FastUpsertDense, ConflictUpdatesDense DEF Upsert, ReplaceColumns
<1>4. CASE SqlUpsert
  BY <1>4, SingleBatchIs, ConflictUpdatesDense DEF SqlUpsert
<1>5. CASE Update
  BY <1>0, <1>5, UpdateRowsDense DEF Update
<1>6. CASE Delete
  BY <1>0, <1>6, DeletedRowsExist, DeleteDense DEF Delete
<1>7. CASE CreateIndex
  <2>1. PICK name \in IndexNames \ DOMAIN table.indexes, c \in Scalars :
          table' = [table EXCEPT !.indexes = Put(@, name, BuildIndex(c, table.rows))]
    BY <1>7 DEF CreateIndex
  <2>2. PICK indexes : indexes = Put(table.indexes, name, BuildIndex(c, table.rows))
    OBVIOUS
  <2>3. table' = [table EXCEPT !.indexes = indexes]
    BY <2>1, <2>2
  <2> QED BY <1>0, <2>3, IndexesAside
<1>8. CASE DropIndex
  <2>1. PICK name \in DOMAIN table.indexes :
          table' = [table EXCEPT !.indexes = Restrict(@, DOMAIN @ \ {name})]
    BY <1>8 DEF DropIndex
  <2>2. PICK indexes : indexes = Restrict(table.indexes, DOMAIN table.indexes \ {name})
    OBVIOUS
  <2>3. table' = [table EXCEPT !.indexes = indexes]
    BY <2>1, <2>2
  <2> QED BY <1>0, <2>3, IndexesAside
<1>9. CASE Reload
  BY <1>0, <1>9, LoadedDenseHolds DEF Reload
<1>10. CASE FillCache
  <2>1. PICK c \in Vectors : table' = [table EXCEPT !.vector_columns[c].remembered = table.rows]
    BY <1>10 DEF FillCache
  <2>2. PICK columns : columns = [table.vector_columns EXCEPT ![c].remembered = table.rows]
    OBVIOUS
  <2>3. table' = [table EXCEPT !.vector_columns = columns]
    BY <2>1, <2>2
  <2> QED BY <1>0, <2>2, <2>3, FillCacheDense
<1>11. CASE UNCHANGED table
  BY <1>0, <1>11
<1> QED BY <1>1, <1>2, <1>3, <1>4, <1>5, <1>6, <1>7, <1>8, <1>9, <1>10, <1>11 DEF Next

WholeHolds == Whole(table)

LEMMA WholeHoldsAlways == Spec => []WholeHolds
<1>1. Init => WholeHolds
  BY InitRelational, InitDense DEF WholeHolds, Whole
<1>2. WholeHolds /\ [Next]_table => WholeHolds'
  BY RelationalIsInductive, DenseIsInductive DEF WholeHolds, Whole
<1> QED BY <1>1, <1>2, PTL DEF Spec

\* After any mix of fast and general statements every cache is what a rebuild
\* from the rows would give: the unique keys, the buckets, and, whatever slabs
\* it is cut into, each dense column for every row.
THEOREM Caches == Spec => []CachesMatchRows
<1>1. WholeHolds => CachesMatchRows
  <2> SUFFICES ASSUME Whole(table) PROVE CachesMatchRows
    BY DEF WholeHolds
  <2>0. PICK rows, indexes, keys, columns :
          /\ rows = table.rows /\ indexes = table.indexes /\ keys = table.unique_keys
          /\ columns = table.vector_columns
    OBVIOUS
  <2>1. /\ IsSeq(rows) /\ KeysHold(keys, rows) /\ IndexesHold(indexes, rows)
        /\ DenseHolds(columns, rows) /\ DOMAIN rows = 1 .. Len(rows)
    BY <2>0, SeqDomain DEF Whole, Relational, Dense, RowsHold, ValidRows
  <2>2. ASSUME NEW c \in Unique PROVE keys[c] = ExtendKeys(<<>>, c, rows, 0)
    <3>1. PICK k : k = ExtendKeys(<<>>, c, rows, 0)
      OBVIOUS
    <3>2. IsMap(keys[c]) /\ NamesRows(keys[c], rows, c) /\ DistinctKeys(rows, c)
      BY <2>1, NamedAreDistinct DEF KeysHold
    <3>3. IsMap(k) /\ NamesRows(k, rows, c)
      BY <2>1, <3>1, <3>2, RebuildNames, KeysAreMaps
    <3> QED BY <3>1, <3>2, <3>3, NamesIsOne
  <2>3. ASSUME NEW n \in DOMAIN indexes
        PROVE  indexes[n].buckets = ExtendBuckets(<<>>, indexes[n].column, rows, 0)
    <3>1. PICK c, b, b2 : /\ c = indexes[n].column /\ b = indexes[n].buckets
                          /\ b2 = ExtendBuckets(<<>>, c, rows, 0)
      OBVIOUS
    <3>2. Posted(b, ColumnOf(rows, c))
      BY <2>1, <3>1 DEF IndexesHold
    <3>3. Posted(b2, ColumnOf(rows, c))
      BY <2>1, <3>1, RebuildPosts
    <3> QED BY <3>1, <3>2, <3>3, PostedIsOne
  <2>4. ASSUME NEW c \in Vectors
        PROVE  /\ columns[c].row_count = Len(rows)
               /\ \A p \in DOMAIN rows : DenseGet(columns[c], p) = rows[p][c]
    <3>1. PICK d : d = columns[c]
      OBVIOUS
    <3>2. Packs(d, ColumnOf(rows, c), Len(rows))
      BY <2>1, <3>1 DEF DenseHolds
    <3>3. \A p \in DOMAIN rows : DenseGet(d, p) = ColumnOf(rows, c)[p]
      BY <2>1, <3>2, DenseGetIs
    <3>4. \A p \in DOMAIN rows : ColumnOf(rows, c)[p] = rows[p][c]
      BY <2>1, ColumnSeq
    <3> QED BY <3>1, <3>2, <3>3, <3>4 DEF Packs
  <2> QED BY <2>0, <2>2, <2>3, <2>4 DEF CachesMatchRows
<1> QED BY <1>1, WholeHoldsAlways, PTL

\* What a reader derived under the storage_id still current was derived from the
\* rows as they are, whichever statements ran since.
THEOREM Generations == Spec => []GenerationNamesContent
<1>1. WholeHolds => GenerationNamesContent
  BY DEF WholeHolds, Whole, Dense, DenseHolds, GenerationNamesContent
<1> QED BY <1>1, WholeHoldsAlways, PTL

-----------------------------------------------------------------------------
(* Lookups: rows found through the indexes are those of a scan, in its order. *)

\* A scan's test of a term is the index's: a NaN is no key of a term.
LEMMA TermIs ==
    ASSUME NEW term \in Terms
    PROVE  /\ IsFiniteSet(term.values) /\ Null \notin Keys(term)
           /\ \A row : TermHolds(term, row) <=>
                 row[term.column] # Null /\ Key(row[term.column]) \in Keys(term)
<1>1. PICK c \in Scalars : term \in [column : {c}, values : {{v, w} : v, w \in Values(c) \ {NaN}}]
  BY DEF Terms
<1>2. PICK v, w \in Values(c) \ {NaN} : term.values = {v, w}
  BY <1>1
<1>3. IsFiniteSet(term.values)
  <2>1. IsFiniteSet({v}) /\ {v, w} = {v} \cup {w}
    BY FS_Singleton
  <2> QED BY <1>2, <2>1, FS_AddElement
<1>4. Null # Zero /\ Null # NegZero /\ NaN # Zero /\ NaN # NegZero
  BY TableStoreAssumption DEF TableStoreAssumption
<1>5. \A x \in term.values : x # NaN /\ (Key(x) = Null => x = Null) /\ Key(x) # NaN
  BY <1>2, <1>4 DEF Key
<1>6. Null \notin Keys(term)
  BY <1>5 DEF Keys
<1>7. ASSUME NEW row
      PROVE  TermHolds(term, row) <=>
               row[term.column] # Null /\ Key(row[term.column]) \in Keys(term)
  <2> DEFINE value == row[term.column]
  <2>1. TermHolds(term, row) <=>
          \E x \in term.values : x # Null /\ value # Null /\ Equal(value, x)
    BY DEF TermHolds
  <2>2. Key(value) \in Keys(term) <=> \E x \in term.values : x # Null /\ Key(value) = Key(x)
    BY DEF Keys
  <2>3. value = NaN => Key(value) = NaN
    BY <1>4 DEF Key
  <2> HIDE DEF value
  <2>4. \A x \in term.values : Equal(value, x) <=> Key(value) = Key(x)
    BY <1>5, <2>3 DEF Equal
  <2> QED BY <2>1, <2>2, <2>4 DEF value
<1> QED BY <1>3, <1>6, <1>7

\* The rows on which a term holds.
Meets(t, term) == {p \in DOMAIN t.rows : TermHolds(term, t.rows[p])}

LEMMA TermRowsMeet ==
    ASSUME NEW t, Relational(t), NEW term \in Terms, Indexed(t, term)
    PROVE  Ascends(TermRows(t, term)) /\ ToSet(TermRows(t, term)) = Meets(t, term)
<1>1. Ascends(TermRows(t, term)) /\ ToSet(TermRows(t, term)) = Named(t, term)
  BY TermIs, TermRowsAre
<1>2. Named(t, term) = Meets(t, term)
  BY TermIs DEF Named, Meets, Keyed
<1> QED BY <1>1, <1>2

\* One posting, or with several the row's own key, admits the rows of the term.
LEMMA AdmitsIs ==
    ASSUME NEW t, Relational(t), NEW term \in Terms, Indexed(t, term), NEW p \in DOMAIN t.rows
    PROVE  Admits(t, term, p) = (p \in Meets(t, term))
<1> DEFINE ps == Postings(t, term)
           value == t.rows[p][term.column]
<1>1. CASE Len(ps) = 1
  <2> DEFINE first == ps[1]
  <2>1. TermRows(t, term) = first
    BY <1>1 DEF TermRows
  <2>2. Ascends(first) /\ ToSet(first) = Meets(t, term)
    BY <2>1, TermRowsMeet
  <2>3. Admits(t, term, p) = Contains(first, p)
    BY <1>1 DEF Admits
  <2> HIDE DEF first
  <2>4. Contains(first, p) <=> p \in ToSet(first)
    BY <2>2, AscendsPlaces DEF Contains
  <2>5. Contains(first, p) \in BOOLEAN
    BY DEF Contains
  <2> QED BY <2>2, <2>3, <2>4, <2>5
<1>2. CASE Len(ps) # 1
  <2>1. Admits(t, term, p) = (Key(value) \in Keys(term))
    BY <1>2 DEF Admits
  <2>2. p \in Meets(t, term) <=> value # Null /\ Key(value) \in Keys(term)
    BY TermIs DEF Meets
  <2>3. value = Null => Key(value) = Null
    BY TableStoreAssumption DEF Key, TableStoreAssumption
  <2> QED BY <2>1, <2>2, <2>3, TermIs
<1> QED BY <1>1, <1>2

\* Filtering ascending rows by a test that a set decides.
LEMMA FilteredAre ==
    ASSUME NEW rows, Ascends(rows), NEW keep, NEW set,
           \A i \in DOMAIN rows : keep[i] = (rows[i] \in set)
    PROVE  Ascends(Kept(rows, keep)) /\ ToSet(Kept(rows, keep)) = ToSet(rows) \cap set
<1>1. rows \in Seq(ToSet(rows)) /\ DOMAIN rows = 1 .. Len(rows)
  BY AscendsPlaces DEF Ascends, IsSeq
<1>2. Kept(rows, keep) = Only(rows, set)
  BY <1>1, OnlyIs
<1> QED BY <1>2, AscendsOnly

\* The rows of one term for which a test decided by the other term holds.
LEMMA BothMeet ==
    ASSUME NEW t, Relational(t), NEW one \in Terms, Indexed(t, one), NEW other,
           NEW keep, DOMAIN keep = DOMAIN TermRows(t, one),
           \A i \in DOMAIN keep : keep[i] = (TermRows(t, one)[i] \in Meets(t, other))
    PROVE  /\ Ascends(Kept(TermRows(t, one), keep))
           /\ ToSet(Kept(TermRows(t, one), keep)) = Meets(t, one) \cap Meets(t, other)
<1> DEFINE rows == TermRows(t, one)
<1>1. Ascends(rows) /\ ToSet(rows) = Meets(t, one)
  BY TermRowsMeet
<1> HIDE DEF rows
<1>2. \A i \in DOMAIN rows : keep[i] = (rows[i] \in Meets(t, other))
  BY DEF rows
<1>3. Ascends(Kept(rows, keep)) /\ ToSet(Kept(rows, keep)) = ToSet(rows) \cap Meets(t, other)
  BY <1>1, <1>2, FilteredAre
<1> QED BY <1>1, <1>3 DEF rows

\* The rows of one term tried on the other, by its postings or by its values.
Admitted(t, one, other) == Where(TermRows(t, one), LAMBDA p : Admits(t, other, p))
Tested(t, one, other) == Where(TermRows(t, one), LAMBDA p : TermHolds(other, t.rows[p]))

LEMMA AdmittedMeet ==
    ASSUME NEW t, Relational(t), NEW one \in Terms, Indexed(t, one),
           NEW other \in Terms, Indexed(t, other)
    PROVE  /\ Ascends(Admitted(t, one, other))
           /\ ToSet(Admitted(t, one, other)) = Meets(t, one) \cap Meets(t, other)
<1> DEFINE rows == TermRows(t, one)
           keep == [i \in DOMAIN rows |-> Admits(t, other, rows[i])]
<1>1. Admitted(t, one, other) = Kept(rows, keep)
  BY DEF Admitted, Where
<1>2. \A i \in DOMAIN rows : rows[i] \in DOMAIN t.rows
  BY TermRowsMeet, AscendsPlaces DEF Meets
<1>3. \A i \in DOMAIN rows : keep[i] = (rows[i] \in Meets(t, other))
  <2> TAKE i \in DOMAIN rows
  <2>1. Admits(t, other, rows[i]) = (rows[i] \in Meets(t, other))
    BY <1>2, AdmitsIs
  <2>2. keep[i] = Admits(t, other, rows[i])
    OBVIOUS
  <2> HIDE DEF keep, rows
  <2> QED BY <2>1, <2>2
<1>4. DOMAIN keep = DOMAIN rows
  OBVIOUS
<1> HIDE DEF keep
<1>5. DOMAIN keep = DOMAIN TermRows(t, one)
      /\ \A i \in DOMAIN keep : keep[i] = (TermRows(t, one)[i] \in Meets(t, other))
  BY <1>3, <1>4
<1>6. /\ Ascends(Kept(TermRows(t, one), keep))
      /\ ToSet(Kept(TermRows(t, one), keep)) = Meets(t, one) \cap Meets(t, other)
  BY <1>5, BothMeet
<1> QED BY <1>1, <1>6

LEMMA TestedMeet ==
    ASSUME NEW t, Relational(t), NEW one \in Terms, Indexed(t, one), NEW other \in Terms
    PROVE  /\ Ascends(Tested(t, one, other))
           /\ ToSet(Tested(t, one, other)) = Meets(t, one) \cap Meets(t, other)
<1> DEFINE rows == TermRows(t, one)
           keep == [i \in DOMAIN rows |-> TermHolds(other, t.rows[rows[i]])]
<1>1. Tested(t, one, other) = Kept(rows, keep)
  BY DEF Tested, Where
<1>2. \A i \in DOMAIN rows : rows[i] \in DOMAIN t.rows
  BY TermRowsMeet, AscendsPlaces DEF Meets
<1>3. \A i \in DOMAIN rows : keep[i] = (rows[i] \in Meets(t, other))
  <2> TAKE i \in DOMAIN rows
  <2> DEFINE p == rows[i]
  <2>1. keep[i] = TermHolds(other, t.rows[p])
    OBVIOUS
  <2>2. p \in Meets(t, other) <=> TermHolds(other, t.rows[p])
    BY <1>2 DEF Meets
  <2>3. TermHolds(other, t.rows[p]) \in BOOLEAN
    BY DEF TermHolds
  <2> HIDE DEF keep, p, rows
  <2>4. keep[i] = (p \in Meets(t, other))
    BY <2>1, <2>2, <2>3
  <2> QED BY <2>4 DEF p
<1>4. DOMAIN keep = DOMAIN rows
  OBVIOUS
<1> HIDE DEF keep
<1>5. DOMAIN keep = DOMAIN TermRows(t, one)
      /\ \A i \in DOMAIN keep : keep[i] = (TermRows(t, one)[i] \in Meets(t, other))
  BY <1>3, <1>4
<1>6. /\ Ascends(Kept(TermRows(t, one), keep))
      /\ ToSet(Kept(TermRows(t, one), keep)) = Meets(t, one) \cap Meets(t, other)
  BY <1>5, BothMeet
<1> QED BY <1>1, <1>6

\* Ascending rows that meet the predicate are what a scan gives.
LEMMA IsTheScan ==
    ASSUME NEW t, Relational(t), NEW pred, NEW found, Ascends(found),
           \A p : p \in ToSet(found) <=> p \in DOMAIN t.rows /\ Holds(pred, t.rows[p])
    PROVE  found = Scan(t, pred)
<1> DEFINE scan == Scan(t, pred)
<1>1. IsSeq(t.rows)
  BY DEF Relational, RowsHold, ValidRows
<1>2. Ascends(scan) /\ ToSet(scan) = {p \in DOMAIN t.rows : Holds(pred, t.rows[p])}
  BY <1>1, ScanIs
<1> HIDE DEF scan
<1>3. ToSet(found) = ToSet(scan)
  BY <1>2
<1>4. found = scan
  BY <1>2, <1>3, AscendsEqual
<1> QED BY <1>4 DEF scan

\* However a predicate is answered, from the postings of one term, by trying the
\* rows of one on the postings or the values of the other, by merging, or by a
\* scan, the rows found are the same.
LEMMA LookupIsScan ==
    ASSUME NEW t, Relational(t), NEW pred,
           pred \in {Single(term) : term \in Terms}
                    \cup {Joined(op, left, right) : op \in {"and", "or"}, left, right \in Terms}
    PROVE  IndexedRows(t, pred) = Scan(t, pred)
<1> DEFINE left == pred.left
           right == pred.right
<1>1. /\ left \in Terms /\ right \in Terms
      /\ (pred.op = "term" /\ right = left) \/ pred.op = "and" \/ pred.op = "or"
  BY DEF Single, Joined
<1> HIDE DEF left, right
<1>2. \A p : p \in Meets(t, left) <=> p \in DOMAIN t.rows /\ TermHolds(left, t.rows[p])
  BY DEF Meets
<1>3. \A p : p \in Meets(t, right) <=> p \in DOMAIN t.rows /\ TermHolds(right, t.rows[p])
  BY DEF Meets
<1>4. \A row : Holds(pred, row) <=>
        \/ pred.op = "term" /\ TermHolds(left, row)
        \/ pred.op = "and" /\ TermHolds(left, row) /\ TermHolds(right, row)
        \/ pred.op = "or" /\ (TermHolds(left, row) \/ TermHolds(right, row))
  BY <1>1 DEF Holds, left, right
<1>5. FullyIndexed(t, pred) <=> Indexed(t, left) /\ Indexed(t, right)
  BY <1>1 DEF FullyIndexed, left, right
<1>6. CASE pred.op = "term" /\ Indexed(t, left)
  <2>1. IndexedRows(t, pred) = TermRows(t, left)
    BY <1>6 DEF IndexedRows, left
  <2>2. Ascends(TermRows(t, left)) /\ ToSet(TermRows(t, left)) = Meets(t, left)
    BY <1>1, <1>6, TermRowsMeet
  <2>3. \A p : p \in ToSet(TermRows(t, left)) <=> p \in DOMAIN t.rows /\ Holds(pred, t.rows[p])
    BY <1>2, <1>4, <1>6, <2>2
  <2> QED BY <2>1, <2>2, <2>3, IsTheScan
<1>7. CASE pred.op = "and" /\ FullyIndexed(t, pred)
  <2> DEFINE found == AndRows(t, left, right)
  <2>1. IndexedRows(t, pred) = found
    BY <1>5, <1>7 DEF IndexedRows, left, right
  <2>2. Ascends(found) /\ ToSet(found) = Meets(t, left) \cap Meets(t, right)
    <3>1. CASE Len(TermRows(t, right)) < Len(TermRows(t, left))
      <4>1. found = Admitted(t, right, left)
        BY <3>1 DEF AndRows, Admitted
      <4> QED BY <1>1, <1>5, <1>7, <4>1, AdmittedMeet
    <3>2. CASE ~(Len(TermRows(t, right)) < Len(TermRows(t, left)))
      <4>1. found = Admitted(t, left, right)
        BY <3>2 DEF AndRows, Admitted
      <4> QED BY <1>1, <1>5, <1>7, <4>1, AdmittedMeet
    <3> QED BY <3>1, <3>2
  <2> HIDE DEF found
  <2>3. \A p : p \in ToSet(found) <=> p \in DOMAIN t.rows /\ Holds(pred, t.rows[p])
    BY <1>2, <1>3, <1>4, <1>7, <2>2
  <2> QED BY <2>1, <2>2, <2>3, IsTheScan
<1>8. CASE pred.op = "or" /\ FullyIndexed(t, pred)
  <2> DEFINE found == OrRows(t, left, right)
             both == Meets(t, left) \cup Meets(t, right)
  <2>1. IndexedRows(t, pred) = found
    BY <1>8 DEF IndexedRows, left, right
  <2>2. ToSet(TermRows(t, left)) = Meets(t, left) /\ ToSet(TermRows(t, right)) = Meets(t, right)
    BY <1>1, <1>5, <1>8, TermRowsMeet
  <2>3. found = Positions(both)
    BY <2>2 DEF OrRows
  <2>4. \A p : p \in both <=> p \in DOMAIN t.rows /\ Holds(pred, t.rows[p])
    BY <1>2, <1>3, <1>4, <1>8
  <2> HIDE DEF both
  <2>5. PICK n \in Nat : DOMAIN t.rows = 1 .. n
    BY SeqDomain DEF Relational, RowsHold, ValidRows
  <2>6. Ascends(Positions(both)) /\ ToSet(Positions(both)) = both
    BY <2>4, <2>5, PositionsAre
  <2> HIDE DEF found
  <2> QED BY <2>1, <2>3, <2>4, <2>6, IsTheScan
<1>9. CASE pred.op = "and" /\ Indexed(t, left) /\ ~Indexed(t, right)
  <2> DEFINE found == Tested(t, left, right)
  <2>1. IndexedRows(t, pred) = found
    BY <1>5, <1>9 DEF IndexedRows, Tested, left, right
  <2>2. Ascends(found) /\ ToSet(found) = Meets(t, left) \cap Meets(t, right)
    BY <1>1, <1>9, TestedMeet
  <2> HIDE DEF found
  <2>3. \A p : p \in ToSet(found) <=> p \in DOMAIN t.rows /\ Holds(pred, t.rows[p])
    BY <1>2, <1>3, <1>4, <1>9, <2>2
  <2> QED BY <2>1, <2>2, <2>3, IsTheScan
<1>10. CASE pred.op = "and" /\ Indexed(t, right) /\ ~Indexed(t, left)
  <2> DEFINE found == Tested(t, right, left)
  <2>1. IndexedRows(t, pred) = found
    BY <1>5, <1>10 DEF IndexedRows, Tested, left, right
  <2>2. Ascends(found) /\ ToSet(found) = Meets(t, right) \cap Meets(t, left)
    BY <1>1, <1>10, TestedMeet
  <2> HIDE DEF found
  <2>3. \A p : p \in ToSet(found) <=> p \in DOMAIN t.rows /\ Holds(pred, t.rows[p])
    BY <1>2, <1>3, <1>4, <1>10, <2>2
  <2> QED BY <2>1, <2>2, <2>3, IsTheScan
<1>11. CASE /\ ~(pred.op = "term" /\ Indexed(t, left))
            /\ ~(pred.op = "and" /\ FullyIndexed(t, pred))
            /\ ~(pred.op = "or" /\ FullyIndexed(t, pred))
            /\ ~(pred.op = "and" /\ Indexed(t, left) /\ ~Indexed(t, right))
            /\ ~(pred.op = "and" /\ Indexed(t, right) /\ ~Indexed(t, left))
  BY <1>11 DEF IndexedRows, left, right
<1> QED BY <1>6, <1>7, <1>8, <1>9, <1>10, <1>11

\* Rows found through the indexes are those of a scan, in the same order, after
\* any statements: the postings are the rows' own, each ascending, and a scan
\* refuses a NaN that an index would not find either.
THEOREM Lookups == Spec => []IndexedIsScan
<1>1. TableHolds => IndexedIsScan
  BY LookupIsScan DEF TableHolds, IndexedIsScan
<1> QED BY <1>1, TableHoldsAlways, PTL

-----------------------------------------------------------------------------
(* The typed upsert and the general conflict update, side by side: after as   *)
(* many rows of the batch the patch and the working rows say the same.        *)

Together(t, conflict, updates, appended, inserted, rows, touched, affected) ==
    /\ Len(rows) = Len(t.rows) + Len(appended)
    /\ \A p \in 1 .. Len(t.rows) :
          rows[p] = IF p \in DOMAIN updates THEN updates[p] ELSE t.rows[p]
    /\ \A i \in 1 .. Len(appended) : rows[Len(t.rows) + i] = appended[i]
    /\ \A p : p \in touched <=>
          p \in DOMAIN updates \/ p \in Len(t.rows) + 1 .. Len(t.rows) + Len(appended)
    /\ \A p \in DOMAIN updates : updates[p][conflict] = t.rows[p][conflict]
    /\ \A k : k \in inserted <=>
          /\ k \notin {Null, NaN}
          /\ \E i \in 1 .. Len(appended) : Key(appended[i][conflict]) = k
    /\ \A k \in inserted : k \notin DOMAIN t.unique_keys[conflict]
    /\ affected = TRUE \/ rows = t.rows

InStep(t, conflict, patch, state) ==
    /\ patch.ok \in BOOLEAN /\ state.ok = patch.ok
    /\ Together(t, conflict, patch.updates, patch.appended, patch.inserted,
                state.rows, state.touched, state.affected)

\* What both know of the batch so far.
Beside(t, conflict, patch, state) ==
    /\ IsSeq(t.rows) /\ NamesRows(t.unique_keys[conflict], t.rows, conflict)
    /\ PatchOf(t, patch) /\ StateOf(state)
    /\ InStep(t, conflict, patch, state)

\* The working rows whose conflict key is the value's.
Matching(state, conflict, value) ==
    {p \in DOMAIN state.rows : value # Null /\ Equal(state.rows[p][conflict], value)}

LEMMA KeyOfNaN == \A value : Key(value) = NaN <=> value = NaN
BY TableStoreAssumption DEF Key, TableStoreAssumption

\* The scan of the working rows finds what the key map and the set of inserted
\* keys say: a stored row that may have been replaced, or a row added before.
LEMMA MatchingAre ==
    ASSUME NEW t, NEW conflict, NEW patch, NEW state, Beside(t, conflict, patch, state),
           NEW value, NEW row, row = FindConflict(t, conflict, value),
           NEW matches, matches = Matching(state, conflict, value)
    PROVE  /\ value \in {Null, NaN} => row = 0 /\ matches = {}
           /\ value \notin {Null, NaN} /\ row # 0 =>
                 /\ row \in DOMAIN t.rows /\ matches = {row} /\ Key(value) \notin patch.inserted
           /\ value \notin {Null, NaN} /\ row = 0 =>
                 /\ matches \subseteq DOMAIN state.rows \cap state.touched
                 /\ matches = {} <=> Key(value) \notin patch.inserted
                 /\ Key(value) \notin DOMAIN t.unique_keys[conflict]
<1> DEFINE n == Len(t.rows)
           m == Len(patch.appended)
           keys == t.unique_keys[conflict]
           k == Key(value)
<1>1. /\ n \in Nat /\ DOMAIN t.rows = 1 .. n /\ m \in Nat
      /\ DOMAIN state.rows = 1 .. n + m
  BY SeqDomain DEF Beside, InStep, Together, StateOf, PatchOf, ValidRows
<1>2. DOMAIN patch.updates \subseteq 1 .. n
  BY <1>1 DEF Beside, PatchOf
<1>3. /\ \A p \in 1 .. n : state.rows[p][conflict] = t.rows[p][conflict]
      /\ \A i \in 1 .. m : state.rows[n + i] = patch.appended[i]
      /\ \A p : p \in state.touched <=> p \in DOMAIN patch.updates \/ p \in n + 1 .. n + m
  BY <1>1, <1>2 DEF Beside, InStep, Together
<1>4. /\ \A l : l \in patch.inserted <=>
            l \notin {Null, NaN} /\ \E i \in 1 .. m : Key(patch.appended[i][conflict]) = l
      /\ \A l \in patch.inserted : l \notin DOMAIN keys
  BY DEF Beside, InStep, Together
<1>5. /\ \A l \in DOMAIN keys : /\ keys[l] \in 1 .. n /\ Key(t.rows[keys[l]][conflict]) = l
                                /\ keys[l] # 0
      /\ \A p \in 1 .. n : t.rows[p][conflict] # Null =>
            /\ Key(t.rows[p][conflict]) \in DOMAIN keys
            /\ keys[Key(t.rows[p][conflict])] = p
  BY <1>1 DEF Beside, NamesRows, Keyed
<1>6. row = IF value \notin {Null, NaN} /\ k \in DOMAIN keys THEN keys[k] ELSE 0
  BY DEF FindConflict
<1>7. \A p : p \in matches <=>
        p \in 1 .. n + m /\ value # Null /\ Equal(state.rows[p][conflict], value)
  BY <1>1 DEF Matching
<1> HIDE DEF n, m, keys, k
<1>8. CASE value \in {Null, NaN}
  <2>1. \A x : ~Equal(x, NaN)
    BY KeyOfNaN DEF Equal
  <2> QED BY <1>6, <1>7, <1>8, <2>1
<1>9. CASE value \notin {Null, NaN}
  <2>1. k # Null /\ k # NaN
    BY <1>9, KeyOfNull, KeyOfNaN DEF k
  <2>2. \A x : Equal(x, value) <=> Key(x) = k
    BY <2>1, KeyOfNaN DEF Equal, k
  <2>3. \A p : p \in matches <=> p \in 1 .. n + m /\ Key(state.rows[p][conflict]) = k
    BY <1>7, <1>9, <2>2
  <2>4. \A p \in 1 .. n : p \in matches <=> k \in DOMAIN keys /\ keys[k] = p
    <3> TAKE p \in 1 .. n
    <3>1. p \in 1 .. n + m
      BY <1>1
    <3>2. p \in matches <=> Key(t.rows[p][conflict]) = k
      BY <1>3, <2>3, <3>1
    <3>3. Key(t.rows[p][conflict]) = k => t.rows[p][conflict] # Null
      BY <2>1, KeyOfNull
    <3> QED BY <1>5, <3>2, <3>3
  <2>5. \A i \in 1 .. m : n + i \in matches <=> Key(patch.appended[i][conflict]) = k
    <3> TAKE i \in 1 .. m
    <3>1. n + i \in 1 .. n + m
      BY <1>1
    <3> QED BY <1>3, <2>3, <3>1
  <2>6. \A p \in 1 .. n + m : p \in 1 .. n \/ \E i \in 1 .. m : p = n + i
    <3> TAKE p \in 1 .. n + m
    <3>1. p \in 1 .. n \/ (p - n \in 1 .. m /\ p = n + (p - n))
      BY <1>1
    <3> QED BY <3>1
  <2>7. k \in patch.inserted <=> \E i \in 1 .. m : n + i \in matches
    BY <1>4, <2>1, <2>5
  <2>8. \A p \in matches : p \in 1 .. n + m
    BY <2>3
  <2>9. CASE row # 0
    <3>1. k \in DOMAIN keys /\ row = keys[k] /\ row \in 1 .. n
      BY <1>5, <1>6, <1>9, <2>9
    <3>2. k \notin patch.inserted
      BY <1>4, <3>1
    <3>3. matches = {row}
      BY <2>4, <2>6, <2>7, <2>8, <3>1, <3>2
    <3> QED BY <1>1, <1>9, <2>9, <3>1, <3>2, <3>3 DEF k
  <2>10. CASE row = 0
    <3>1. k \notin DOMAIN keys
      BY <1>5, <1>6, <1>9, <2>10
    <3>2. \A p \in matches : \E i \in 1 .. m : p = n + i
      BY <2>4, <2>6, <2>8, <3>1
    <3>3. \A i \in 1 .. m : n + i \in n + 1 .. n + m
      BY <1>1
    <3>4. matches \subseteq DOMAIN state.rows \cap state.touched
      BY <1>1, <1>3, <2>8, <3>2, <3>3
    <3> QED BY <1>9, <2>7, <2>10, <3>1, <3>2, <3>4 DEF k, keys
  <2> QED BY <2>9, <2>10
<1> QED BY <1>8, <1>9

\* What each does with a row of the batch.
PatchAdds(patch, excluded, value) ==
    [patch EXCEPT !.appended = Append(@, excluded),
                  !.inserted = @ \cup ({Key(value)} \ {Null, NaN})]
StateAdds(state, excluded) ==
    [state EXCEPT !.rows = Append(@, excluded),
                  !.touched = @ \cup {Len(state.rows) + 1},
                  !.affected = TRUE]
PatchReplaces(patch, row, replacement) ==
    [patch EXCEPT !.ok = ValidRow(replacement),
                  !.updates = Put(@, row, replacement)]
StateReplaces(state, row, replacement) ==
    [state EXCEPT !.ok = ValidRow(replacement),
                  !.rows[row] = replacement,
                  !.touched = @ \cup {row},
                  !.affected = TRUE]

\* Both refuse: nothing but the verdict changes.
LEMMA BothRefuse ==
    ASSUME NEW t, NEW conflict, NEW patch, NEW state, Beside(t, conflict, patch, state),
           NEW p2, p2 = [patch EXCEPT !.ok = FALSE],
           NEW s2, s2 = [state EXCEPT !.ok = FALSE]
    PROVE  InStep(t, conflict, p2, s2)
<1>1. p2 = [ok |-> FALSE, updates |-> patch.updates,
            appended |-> patch.appended, inserted |-> patch.inserted]
  BY DEF Beside, PatchOf
<1>2. s2 = [ok |-> FALSE, rows |-> state.rows, touched |-> state.touched,
            affected |-> state.affected]
  BY DEF Beside, StateOf
<1>3. /\ p2.ok = FALSE /\ p2.updates = patch.updates
      /\ p2.appended = patch.appended /\ p2.inserted = patch.inserted
  BY ONLY <1>1
<1>4. /\ s2.ok = FALSE /\ s2.rows = state.rows
      /\ s2.touched = state.touched /\ s2.affected = state.affected
  BY ONLY <1>2
<1>5. InStep(t, conflict, patch, state)
  BY DEF Beside
<1> QED BY ONLY <1>3, <1>4, <1>5 DEF InStep

\* Both append the row.
LEMMA BothAppend ==
    ASSUME NEW t, NEW conflict, NEW patch, NEW state, Beside(t, conflict, patch, state),
           patch.ok = TRUE, NEW excluded, NEW value, value = excluded[conflict],
           value \notin {Null, NaN} => Key(value) \notin DOMAIN t.unique_keys[conflict],
           NEW p2, p2 = PatchAdds(patch, excluded, value),
           NEW s2, s2 = StateAdds(state, excluded)
    PROVE  InStep(t, conflict, p2, s2)
<1> DEFINE n == Len(t.rows)
           a == patch.appended
           a2 == Append(a, excluded)
           m == Len(a)
           w == state.rows
           w2 == Append(w, excluded)
           i2 == patch.inserted \cup ({Key(value)} \ {Null, NaN})
           t2 == state.touched \cup {Len(w) + 1}
<1>1. p2 = [ok |-> patch.ok, updates |-> patch.updates, appended |-> a2, inserted |-> i2]
  BY DEF Beside, PatchOf, PatchAdds
<1>2. s2 = [ok |-> state.ok, rows |-> w2, touched |-> t2, affected |-> TRUE]
  BY DEF Beside, StateOf, StateAdds
<1>3. n \in Nat /\ IsSeq(a) /\ IsSeq(w) /\ m \in Nat /\ Len(w) = n + m
  BY SeqDomain DEF Beside, InStep, Together, StateOf, PatchOf, ValidRows
<1>4. /\ Len(a2) = m + 1 /\ a2[m + 1] = excluded /\ \A i \in 1 .. m : a2[i] = a[i]
  BY <1>3, SeqAppend DEF IsSeq
<1>5. /\ Len(w2) = n + m + 1 /\ w2[n + m + 1] = excluded /\ \A i \in 1 .. n + m : w2[i] = w[i]
  <2>1. PICK l : l = n + m
    OBVIOUS
  <2> HIDE DEF w, n, m
  <2>2. l \in Nat /\ IsSeq(w) /\ Len(w) = l
    BY ONLY <1>3, <2>1
  <2>3. Len(w2) = l + 1 /\ w2[l + 1] = excluded /\ \A i \in 1 .. l : w2[i] = w[i]
    BY <2>2, SeqAppend DEF IsSeq
  <2> QED BY <2>1, <2>3
<1>6. /\ \A p \in 1 .. n : w[p] = IF p \in DOMAIN patch.updates THEN patch.updates[p] ELSE t.rows[p]
      /\ \A i \in 1 .. m : w[n + i] = a[i]
      /\ \A p : p \in state.touched <=> p \in DOMAIN patch.updates \/ p \in n + 1 .. n + m
      /\ \A p \in DOMAIN patch.updates : patch.updates[p][conflict] = t.rows[p][conflict]
      /\ \A k : k \in patch.inserted <=>
            k \notin {Null, NaN} /\ \E i \in 1 .. m : Key(a[i][conflict]) = k
      /\ \A k \in patch.inserted : k \notin DOMAIN t.unique_keys[conflict]
      /\ patch.ok \in BOOLEAN /\ state.ok = patch.ok
  BY DEF Beside, InStep, Together
<1> HIDE DEF a, a2, w, w2, i2, t2, m, n
<1>7. \A p \in 1 .. n : w2[p] = IF p \in DOMAIN patch.updates THEN patch.updates[p] ELSE t.rows[p]
  <2>1. \A p \in 1 .. n : p \in 1 .. n + m
    BY <1>3
  <2> QED BY <1>5, <1>6, <2>1
<1>8. \A i \in 1 .. m + 1 : w2[n + i] = a2[i]
  <2> TAKE i \in 1 .. m + 1
  <2>1. CASE i = m + 1
    <3>1. n + i = n + m + 1
      BY <1>3, <2>1
    <3> QED BY <1>4, <1>5, <2>1, <3>1
  <2>2. CASE i # m + 1
    <3>1. i \in 1 .. m /\ n + i \in 1 .. n + m
      BY <1>3, <2>2
    <3> QED BY <1>4, <1>5, <1>6, <3>1
  <2> QED BY <2>1, <2>2
<1>9. \A p : p \in t2 <=> p \in DOMAIN patch.updates \/ p \in n + 1 .. n + (m + 1)
  <2>1. \A p : p \in n + 1 .. n + (m + 1) <=> p \in n + 1 .. n + m \/ p = n + m + 1
    BY <1>3
  <2>2. \A p : p \in t2 <=> p \in state.touched \/ p = n + m + 1
    BY <1>3 DEF t2
  <2> QED BY <1>6, <2>1, <2>2
<1>10. \A k : k \in i2 <=>
          k \notin {Null, NaN} /\ \E i \in 1 .. m + 1 : Key(a2[i][conflict]) = k
  <2> TAKE k
  <2>1. \A i : i \in 1 .. m + 1 <=> i \in 1 .. m \/ i = m + 1
    BY <1>3
  <2>2. (\E i \in 1 .. m + 1 : Key(a2[i][conflict]) = k) <=>
          (\E i \in 1 .. m : Key(a[i][conflict]) = k) \/ Key(value) = k
    BY <1>4, <2>1
  <2> QED BY <1>6, <2>2 DEF i2
<1>11. \A k \in i2 : k \notin DOMAIN t.unique_keys[conflict]
  <2>1. Key(value) \notin {Null, NaN} => value \notin {Null, NaN}
    BY KeyOfNull, KeyOfNaN
  <2> QED BY <1>6, <2>1 DEF i2
<1>12. /\ p2.ok = patch.ok /\ p2.updates = patch.updates /\ p2.appended = a2 /\ p2.inserted = i2
       /\ s2.ok = state.ok /\ s2.rows = w2 /\ s2.touched = t2 /\ s2.affected = TRUE
  BY ONLY <1>1, <1>2
<1>13. Len(w2) = n + Len(a2) /\ Len(a2) = m + 1
  BY <1>3, <1>4, <1>5
<1> QED BY ONLY <1>6, <1>7, <1>8, <1>9, <1>10, <1>11, <1>12, <1>13 DEF InStep, Together, n

\* Both replace the stored row.
LEMMA BothReplace ==
    ASSUME NEW t, NEW conflict, NEW patch, NEW state, Beside(t, conflict, patch, state),
           NEW row \in DOMAIN t.rows, NEW replacement,
           replacement[conflict] = t.rows[row][conflict],
           NEW p2, p2 = PatchReplaces(patch, row, replacement),
           NEW s2, s2 = StateReplaces(state, row, replacement)
    PROVE  InStep(t, conflict, p2, s2)
<1> DEFINE n == Len(t.rows)
           a == patch.appended
           m == Len(a)
           w == state.rows
           w2 == [w EXCEPT ![row] = replacement]
           u == patch.updates
           u2 == Put(u, row, replacement)
           t2 == state.touched \cup {row}
           valid == ValidRow(replacement)
<1>1. p2 = [ok |-> valid, updates |-> u2, appended |-> a, inserted |-> patch.inserted]
  BY DEF Beside, PatchOf, PatchReplaces
<1>2. s2 = [ok |-> valid, rows |-> w2, touched |-> t2, affected |-> TRUE]
  BY DEF Beside, StateOf, StateReplaces
<1>3. /\ n \in Nat /\ IsSeq(w) /\ m \in Nat /\ Len(w) = n + m /\ DOMAIN w = 1 .. n + m
      /\ row \in 1 .. n
  BY SeqDomain DEF Beside, InStep, Together, StateOf, PatchOf, ValidRows
<1>4. Len(w2) = n + m /\ \A p \in 1 .. n + m : w2[p] = IF p = row THEN replacement ELSE w[p]
  <2>1. DOMAIN w2 = 1 .. n + m /\ w2 = [p \in 1 .. n + m |-> w2[p]]
        /\ \A p \in 1 .. n + m : w2[p] = IF p = row THEN replacement ELSE w[p]
    BY <1>3
  <2> HIDE DEF w2, n, m
  <2>2. PICK l : l = n + m
    OBVIOUS
  <2>3. l \in Nat
    BY <1>3, <2>2
  <2> QED BY <2>1, <2>2, <2>3, SeqIsFunction
<1>5. DOMAIN u2 = DOMAIN u \cup {row}
      /\ \A p \in DOMAIN u2 : u2[p] = IF p = row THEN replacement ELSE u[p]
  BY DEF Put
<1>6. /\ \A p \in 1 .. n : w[p] = IF p \in DOMAIN u THEN u[p] ELSE t.rows[p]
      /\ \A i \in 1 .. m : w[n + i] = a[i]
      /\ \A p : p \in state.touched <=> p \in DOMAIN u \/ p \in n + 1 .. n + m
      /\ \A p \in DOMAIN u : u[p][conflict] = t.rows[p][conflict]
      /\ \A k : k \in patch.inserted <=>
            k \notin {Null, NaN} /\ \E i \in 1 .. m : Key(a[i][conflict]) = k
      /\ \A k \in patch.inserted : k \notin DOMAIN t.unique_keys[conflict]
  BY DEF Beside, InStep, Together
<1>7. valid \in BOOLEAN
  BY DEF ValidRow
<1> HIDE DEF a, w, w2, u, u2, t2, m, n, valid
<1>8. \A p \in 1 .. n : w2[p] = IF p \in DOMAIN u2 THEN u2[p] ELSE t.rows[p]
  <2>1. \A p \in 1 .. n : p \in 1 .. n + m
    BY <1>3
  <2> QED BY <1>4, <1>5, <1>6, <2>1
<1>9. \A i \in 1 .. m : w2[n + i] = a[i]
  <2> TAKE i \in 1 .. m
  <2>1. n + i \in 1 .. n + m /\ n + i # row
    BY <1>3
  <2> QED BY <1>4, <1>6, <2>1
<1>10. \A p : p \in t2 <=> p \in DOMAIN u2 \/ p \in n + 1 .. n + m
  BY <1>5, <1>6 DEF t2
<1>11. \A p \in DOMAIN u2 : u2[p][conflict] = t.rows[p][conflict]
  BY <1>5, <1>6
<1>12. /\ p2.ok = valid /\ p2.updates = u2 /\ p2.appended = a /\ p2.inserted = patch.inserted
       /\ s2.ok = valid /\ s2.rows = w2 /\ s2.touched = t2 /\ s2.affected = TRUE
  BY ONLY <1>1, <1>2
<1> QED BY ONLY <1>4, <1>6, <1>7, <1>8, <1>9, <1>10, <1>11, <1>12 DEF InStep, Together, n, m

\* One row of the batch keeps them in step: both refuse it, both append it, or
\* both replace the same stored row by the same one.
LEMMA StepsTogether ==
    ASSUME NEW t, NEW conflict, NEW patch, NEW state, Beside(t, conflict, patch, state),
           NEW columns, conflict \in Columns \ columns, NEW excluded,
           NEW p2, p2 = TakeRow(t, conflict, columns, patch, excluded),
           NEW s2, s2 = UpdateRow(conflict, columns, Everything, state, excluded)
    PROVE  InStep(t, conflict, p2, s2)
<1>0. PICK value, row, matches, first :
         /\ value = excluded[conflict] /\ row = FindConflict(t, conflict, value)
         /\ matches = Matching(state, conflict, value) /\ first = Min(matches)
  OBVIOUS
<1> DEFINE replacement == Overlay(t.rows[row], excluded, columns)
           other == Overlay(state.rows[first], excluded, columns)
           repeated == \/ value \notin {Null, NaN} /\ Key(value) \in patch.inserted
                       \/ row \in DOMAIN patch.updates
<1>1. p2 = IF ~patch.ok \/ repeated THEN [patch EXCEPT !.ok = FALSE]
           ELSE IF row # 0
           THEN PatchReplaces(patch, row, replacement)
           ELSE PatchAdds(patch, excluded, value)
  BY <1>0 DEF TakeRow, PatchAdds, PatchReplaces
<1>2. s2 = IF ~state.ok THEN state
           ELSE IF matches = {}
           THEN StateAdds(state, excluded)
           ELSE IF first \in state.touched
           THEN [state EXCEPT !.ok = FALSE]
           ELSE StateReplaces(state, first, other)
  <2>1. \A x : ~Fails(Everything, x) /\ Holds(Everything, x)
    BY DEF Fails, Holds, Everything
  <2> QED BY <1>0, <2>1 DEF UpdateRow, Matching, StateAdds, StateReplaces
<1>3. /\ value \in {Null, NaN} => row = 0 /\ matches = {}
      /\ value \notin {Null, NaN} /\ row # 0 =>
            /\ row \in DOMAIN t.rows /\ matches = {row} /\ Key(value) \notin patch.inserted
      /\ value \notin {Null, NaN} /\ row = 0 =>
            /\ matches \subseteq DOMAIN state.rows \cap state.touched
            /\ matches = {} <=> Key(value) \notin patch.inserted
            /\ Key(value) \notin DOMAIN t.unique_keys[conflict]
  BY <1>0, MatchingAre
<1>4. /\ Len(t.rows) \in Nat /\ DOMAIN t.rows = 1 .. Len(t.rows)
      /\ DOMAIN patch.updates \subseteq DOMAIN t.rows
      /\ Len(state.rows) \in Nat /\ DOMAIN state.rows = 1 .. Len(state.rows)
  BY SeqDomain DEF Beside, PatchOf, StateOf
<1>5. 0 \notin DOMAIN patch.updates
  BY <1>4
<1>6. matches \subseteq Nat /\ (matches # {} => first \in matches)
  <2>1. matches \in SUBSET Nat
    BY <1>0, <1>4 DEF Matching
  <2> QED BY <1>0, <2>1, SmallestPlace
<1>7. patch.ok \in BOOLEAN /\ state.ok = patch.ok
  BY DEF Beside, InStep
<1>8. \A p \in DOMAIN t.rows :
        /\ p \in state.touched <=> p \in DOMAIN patch.updates
        /\ p \notin DOMAIN patch.updates => state.rows[p] = t.rows[p]
  <2> TAKE p \in DOMAIN t.rows
  <2>1. PICK n, m : n = Len(t.rows) /\ m = Len(patch.appended)
    OBVIOUS
  <2>4. n \in Nat /\ m \in Nat /\ p \in 1 .. n
    BY <1>4, <2>1, SeqDomain DEF Beside, PatchOf, ValidRows
  <2>2. p \in 1 .. n /\ ~(p \in n + 1 .. n + m)
    BY ONLY <2>4
  <2>3. /\ p \in state.touched <=> p \in DOMAIN patch.updates \/ p \in n + 1 .. n + m
        /\ state.rows[p] = IF p \in DOMAIN patch.updates THEN patch.updates[p] ELSE t.rows[p]
    BY <2>1, <2>2 DEF Beside, InStep, Together
  <2> QED BY <2>2, <2>3
<1>9. state = [ok |-> state.ok, rows |-> state.rows, touched |-> state.touched,
               affected |-> state.affected]
  BY DEF Beside, StateOf
<1> HIDE DEF replacement, other, repeated
<1>10. CASE ~patch.ok
  <2>1. p2 = [patch EXCEPT !.ok = FALSE]
    BY <1>1, <1>10
  <2>2. s2 = state /\ state.ok = FALSE
    BY <1>2, <1>7, <1>10
  <2>3. s2 = [state EXCEPT !.ok = FALSE]
    BY <1>9, <2>2
  <2> QED BY <2>1, <2>3, BothRefuse
<1>11. CASE patch.ok /\ row # 0
  <2>1. /\ value \notin {Null, NaN} /\ row \in DOMAIN t.rows /\ matches = {row} /\ first = row
        /\ Key(value) \notin patch.inserted
    BY <1>3, <1>6, <1>11
  <2>2. CASE row \in DOMAIN patch.updates
    <3>1. p2 = [patch EXCEPT !.ok = FALSE]
      BY <1>1, <2>2 DEF repeated
    <3>2. s2 = [state EXCEPT !.ok = FALSE]
      BY <1>2, <1>7, <1>8, <1>11, <2>1, <2>2
    <3> QED BY <3>1, <3>2, BothRefuse
  <2>3. CASE row \notin DOMAIN patch.updates
    <3>1. p2 = PatchReplaces(patch, row, replacement)
      BY <1>1, <1>11, <2>1, <2>3 DEF repeated
    <3>2. other = replacement
      BY <1>8, <2>1, <2>3 DEF other, replacement
    <3>3. first \notin state.touched
      BY <1>8, <2>1, <2>3
    <3>4. s2 = StateReplaces(state, row, replacement)
      BY <1>2, <1>7, <1>11, <2>1, <3>2, <3>3
    <3>5. replacement[conflict] = t.rows[row][conflict]
      BY DEF replacement, Overlay
    <3> QED BY <2>1, <3>1, <3>4, <3>5, BothReplace
  <2> QED BY <2>2, <2>3
<1>12. CASE patch.ok /\ row = 0
  <2>1. repeated <=> matches # {}
    BY <1>3, <1>5, <1>12 DEF repeated
  <2>2. CASE matches # {}
    <3>1. p2 = [patch EXCEPT !.ok = FALSE]
      BY <1>1, <2>1, <2>2
    <3>2. first \in state.touched
      BY <1>3, <1>6, <1>12, <2>2
    <3>3. s2 = [state EXCEPT !.ok = FALSE]
      BY <1>2, <1>7, <1>12, <2>2, <3>2
    <3> QED BY <3>1, <3>3, BothRefuse
  <2>3. CASE matches = {}
    <3>1. p2 = PatchAdds(patch, excluded, value)
      BY <1>1, <1>12, <2>1, <2>3
    <3>2. s2 = StateAdds(state, excluded)
      BY <1>2, <1>7, <1>12, <2>3
    <3>3. value \notin {Null, NaN} => Key(value) \notin DOMAIN t.unique_keys[conflict]
      BY <1>3, <1>12
    <3>4. patch.ok = TRUE
      BY <1>7, <1>12
    <3> QED BY <1>0, <3>1, <3>2, <3>3, <3>4, BothAppend
  <2> QED BY <2>2, <2>3
<1> QED BY <1>7, <1>10, <1>11, <1>12

\* After the whole batch the patch and the working rows are in step.
LEMMA EndTogether ==
    ASSUME NEW t, RowsHold(t.rows), NEW conflict \in Columns,
           NamesRows(t.unique_keys[conflict], t.rows, conflict),
           NEW columns, conflict \notin columns, NEW pending, ValidRows(pending)
    PROVE  Beside(t, conflict, Patch(t, pending, conflict, columns),
                  AfterConflicts(t.rows, pending, conflict, columns, Everything))
<1> DEFINE o == [kind |-> "take", t |-> t, conflict |-> conflict, columns |-> columns]
           o2 == [kind |-> "update", conflict |-> conflict, columns |-> columns,
                  selection |-> Everything]
           n == Len(pending)
<1>1. /\ n \in Nat /\ IsSeq(pending) /\ IsSeq(t.rows) /\ ValidRows(t.rows)
      /\ \A i \in 1 .. n : ValidRow(pending[i])
  BY SeqDomain DEF RowsHold, ValidRows
<1>2. PICK f : Runs(o, EmptyPatch, pending, f, n) /\ Patch(t, pending, conflict, columns) = f[n]
  BY <1>1, TakeRuns
<1>3. /\ f[0] = EmptyPatch
      /\ \A i \in 1 .. n : f[i] = TakeRow(t, conflict, columns, f[i - 1], pending[i])
  <2>1. o.kind = "take" /\ o.t = t /\ o.conflict = conflict /\ o.columns = columns
    OBVIOUS
  <2> HIDE DEF o
  <2>2. \A v, x : Step(o, v, x) = TakeRow(t, conflict, columns, v, x)
    BY ONLY <2>1 DEF Step
  <2> QED BY <1>2, <2>2 DEF Runs
<1>4. PICK g : /\ Runs(o2, NothingTouched(t.rows), pending, g, n)
               /\ AfterConflicts(t.rows, pending, conflict, columns, Everything) = g[n]
  BY <1>1, UpdateRuns
<1>5. /\ g[0] = NothingTouched(t.rows)
      /\ \A i \in 1 .. n : g[i] = UpdateRow(conflict, columns, Everything, g[i - 1], pending[i])
  <2>1. /\ o2.kind = "update" /\ o2.conflict = conflict /\ o2.columns = columns
        /\ o2.selection = Everything
    OBVIOUS
  <2> HIDE DEF o2
  <2>2. \A v, x : Step(o2, v, x) = UpdateRow(conflict, columns, Everything, v, x)
    BY ONLY <2>1 DEF Step
  <2> QED BY <1>4, <2>2 DEF Runs
<1> HIDE DEF o, o2
<1> DEFINE N == {i \in Nat : i <= n => Beside(t, conflict, f[i], g[i])}
<1>6. 0 \in N
  <2>1. /\ f[0] = [ok |-> TRUE, updates |-> <<>>, appended |-> <<>>, inserted |-> {}]
        /\ g[0] = [ok |-> TRUE, rows |-> t.rows, touched |-> {}, affected |-> FALSE]
    BY <1>3, <1>5 DEF EmptyPatch, NothingTouched
  <2>2. PatchOf(t, f[0])
    BY <2>1, SeqNone DEF PatchOf, ValidRows
  <2>3. StateOf(g[0])
    BY <1>1, <2>1 DEF StateOf
  <2>4. DOMAIN <<>> = {} /\ Len(<<>>) = 0 /\ Len(t.rows) \in Nat
    BY <1>1, SeqDomain
  <2>5. Together(t, conflict, <<>>, <<>>, {}, t.rows, {}, FALSE)
    BY <2>4 DEF Together
  <2>6. InStep(t, conflict, f[0], g[0])
    <3>1. /\ f[0].ok = TRUE /\ f[0].updates = <<>> /\ f[0].appended = <<>> /\ f[0].inserted = {}
          /\ g[0].ok = TRUE /\ g[0].rows = t.rows /\ g[0].touched = {} /\ g[0].affected = FALSE
      BY ONLY <2>1
    <3> QED BY ONLY <2>5, <3>1 DEF InStep
  <2> QED BY <1>1, <2>2, <2>3, <2>6 DEF Beside
<1>7. ASSUME NEW i \in N PROVE i + 1 \in N
  <2> SUFFICES ASSUME i + 1 <= n PROVE Beside(t, conflict, f[i + 1], g[i + 1])
    OBVIOUS
  <2>1. i + 1 \in 1 .. n /\ i + 1 - 1 = i /\ i <= n
    BY <1>1
  <2>2. Beside(t, conflict, f[i], g[i]) /\ ValidRow(pending[i + 1])
    BY <1>1, <2>1
  <2>3. /\ f[i + 1] = TakeRow(t, conflict, columns, f[i], pending[i + 1])
        /\ g[i + 1] = UpdateRow(conflict, columns, Everything, g[i], pending[i + 1])
    BY <1>3, <1>5, <2>1
  <2>4. PatchOf(t, f[i + 1])
    BY <1>1, <2>2, <2>3, TakeRowPatches DEF Beside
  <2>5. StateOf(g[i + 1])
    BY <2>2, <2>3, UpdateRowKeeps DEF Beside
  <2>6. InStep(t, conflict, f[i + 1], g[i + 1])
    BY <2>2, <2>3, StepsTogether
  <2> QED BY <1>1, <2>4, <2>5, <2>6 DEF Beside
<1> HIDE DEF N
<1>8. N = Nat
  <2>1. N \in SUBSET Nat
    BY DEF N
  <2> QED BY <1>6, <1>7, <2>1, NaturalSets
<1>9. Beside(t, conflict, f[n], g[n])
  <2>1. n \in N
    BY <1>1, <1>8
  <2> QED BY <1>1, <2>1 DEF N
<1> QED BY <1>2, <1>4, <1>9

\* The two parts of a sequence.
InTwo(r, s, t, n, l) ==
    /\ IsSeq(r) /\ Len(r) = n + l /\ DOMAIN r = 1 .. n + l
    /\ \A p \in 1 .. n : r[p] = s[p]
    /\ \A i \in 1 .. l : r[n + i] = t[i]

LEMMA ConcatIs ==
    ASSUME NEW s, IsSeq(s), NEW t, IsSeq(t), NEW n, n = Len(s), NEW l, l = Len(t),
           NEW r, r = s \o t
    PROVE  InTwo(r, s, t, n, l)
<1>1. n \in Nat /\ l \in Nat
  BY SeqDomain
<1>2. IsSeq(r) /\ Len(r) = n + l /\ Continues(r, s)
      /\ \A p \in n + 1 .. n + l : r[p] = t[p - n]
  <2>1. IsSeq(r) /\ Len(r) = n + l
    BY SeqConcat
  <2>2. Continues(r, s) /\ \A p \in n + 1 .. Len(r) : r[p] = t[p - n]
    BY ConcatPlaces
  <2> QED BY <2>1, <2>2
<1>3. DOMAIN r = 1 .. n + l
  <2>1. DOMAIN r = 1 .. Len(r)
    BY <1>2, SeqDomain
  <2> QED BY <1>2, <2>1
<1>4. ASSUME NEW i \in 1 .. l PROVE r[n + i] = t[i]
  <2>1. PICK p : p = n + i
    OBVIOUS
  <2>2. p \in n + 1 .. n + l /\ p - n = i
    BY <1>1, <2>1
  <2> QED BY <1>2, <2>1, <2>2
<1> QED BY <1>2, <1>3, <1>4 DEF Continues, InTwo

\* Each staged row stands for one row of the result, an untouched one for none.
StandsFor(pos, staged, new, rows, updates) ==
    /\ \A i \in DOMAIN staged : /\ pos[i] \in DOMAIN new
                                /\ staged[i] = new[pos[i]]
                                /\ pos[i] \in DOMAIN rows => pos[i] \in DOMAIN updates
    /\ \A i, j \in DOMAIN staged : pos[i] = pos[j] => i = j

ResultIs(new, rows, updates, appended) ==
    /\ IsSeq(new) /\ Len(new) = Len(rows) + Len(appended)
    /\ \A p \in DOMAIN rows :
          p \in DOMAIN new /\ new[p] = IF p \in DOMAIN updates THEN updates[p] ELSE rows[p]
    /\ \A i \in 1 .. Len(appended) : new[Len(rows) + i] = appended[i]

LEMMA StagedPlaces ==
    ASSUME NEW rows, IsSeq(rows), NEW updates, DOMAIN updates \subseteq DOMAIN rows,
           NEW appended, IsSeq(appended),
           NEW new, new = Replaced(rows, updates) \o appended,
           NEW staged, staged = Staged(updates) \o appended
    PROVE  /\ ResultIs(new, rows, updates, appended) /\ IsSeq(staged)
           /\ \E pos : StandsFor(pos, staged, new, rows, updates)
<1>0. PICK n, m, l, order, middle, first :
        /\ n = Len(rows) /\ order = Positions(DOMAIN updates) /\ m = Len(order)
        /\ l = Len(appended) /\ middle = Replaced(rows, updates) /\ first = Staged(updates)
  OBVIOUS
<1>1. /\ n \in Nat /\ l \in Nat /\ DOMAIN rows = 1 .. n /\ DOMAIN appended = 1 .. l
      /\ DOMAIN updates \in SUBSET (1 .. n)
  BY <1>0, SeqDomain
<1>2. /\ m \in Nat /\ DOMAIN order = 1 .. m
      /\ \A i \in 1 .. m : order[i] \in DOMAIN updates /\ order[i] \in 1 .. n
      /\ \A i, j \in 1 .. m : order[i] = order[j] => i = j
  <2>1. Ascends(order) /\ ToSet(order) = DOMAIN updates
    BY <1>0, <1>1, PositionsAre
  <2> QED BY <1>0, <1>1, <2>1, AscendsPlaces
<1>3. /\ IsSeq(first) /\ Len(first) = m /\ \A i \in 1 .. m : first[i] = updates[order[i]]
  <2>1. first = [i \in DOMAIN order |-> updates[order[i]]]
    BY <1>0 DEF Staged
  <2>2. DOMAIN first = 1 .. m /\ first = [i \in 1 .. m |-> first[i]]
        /\ \A i \in 1 .. m : first[i] = updates[order[i]]
    BY <1>2, <2>1
  <2> QED BY <1>2, <2>2, SeqIsFunction
<1>4. /\ IsSeq(middle) /\ Len(middle) = n
      /\ \A p \in 1 .. n : middle[p] = IF p \in DOMAIN updates THEN updates[p] ELSE rows[p]
  <2>1. middle = [p \in DOMAIN rows |-> IF p \in DOMAIN updates THEN updates[p] ELSE rows[p]]
    BY <1>0 DEF Replaced
  <2>2. DOMAIN middle = 1 .. n /\ middle = [i \in 1 .. n |-> middle[i]]
        /\ \A p \in 1 .. n : middle[p] = IF p \in DOMAIN updates THEN updates[p] ELSE rows[p]
    BY <1>1, <2>1
  <2> QED BY <1>1, <2>2, SeqIsFunction
<1>5. new = middle \o appended /\ staged = first \o appended
  BY <1>0
<1>6. /\ IsSeq(new) /\ Len(new) = n + l /\ DOMAIN new = 1 .. n + l
      /\ \A p \in 1 .. n : new[p] = middle[p]
      /\ \A i \in 1 .. l : new[n + i] = appended[i]
  <2>1. n = Len(middle) /\ l = Len(appended) /\ IsSeq(middle) /\ IsSeq(appended)
    BY <1>0, <1>4
  <2>2. InTwo(new, middle, appended, n, l)
    BY ONLY <1>5, <2>1, ConcatIs
  <2> QED BY <2>2 DEF InTwo
<1>7. /\ IsSeq(staged) /\ Len(staged) = m + l /\ DOMAIN staged = 1 .. m + l
      /\ \A i \in 1 .. m : staged[i] = first[i]
      /\ \A i \in 1 .. l : staged[m + i] = appended[i]
  <2>1. m = Len(first) /\ l = Len(appended) /\ IsSeq(first) /\ IsSeq(appended)
    BY <1>0, <1>3
  <2>2. InTwo(staged, first, appended, m, l)
    BY ONLY <1>5, <2>1, ConcatIs
  <2> QED BY <2>2 DEF InTwo
<1>10. \A p \in 1 .. n : p \in 1 .. n + l
  BY <1>1
<1> DEFINE pos == [i \in 1 .. m + l |-> IF i <= m THEN order[i] ELSE n + (i - m)]
<1>11. /\ \A i \in 1 .. m : pos[i] = order[i]
       /\ \A i \in m + 1 .. m + l : pos[i] = n + (i - m)
  <2>1. \A i \in 1 .. m : i \in 1 .. m + l /\ i <= m
    BY <1>1, <1>2
  <2>2. \A i \in m + 1 .. m + l : i \in 1 .. m + l /\ ~(i <= m)
    BY <1>1, <1>2
  <2> QED BY <2>1, <2>2
<1> HIDE DEF pos
<1>12. \A i \in 1 .. m + l : i \in 1 .. m \/ i \in m + 1 .. m + l
  BY <1>1, <1>2
<1>13. ASSUME NEW i \in 1 .. m + l
       PROVE  /\ pos[i] \in 1 .. n + l /\ staged[i] = new[pos[i]]
              /\ pos[i] \in 1 .. n => pos[i] \in DOMAIN updates
  <2>1. CASE i \in 1 .. m
    <3>1. pos[i] = order[i] /\ order[i] \in DOMAIN updates /\ order[i] \in 1 .. n
      BY <1>2, <1>11, <2>1
    <3>2. staged[i] = updates[order[i]] /\ new[order[i]] = updates[order[i]]
      BY <1>3, <1>4, <1>6, <1>7, <2>1, <3>1
    <3> QED BY <1>10, <3>1, <3>2
  <2>2. CASE i \in m + 1 .. m + l
    <3>1. PICK j : j = i - m
      OBVIOUS
    <3>2. /\ j \in 1 .. l /\ pos[i] = n + j /\ n + j \in 1 .. n + l /\ ~(n + j \in 1 .. n)
          /\ i = m + j
      BY <1>1, <1>2, <1>11, <2>2, <3>1
    <3>3. staged[i] = appended[j] /\ new[n + j] = appended[j]
      BY <1>6, <1>7, <3>2
    <3> QED BY <3>2, <3>3
  <2> QED BY <1>12, <2>1, <2>2
<1>14. ASSUME NEW i \in 1 .. m + l, NEW j \in 1 .. m + l, pos[i] = pos[j]
       PROVE  i = j
  <2>1. CASE i \in 1 .. m /\ j \in 1 .. m
    BY <1>2, <1>11, <1>14, <2>1
  <2>2. CASE i \in m + 1 .. m + l /\ j \in m + 1 .. m + l
    <3>1. n + (i - m) = n + (j - m)
      BY <1>11, <1>14, <2>2
    <3> QED BY <1>1, <1>2, <2>2, <3>1
  <2>3. ASSUME NEW x \in 1 .. m, NEW y \in m + 1 .. m + l PROVE pos[x] # pos[y]
    <3>1. pos[x] \in 1 .. n /\ pos[y] = n + (y - m)
      BY <1>2, <1>11
    <3>2. PICK q : q = pos[x]
      OBVIOUS
    <3>3. q \in 1 .. n /\ q # n + (y - m)
      BY <1>1, <1>2, <3>1, <3>2
    <3> QED BY <3>1, <3>2, <3>3
  <2>4. ~(i \in 1 .. m /\ j \in m + 1 .. m + l) /\ ~(j \in 1 .. m /\ i \in m + 1 .. m + l)
    BY <1>14, <2>3
  <2> QED BY <1>12, <2>1, <2>2, <2>4
<1>15. StandsFor(pos, staged, new, rows, updates)
  BY <1>1, <1>6, <1>7, <1>13, <1>14 DEF StandsFor
<1>16. \A p \in DOMAIN rows :
          p \in DOMAIN new /\ new[p] = IF p \in DOMAIN updates THEN updates[p] ELSE rows[p]
  BY <1>1, <1>4, <1>6, <1>10
<1>17. /\ IsSeq(new) /\ Len(new) = Len(rows) + Len(appended) /\ IsSeq(staged)
       /\ \A i \in 1 .. Len(appended) : new[Len(rows) + i] = appended[i]
  BY ONLY <1>0, <1>6, <1>7
<1> QED BY <1>15, <1>16, <1>17 DEF ResultIs

\* The check of a patch, of the staged rows against the keys of untouched ones,
\* is the check of all resulting rows against one another.
LEMMA FitsIs ==
    ASSUME NEW t, IsSeq(t.rows), \A c \in Unique : NamesRows(t.unique_keys[c], t.rows, c),
           NEW updates, DOMAIN updates \subseteq DOMAIN t.rows,
           NEW appended, IsSeq(appended),
           NEW new, new = Replaced(t.rows, updates) \o appended
    PROVE  PatchFits(t, updates, appended) <=>
             ~UniqueFails(NoKeys, new) /\ HasCapacity(0, Len(new))
<1>0. PICK staged, rows : staged = Staged(updates) \o appended /\ rows = t.rows
  OBVIOUS
<1> DEFINE left == [c \in Unique |-> UntouchedKeys(t.unique_keys[c], updates)]
           middle == Replaced(t.rows, updates)
<1>1. /\ IsSeq(new) /\ Len(new) = Len(rows) + Len(appended) /\ IsSeq(staged)
      /\ \A p \in DOMAIN rows :
           p \in DOMAIN new /\ new[p] = IF p \in DOMAIN updates THEN updates[p] ELSE rows[p]
      /\ \E pos : StandsFor(pos, staged, new, rows, updates)
  <2>1. /\ IsSeq(rows) /\ DOMAIN updates \subseteq DOMAIN rows
        /\ new = Replaced(rows, updates) \o appended
    BY <1>0
  <2>2. /\ ResultIs(new, rows, updates, appended) /\ IsSeq(staged)
        /\ \E pos : StandsFor(pos, staged, new, rows, updates)
    BY <1>0, <2>1, StagedPlaces
  <2> QED BY <2>2 DEF ResultIs
<1>2. PICK pos : /\ \A i \in DOMAIN staged :
                      /\ pos[i] \in DOMAIN new /\ staged[i] = new[pos[i]]
                      /\ pos[i] \in DOMAIN rows => pos[i] \in DOMAIN updates
                 /\ \A i, j \in DOMAIN staged : pos[i] = pos[j] => i = j
  BY <1>1 DEF StandsFor
<1>3. PatchFits(t, updates, appended) <=>
        ~UniqueFails(left, staged) /\ HasCapacity(Len(t.rows), Len(appended))
  BY <1>0 DEF PatchFits, Staged
<1>4. HasCapacity(Len(t.rows), Len(appended)) <=> HasCapacity(0, Len(new))
  <2>1. Len(t.rows) \in Nat /\ Len(appended) \in Nat
    BY SeqDomain
  <2> QED BY <1>0, <1>1, <2>1 DEF HasCapacity
<1>5. ASSUME PatchFits(t, updates, appended) PROVE ~UniqueFails(NoKeys, new)
  <2>1. ASSUME NEW c \in Unique
        PROVE  /\ DistinctKeys(middle, c) /\ DistinctKeys(appended, c)
               /\ \A p \in Keyed(middle, c) : \A i \in Keyed(appended, c) :
                     Key(middle[p][c]) # Key(appended[i][c])
    BY <1>5, FittingPatch
  <2>2. IsSeq(middle)
    <3>1. middle = [p \in DOMAIN t.rows |-> middle[p]] /\ DOMAIN middle = DOMAIN t.rows
      BY DEF Replaced
    <3>2. DOMAIN t.rows = 1 .. Len(t.rows) /\ Len(t.rows) \in Nat
      BY SeqDomain
    <3> HIDE DEF middle
    <3> QED BY <3>1, <3>2, SeqIsFunction
  <2> HIDE DEF middle
  <2>3. \A c \in Unique : DistinctKeys(middle \o appended, c)
    BY <2>1, <2>2, DistinctConcat
  <2>4. \A c \in Unique : DistinctKeys(new, c)
    BY <2>3 DEF middle
  <2> QED BY <1>1, <2>4, DistinctSucceeds
<1>6. ASSUME ~UniqueFails(NoKeys, new) PROVE ~UniqueFails(left, staged)
  <2>1. \A c \in Unique : DistinctKeys(new, c)
    BY <1>1, <1>6, UniqueFailsNot
  <2>2. \A c \in Unique :
          DOMAIN left[c] = {k \in DOMAIN t.unique_keys[c] : t.unique_keys[c][k] \notin DOMAIN updates}
    BY DEF UntouchedKeys, Restrict
  <2>3. DOMAIN staged = 1 .. Len(staged) /\ Len(staged) \in Nat
    BY <1>1, SeqDomain
  <2> HIDE DEF left, middle
  <2> SUFFICES ASSUME NEW c \in Unique, NEW i \in DOMAIN staged, staged[i][c] # Null,
                      \/ Key(staged[i][c]) \in DOMAIN left[c]
                      \/ \E j \in 1 .. i - 1 : Key(staged[j][c]) = Key(staged[i][c])
               PROVE  FALSE
    BY DEF UniqueFails
  <2>4. pos[i] \in Keyed(new, c) /\ new[pos[i]] = staged[i]
    BY <1>2 DEF Keyed
  <2>5. CASE Key(staged[i][c]) \in DOMAIN left[c]
    <3>1. PICK p \in DOMAIN t.rows : /\ t.rows[p][c] # Null /\ p \notin DOMAIN updates
                                     /\ Key(t.rows[p][c]) = Key(staged[i][c])
      BY <2>2, <2>5 DEF NamesRows, Keyed
    <3>2. p \in Keyed(new, c) /\ new[p] = t.rows[p]
      BY <1>0, <1>1, <3>1 DEF Keyed
    <3>3. pos[i] = p
      BY <2>1, <2>4, <3>1, <3>2 DEF DistinctKeys
    <3> QED BY <1>0, <1>2, <3>1, <3>3
  <2>6. CASE \E j \in 1 .. i - 1 : Key(staged[j][c]) = Key(staged[i][c])
    <3>1. PICK j \in 1 .. i - 1 : Key(staged[j][c]) = Key(staged[i][c])
      BY <2>6
    <3>2. j \in DOMAIN staged /\ j # i
      BY <2>3
    <3>3. staged[j][c] # Null
      BY <3>1, KeyOfNull
    <3>4. pos[j] \in Keyed(new, c) /\ new[pos[j]] = staged[j]
      BY <1>2, <3>2, <3>3 DEF Keyed
    <3>5. pos[j] = pos[i]
      BY <2>1, <2>4, <3>1, <3>4 DEF DistinctKeys
    <3> QED BY <1>2, <3>2, <3>5
  <2> QED BY <2>5, <2>6
<1> QED BY <1>3, <1>4, <1>5, <1>6

\* The rows an applied patch leaves.
LEMMA AppliedRows ==
    ASSUME NEW t, IsTable(t), NEW updates, NEW appended
    PROVE  ApplyPatch(t, updates, appended).rows = Replaced(t.rows, updates) \o appended
<1> DEFINE r == t.rows
           i == t.indexes
           u == t.unique_keys
           v == t.vector_columns
           middle == Patched(t, updates)
           all == middle.rows \o appended
           longer == [middle EXCEPT !.rows = all]
           new == ExtendIndexes(longer, Len(middle.rows))
<1>1. t = [rows |-> r, indexes |-> i, unique_keys |-> u, vector_columns |-> v]
  BY DEF IsTable
<1>2. middle = Patched(t, updates)
  OBVIOUS
<1> HIDE DEF r, i, u, v, middle
<1>3. IsTable(middle) /\ middle.rows = Replaced(r, updates)
  BY <1>1, <1>2, PatchedIs
<1> HIDE DEF all
<1>4. longer = [rows |-> all, indexes |-> middle.indexes, unique_keys |-> middle.unique_keys,
                vector_columns |-> middle.vector_columns]
  BY <1>3 DEF IsTable
<1>5. new = ExtendIndexes(longer, Len(middle.rows))
  OBVIOUS
<1> HIDE DEF longer, new
<1>6. new.rows = all
  BY <1>4, <1>5, ExtendIndexesIs
<1>7. ApplyPatch(t, updates, appended) = new
  BY DEF ApplyPatch, AppendTo, new, longer, all, middle
<1> QED BY <1>3, <1>6, <1>7 DEF all, r

\* Two sequences of the same two parts are one.
LEMMA SamePlaces ==
    ASSUME NEW s, IsSeq(s), NEW t, IsSeq(t), NEW n \in Nat, NEW m \in Nat,
           Len(s) = n + m, Len(t) = n + m,
           \A p \in 1 .. n : s[p] = t[p], \A i \in 1 .. m : s[n + i] = t[n + i]
    PROVE  s = t
<1>1. ASSUME NEW p \in 1 .. n + m PROVE s[p] = t[p]
  <2>1. CASE p \in 1 .. n
    BY <2>1
  <2>2. CASE ~(p \in 1 .. n)
    <3>1. p - n \in 1 .. m /\ p = n + (p - n)
      BY <2>2
    <3> QED BY <3>1
  <2> QED BY <2>1, <2>2
<1> DEFINE S == ToSet(s) \cup ToSet(t)
           l == n + m
<1>2. s \in Seq(S) /\ t \in Seq(S)
  BY SeqMonotonic DEF IsSeq
<1> HIDE DEF S
<1>3. Len(s) = Len(t) /\ \A p \in 1 .. Len(s) : s[p] = t[p]
  BY <1>1
<1> QED BY <1>2, <1>3, SeqEqual

\* The working rows of the general update are those the patch leads to.
LEMMA EndRows ==
    ASSUME NEW t, NEW conflict, NEW patch, NEW state, Beside(t, conflict, patch, state)
    PROVE  state.rows = Replaced(t.rows, patch.updates) \o patch.appended
<1>a. PICK updates, appended, rows, old :
        /\ old = t.rows /\ rows = state.rows /\ updates = patch.updates
        /\ appended = patch.appended
  OBVIOUS
<1>b. PICK n, m, new : /\ n = Len(old) /\ m = Len(appended)
                       /\ new = Replaced(old, updates) \o appended
  OBVIOUS
<1>1. /\ IsSeq(old) /\ IsSeq(appended) /\ IsSeq(rows) /\ DOMAIN updates \subseteq DOMAIN old
  BY <1>a, <1>b DEF Beside, PatchOf, StateOf, ValidRows
<1>2. n \in Nat /\ m \in Nat /\ DOMAIN old = 1 .. n
  BY <1>a, <1>b, <1>1, SeqDomain
<1>3. ResultIs(new, old, updates, appended)
  <2>1. PICK staged : staged = Staged(updates) \o appended
    OBVIOUS
  <2>2. new = Replaced(old, updates) \o appended
    BY <1>a, <1>b
  <2> QED BY <1>1, <2>1, <2>2, StagedPlaces
<1>4. /\ IsSeq(new) /\ Len(new) = n + m
      /\ \A p \in 1 .. n : new[p] = IF p \in DOMAIN updates THEN updates[p] ELSE old[p]
      /\ \A i \in 1 .. m : new[n + i] = appended[i]
  BY <1>a, <1>b, <1>2, <1>3 DEF ResultIs
<1>5. /\ Len(rows) = n + m
      /\ \A p \in 1 .. n : rows[p] = IF p \in DOMAIN updates THEN updates[p] ELSE old[p]
      /\ \A i \in 1 .. m : rows[n + i] = appended[i]
  BY <1>a, <1>b DEF Beside, InStep, Together
<1>6. /\ \A p \in 1 .. n : rows[p] = new[p]
      /\ \A i \in 1 .. m : rows[n + i] = new[n + i]
  BY ONLY <1>4, <1>5
<1>7. rows = new
  BY ONLY <1>1, <1>2, <1>4, <1>5, <1>6, SamePlaces
<1> QED BY <1>a, <1>b, <1>7

SameOutcome(fast, general) ==
    fast.ok = general.ok /\ fast.table.rows = general.table.rows

\* The typed upsert and the general conflict update agree on any batch.
LEMMA UpsertsAgree ==
    ASSUME NEW t, Relational(t), NEW conflict \in Unique, NEW columns, conflict \notin columns,
           NEW pending, ValidRows(pending)
    PROVE  SameOutcome(FastUpsert(t, pending, conflict, columns),
                       ConflictUpdates(t, pending, conflict, columns, Everything))
<1>0. PICK patch, end, new, fast, general :
        /\ patch = Patch(t, pending, conflict, columns)
        /\ end = AfterConflicts(t.rows, pending, conflict, columns, Everything)
        /\ new = Replaced(t.rows, patch.updates) \o patch.appended
        /\ fast = FastUpsert(t, pending, conflict, columns)
        /\ general = ConflictUpdates(t, pending, conflict, columns, Everything)
  OBVIOUS
<1>1. /\ IsTable(t) /\ RowsHold(t.rows) /\ IsSeq(t.rows) /\ conflict \in Columns
      /\ \A c \in Unique : NamesRows(t.unique_keys[c], t.rows, c)
  BY TableStoreAssumption DEF Relational, RowsHold, ValidRows, KeysHold, TableStoreAssumption
<1>2. Beside(t, conflict, patch, end)
  BY <1>0, <1>1, EndTogether
<1>3. /\ patch.ok \in BOOLEAN /\ end.ok = patch.ok /\ end.rows = new
      /\ end.affected = TRUE \/ end.rows = t.rows
      /\ DOMAIN patch.updates \subseteq DOMAIN t.rows /\ IsSeq(patch.appended)
      /\ end.ok => ValidRows(end.rows)
  <2>1. end.rows = new
    BY <1>0, <1>2, EndRows
  <2>2. patch.ok \in BOOLEAN /\ end.ok = patch.ok /\ (end.affected = TRUE \/ end.rows = t.rows)
    BY <1>2 DEF Beside, InStep, Together
  <2>3. /\ DOMAIN patch.updates \subseteq DOMAIN t.rows /\ IsSeq(patch.appended)
        /\ end.ok => ValidRows(end.rows)
    BY <1>2 DEF Beside, PatchOf, StateOf, ValidRows
  <2> QED BY <2>1, <2>2, <2>3
<1>4. PatchFits(t, patch.updates, patch.appended) <=>
        ~UniqueFails(NoKeys, new) /\ HasCapacity(0, Len(new))
  <2>1. PICK updates, appended : updates = patch.updates /\ appended = patch.appended
    OBVIOUS
  <2>2. /\ DOMAIN updates \subseteq DOMAIN t.rows /\ IsSeq(appended)
        /\ new = Replaced(t.rows, updates) \o appended
    BY <1>0, <1>3, <2>1
  <2>3. PatchFits(t, updates, appended) <=>
          ~UniqueFails(NoKeys, new) /\ HasCapacity(0, Len(new))
    BY <1>1, <2>2, FitsIs
  <2> QED BY <2>1, <2>3
<1>5. fast = IF patch.ok /\ PatchFits(t, patch.updates, patch.appended)
             THEN Done(ApplyPatch(t, patch.updates, patch.appended)) ELSE Refused(t)
  BY <1>0 DEF FastUpsert
<1>6. general = IF ~end.ok \/ UniqueFails(NoKeys, end.rows) \/ ~HasCapacity(0, Len(end.rows))
                THEN Refused(t)
                ELSE IF end.affected THEN Done(RebuildIndexes([t EXCEPT !.rows = end.rows]))
                ELSE Done(t)
  BY <1>0 DEF ConflictUpdates
<1>7. CASE patch.ok /\ ~UniqueFails(NoKeys, new) /\ HasCapacity(0, Len(new))
  <2>1. fast = Done(ApplyPatch(t, patch.updates, patch.appended))
    BY <1>4, <1>5, <1>7
  <2>2. fast.ok = TRUE /\ fast.table.rows = new
    <3>1. PICK updates, appended : updates = patch.updates /\ appended = patch.appended
      OBVIOUS
    <3>2. ApplyPatch(t, updates, appended).rows = Replaced(t.rows, updates) \o appended
      BY <1>1, AppliedRows
    <3>3. ApplyPatch(t, patch.updates, patch.appended).rows = new
      BY <1>0, <3>1, <3>2
    <3> QED BY <2>1, <3>3 DEF Done
  <2>3. RowsHold(new)
    BY <1>3, <1>7, SeqDomain DEF RowsHold, HasCapacity, ValidRows
  <2>4. RebuildIndexes([t EXCEPT !.rows = new]).rows = new
    BY <1>7, <2>3, ReplacedHolds
  <2>5. general = IF end.affected THEN Done(RebuildIndexes([t EXCEPT !.rows = new])) ELSE Done(t)
    BY <1>3, <1>6, <1>7
  <2>6. CASE end.affected
    <3>1. general = Done(RebuildIndexes([t EXCEPT !.rows = new]))
      BY <2>5, <2>6
    <3>2. general.ok = TRUE /\ general.table.rows = new
      BY <2>4, <3>1 DEF Done
    <3> QED BY ONLY <1>0, <2>2, <3>2 DEF SameOutcome
  <2>7. CASE ~end.affected
    <3>1. general = Done(t) /\ t.rows = new
      BY <1>3, <2>5, <2>7
    <3>2. general.ok = TRUE /\ general.table.rows = new
      BY <3>1 DEF Done
    <3> QED BY ONLY <1>0, <2>2, <3>2 DEF SameOutcome
  <2> QED BY <2>6, <2>7
<1>8. CASE ~(patch.ok /\ ~UniqueFails(NoKeys, new) /\ HasCapacity(0, Len(new)))
  <2>1. fast = Refused(t) /\ general = Refused(t)
    BY <1>3, <1>4, <1>5, <1>6, <1>8
  <2> QED BY ONLY <1>0, <2>1 DEF SameOutcome
<1> QED BY <1>7, <1>8

\* The typed upsert takes a batch exactly when the SQL conflict update takes it
\* and leaves the same rows, though it looks keys up in the map of the unique
\* column instead of comparing rows, checks only the staged rows against the keys
\* of rows it does not touch, and never builds the rows it checks.
THEOREM Upserts == Spec => []FastUpsertIsGeneral
<1>1. TableHolds => FastUpsertIsGeneral
  <2> SUFFICES ASSUME Relational(table), NEW pending \in Batches, NEW conflict \in Unique,
                      NEW columns \in Settable(Columns \ {conflict})
               PROVE  SameOutcome(FastUpsert(table, pending, conflict, columns),
                                  ConflictUpdates(table, pending, conflict, columns, Everything))
    BY DEF TableHolds, FastUpsertIsGeneral, SameOutcome
  <2>1. conflict \notin columns
    BY DEF Settable
  <2>2. ValidRows(pending)
    BY BatchIs
  <2> QED BY <2>1, <2>2, UpsertsAgree
<1> QED BY <1>1, TableHoldsAlways, PTL
=============================================================================
