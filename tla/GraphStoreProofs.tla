-------------------------- MODULE GraphStoreProofs --------------------------
(***************************************************************************)
(* Proofs about a graph collection and the requests that ingest into it,    *)
(* for any clients, documents, profiles and limits.                         *)
(***************************************************************************)
EXTENDS GraphStore, RowsProofs, FiniteSetTheorems

(***************************************************************************)
(* A request reads under one lock and acts under another.  What it keeps is *)
(* the revision it began with: as long as the collection still has it, the  *)
(* document is as the request first saw it.                                 *)
(***************************************************************************)
Fields == {"at", "request", "revision", "profile", "seen"}

Current(c) ==
    client[c].at # "idle" =>
        /\ DOMAIN client[c] = Fields /\ client[c].request \in Requests
        /\ client[c].revision \in Nat /\ client[c].revision <= revision
        /\ client[c].revision = revision =>
              /\ client[c].seen = Stored(tables, client[c].request.id)
              /\ client[c].at = "unchanged" =>
                    Matches(tables, client[c].request) /\ Unchanged(tables, client[c].request)

Reading ==
    /\ revision \in Nat
    /\ DOMAIN client = Clients
    /\ \A c \in Clients : Current(c)

\* Every change of the tables is a commit, with a revision of its own.
Committed == revision' = revision + 1
Untouched == tables' = tables /\ revision' = revision

LEMMA EngineCommits == ASSUME Engine PROVE Committed
BY DEF Engine, Ingest, AppendDocument, ReplaceDocument, UpdateMetadata, DeleteDocument,
       UpsertRelationship, DeleteRelationship, CreateCollection, Commit, Committed

LEMMA EditCommits ==
    ASSUME EditChunks \/ DeleteDocumentRow \/ DuplicateEdge \/ DropCollection
    PROVE  Committed /\ client' = client
<1>1. \A t, touched : Edit(t, touched) => Committed /\ client' = client
  BY DEF Edit, Commit, Committed
<1> QED BY <1>1 DEF EditChunks, DeleteDocumentRow, DuplicateEdge, DropCollection

\* A step of a request keeps the tables, or commits for the revision the
\* request began with and ends.
LEMMA WriteStep ==
    ASSUME NEW c \in Clients, RequestUpdate(c) \/ RequestReplace(c) \/ RequestAppend(c)
    PROVE  \/ Untouched /\ (End(c) \/ Goto(c, "replace"))
           \/ Committed /\ client[c].revision = revision /\ End(c)
<1> USE DEF OrRefused, Refuse, KeepTables, Untouched
<1>1. CASE RequestUpdate(c)
  <2>1. \A d, meta, field : UpdateMetadata(d, meta, field) => Committed
    BY DEF UpdateMetadata, Commit, Committed
  <2> QED BY <1>1, <2>1 DEF RequestUpdate
<1>2. CASE RequestReplace(c)
  <2>1. \A r : ReplaceDocument(r) => Committed
    BY DEF ReplaceDocument, Commit, Committed
  <2> QED BY <1>2, <2>1 DEF RequestReplace
<1>3. CASE RequestAppend(c)
  <2>1. \A r : AppendDocument(r) => Committed
    BY DEF AppendDocument, Commit, Committed
  <2> QED BY <1>3, <2>1 DEF RequestAppend
<1> QED BY <1>1, <1>2, <1>3

Waits(c, at) == client[c].at # "idle" /\ Goto(c, at) /\ Untouched

\* What a request does, for what it keeps.
LEMMA RequestStep ==
    ASSUME NEW c \in Clients, Request(c)
    PROVE  \/ End(c) /\ Untouched
           \/ End(c) /\ Committed /\ client[c].revision = revision
           \/ Untouched /\ \E r \in Requests : ReadCollection(c, r)
           \/ \E at \in {"check", "changed", "answer", "update", "embed", "append", "replace"} :
                 Waits(c, at)
           \/ /\ Waits(c, "unchanged") /\ Matches(tables, client[c].request)
              /\ Unchanged(tables, client[c].request)
<1> USE DEF KeepTables, Untouched, Waits
<1>1. CASE \E r \in Requests : ReadCollection(c, r)
  BY <1>1 DEF ReadCollection
<1>2. CASE ReadDocument(c)
  BY <1>2 DEF ReadDocument
<1>3. CASE Recheck(c) \/ Answer(c) \/ CheckRequest(c)
  BY <1>3 DEF Recheck, Answer, CheckRequest
<1>4. CASE \E p \in Profiles : Embed(c, p)
  BY <1>4 DEF Embed
<1>5. CASE RequestUpdate(c) \/ RequestReplace(c) \/ RequestAppend(c)
  <2>1. client[c].at # "idle"
    BY <1>5 DEF RequestUpdate, RequestReplace, RequestAppend
  <2> QED BY <1>5, <2>1, WriteStep
<1> QED BY <1>1, <1>2, <1>3, <1>4, <1>5 DEF Request

LEMMA ReadingInit == ASSUME Init PROVE Reading
BY DEF Init, Reading, Current, Idle

\* A request that takes no step.
LEMMA OtherStep ==
    ASSUME Reading, NEW c \in Clients, client'[c] = client[c], Untouched \/ Committed
    PROVE  Current(c)'
BY DEF Reading, Current, Untouched, Committed

LEMMA ReadingRequest == ASSUME Reading, NEW c \in Clients, Request(c) PROVE Reading'
<1>1. \/ End(c) \/ (\E r \in Requests : ReadCollection(c, r)) \/ \E at : Goto(c, at)
  BY RequestStep DEF Waits
<1>2. DOMAIN client' = Clients /\ \A d \in Clients \ {c} : client'[d] = client[d]
  BY <1>1 DEF Reading, End, ReadCollection, Goto
<1>3. Untouched \/ Committed
  BY RequestStep DEF Waits
<1>4. revision' \in Nat
  BY <1>3 DEF Untouched, Committed, Reading
<1>5. \A d \in Clients \ {c} : Current(d)'
  BY <1>2, <1>3, OtherStep
<1>6. Current(c)'
  <2>1. CASE End(c)
    <3>1. client'[c] = Idle
      BY <2>1 DEF End, Reading
    <3> QED BY <3>1 DEF Current, Idle
  <2>2. CASE Untouched /\ \E r \in Requests : ReadCollection(c, r)
    <3>1. PICK r \in Requests : ReadCollection(c, r)
      BY <2>2
    <3>2. client'[c] = [at |-> "document", request |-> r, revision |-> revision,
                        profile |-> tables.config, seen |-> Stored(tables, r.id)]
      BY <3>1 DEF ReadCollection, Reading
    <3> QED BY <2>2, <3>2 DEF Current, Reading, Untouched, Fields
  <2>3. ASSUME NEW at, Waits(c, at),
               at = "unchanged" => /\ Matches(tables, client[c].request)
                                   /\ Unchanged(tables, client[c].request)
        PROVE  Current(c)'
    <3>1. client'[c] = [client[c] EXCEPT !.at = at] /\ tables' = tables /\ revision' = revision
      BY <2>3 DEF Waits, Goto, Reading, Untouched
    <3>2. /\ DOMAIN client[c] = Fields /\ client[c].request \in Requests
          /\ client[c].revision \in Nat /\ client[c].revision <= revision
          /\ client[c].revision = revision => client[c].seen = Stored(tables, client[c].request.id)
      BY <2>3 DEF Waits, Reading, Current
    <3>3. /\ DOMAIN client'[c] = Fields /\ client'[c].at = at
          /\ client'[c].request = client[c].request /\ client'[c].revision = client[c].revision
          /\ client'[c].seen = client[c].seen
      BY <3>1, <3>2 DEF Fields
    <3> QED BY <2>3, <3>1, <3>2, <3>3 DEF Current
  <2> QED BY <2>1, <2>2, <2>3, RequestStep
<1> QED BY <1>2, <1>4, <1>5, <1>6 DEF Reading

LEMMA ReadingNext == ASSUME Reading, [Next]_vars PROVE Reading'
<1>1. CASE UNCHANGED vars
  BY <1>1 DEF vars, Reading, Current
<1>2. ASSUME client' = client, Committed PROVE Reading'
  BY <1>2, OtherStep DEF Reading, Committed
<1>3. CASE Engine
  BY <1>2, <1>3, EngineCommits DEF Engine
<1>4. CASE EditChunks \/ DeleteDocumentRow \/ DuplicateEdge \/ DropCollection
  BY <1>2, <1>4, EditCommits
<1> QED BY <1>1, <1>3, <1>4, ReadingRequest DEF Next

LEMMA ReadingAlways == Spec => []Reading
BY ReadingInit, ReadingNext, PTL DEF Spec

\* A request answers and writes for the document it first read, although it
\* reads under four locks and embeds under none; and what it calls unchanged is
\* (ingest_document of src/api/graph.rs).
THEOREM RequestsAct == Spec => ActsOnWhatItRead
<1> DEFINE Right(c) ==
        /\ Stored(tables, client[c].request.id) = client[c].seen
        /\ client[c].at = "unchanged" =>
              Matches(tables, client[c].request) /\ Unchanged(tables, client[c].request)
           Step == \A c \in Clients : Acts(c) => Right(c)
<1>1. Reading /\ [Next]_vars => [Step]_vars
  <2> SUFFICES ASSUME Reading, Next, NEW c \in Clients, Acts(c) PROVE Right(c)
    OBVIOUS
  <2>1. client'[c] # client[c] /\ client[c].at # "idle"
    BY DEF Acts, Idle
  <2>2. Request(c)
    <3>1. ~Engine
      BY <2>1 DEF Engine
    <3>2. ~(EditChunks \/ DeleteDocumentRow \/ DuplicateEdge \/ DropCollection)
      BY <2>1, EditCommits
    <3>3. ASSUME NEW d \in Clients, Request(d) PROVE d = c
      <4>1. \/ End(d) \/ (\E r \in Requests : ReadCollection(d, r)) \/ \E at : Goto(d, at)
        BY <3>3, RequestStep DEF Waits
      <4> QED BY <2>1, <4>1 DEF Reading, End, ReadCollection, Goto
    <3> QED BY <3>1, <3>2, <3>3 DEF Next
  <2>3. client[c].revision = revision
    <3>1. CASE client[c].at = "unchanged" /\ client'[c].at = "answer"
      <4>1. Recheck(c)
        BY <2>2, <3>1 DEF Request, ReadCollection, ReadDocument, Answer, RequestUpdate,
             CheckRequest, Embed, RequestAppend, RequestReplace
      <4>2. ~End(c)
        BY <3>1 DEF End, Reading, Idle
      <4> QED BY <4>1, <4>2 DEF Recheck
    <3>2. CASE tables' # tables
      <4>1. End(c) /\ Committed /\ client[c].revision = revision
        BY <2>2, <3>2, RequestStep DEF Untouched, Waits
      <4> QED BY <4>1
    <3> QED BY <3>1, <3>2 DEF Acts
  <2> QED BY <2>1, <2>3 DEF Reading, Current
<1> QED BY <1>1, ReadingAlways, PTL DEF Spec, ActsOnWhatItRead

-----------------------------------------------------------------------------
(* What the operators of the model return.                                   *)

\* The four tables are sequences of rows, whatever the rows are.
Shape(t) ==
    /\ t = [config |-> t.config, documents |-> t.documents, chunks |-> t.chunks, edges |-> t.edges]
    /\ IsSeq(t.documents) /\ IsSeq(t.chunks) /\ IsSeq(t.edges)

LEMMA RowsOfIs ==
    ASSUME NEW s, IsSeq(s), NEW d
    PROVE  RowsOf(s, d) = Only(s, {row \in ToSet(s) : row.doc = d})
<1> DEFINE E == {row \in ToSet(s) : row.doc = d}
           keep == [n \in DOMAIN s |-> s[n].doc = d]
<1>1. \A n \in 1 .. Len(s) : keep[n] = (s[n] \in E)
  BY SeqDomain
<1> HIDE DEF E
<1>2. Kept(s, keep) = Only(s, E)
  <2> HIDE DEF keep
  <2> QED BY <1>1, OnlyIs DEF IsSeq
<1> QED BY <1>2 DEF RowsOf, Where, E

LEMMA RowsNotOfIs ==
    ASSUME NEW s, IsSeq(s), NEW d
    PROVE  RowsNotOf(s, d) = Only(s, {row \in ToSet(s) : row.doc # d})
<1> DEFINE E == {row \in ToSet(s) : row.doc # d}
           keep == [n \in DOMAIN s |-> s[n].doc # d]
<1>1. \A n \in 1 .. Len(s) : keep[n] = (s[n] \in E)
  BY SeqDomain
<1> HIDE DEF E
<1>2. Kept(s, keep) = Only(s, E)
  <2> HIDE DEF keep
  <2> QED BY <1>1, OnlyIs DEF IsSeq
<1> QED BY <1>2 DEF RowsNotOf, Where, E

LEMMA OthersIs ==
    ASSUME NEW s, IsSeq(s), NEW d
    PROVE  Others(s, d) = Only(s, {row \in ToSet(s) : row.id # d})
<1> DEFINE E == {row \in ToSet(s) : row.id # d}
           keep == [n \in DOMAIN s |-> s[n].id # d]
<1>1. \A n \in 1 .. Len(s) : keep[n] = (s[n] \in E)
  BY SeqDomain
<1> HIDE DEF E
<1>2. Kept(s, keep) = Only(s, E)
  <2> HIDE DEF keep
  <2> QED BY <1>1, OnlyIs DEF IsSeq
<1> QED BY <1>2 DEF Others, Where, E

LEMMA FindIs ==
    ASSUME NEW t, IsSeq(t.documents), NEW d
    PROVE  Find(t, d) = Only(t.documents, {row \in ToSet(t.documents) : row.id = d})
<1> DEFINE s == t.documents
           E == {row \in ToSet(s) : row.id = d}
           keep == [n \in DOMAIN s |-> s[n].id = d]
<1>1. \A n \in 1 .. Len(s) : keep[n] = (s[n] \in E)
  BY SeqDomain
<1> HIDE DEF E
<1>2. Kept(s, keep) = Only(s, E)
  <2> HIDE DEF keep
  <2> QED BY <1>1, OnlyIs DEF IsSeq
<1> QED BY <1>2 DEF Find, Where, E

LEMMA ApartIs ==
    ASSUME NEW s, IsSeq(s), NEW ids
    PROVE  Apart(s, ids) = Only(s, {e \in ToSet(s) : ~Touches(e, ids)})
<1> DEFINE E == {e \in ToSet(s) : ~Touches(e, ids)}
           keep == [n \in DOMAIN s |-> ~Touches(s[n], ids)]
<1>1. \A n \in 1 .. Len(s) : keep[n] = (s[n] \in E)
  BY SeqDomain
<1> HIDE DEF E
<1>2. Kept(s, keep) = Only(s, E)
  <2> HIDE DEF keep
  <2> QED BY <1>1, OnlyIs DEF IsSeq
<1> QED BY <1>2 DEF Apart, Where, E

OtherRelations(t, kind, from, to) == {e \in ToSet(t.edges) : ~IsRelation(e, kind, from, to)}

LEMMA RemoveRelationIs ==
    ASSUME NEW t, IsSeq(t.edges), NEW kind, NEW from, NEW to
    PROVE  RemoveRelation(t, kind, from, to) =
             [t EXCEPT !.edges = Only(t.edges, OtherRelations(t, kind, from, to))]
<1> DEFINE s == t.edges
           E == {e \in ToSet(s) : ~IsRelation(e, kind, from, to)}
           keep == [n \in DOMAIN s |-> ~IsRelation(s[n], kind, from, to)]
<1>1. \A n \in 1 .. Len(s) : keep[n] = (s[n] \in E)
  BY SeqDomain
<1> HIDE DEF E
<1>2. Kept(s, keep) = Only(s, E)
  <2> HIDE DEF keep
  <2> QED BY <1>1, OnlyIs DEF IsSeq
<1> QED BY <1>2 DEF RemoveRelation, Where, E, OtherRelations

LEMMA NeighborsAre ==
    ASSUME NEW chunks, NEW piece, IsSeq(Nearest(chunks, piece))
    PROVE  Neighbors(chunks, piece) =
             Only(Nearest(chunks, piece),
                  {row \in ToSet(Nearest(chunks, piece)) : Similarity[piece][row.piece] >= Threshold})
<1> DEFINE s == Nearest(chunks, piece)
           E == {row \in ToSet(s) : Similarity[piece][row.piece] >= Threshold}
           keep == [n \in DOMAIN s |-> Similarity[piece][s[n].piece] >= Threshold]
<1> HIDE DEF s
<1>1. \A n \in 1 .. Len(s) : keep[n] = (s[n] \in E)
  BY SeqDomain DEF s
<1> HIDE DEF E
<1>2. Kept(s, keep) = Only(s, E)
  <2> HIDE DEF keep
  <2> QED BY <1>1, OnlyIs DEF IsSeq, s
<1> QED BY <1>2 DEF Neighbors, Where, E, s

LEMMA MinIs == ASSUME NEW m \in Nat, NEW n \in Nat PROVE Min({m, n}) = IF m <= n THEN m ELSE n
<1> DEFINE k == IF m <= n THEN m ELSE n
<1>1. k \in {m, n} /\ \A y \in {m, n} : k <= y
  OBVIOUS
<1>2. \A x \in {m, n} : (\A y \in {m, n} : x <= y) => x = k
  BY <1>1
<1> QED BY <1>1, <1>2 DEF Min

LEMMA NearestIsSeq ==
    ASSUME NEW chunks, IsSeq(chunks), NEW piece
    PROVE  /\ IsSeq(Nearest(chunks, piece))
           /\ Len(Nearest(chunks, piece)) = Min({SemanticNeighbors, Len(chunks)})
<1>1. SemanticNeighbors \in Nat /\ Len(chunks) \in Nat
  BY GraphStoreAssumption, SeqDomain
<1>2. Min({SemanticNeighbors, Len(chunks)}) \in Nat
  BY <1>1, MinIs
<1> DEFINE n == Min({SemanticNeighbors, Len(chunks)})
           s == Nearest(chunks, piece)
<1>3. DOMAIN s = 1 .. n /\ s = [i \in 1 .. n |-> s[i]]
  <2> HIDE DEF n
  <2> QED BY DEF Nearest, n
<1> HIDE DEF n, s
<1> QED BY <1>2, <1>3, SeqIsFunction DEF n, s

LEMMA NeighborsIsSeq ==
    ASSUME NEW chunks, IsSeq(chunks), NEW piece
    PROVE  /\ IsSeq(Neighbors(chunks, piece))
           /\ ToSet(Neighbors(chunks, piece)) \subseteq ToSet(Nearest(chunks, piece))
           /\ Len(Neighbors(chunks, piece)) <= Min({SemanticNeighbors, Len(chunks)})
<1> DEFINE s == Nearest(chunks, piece)
           E == {row \in ToSet(s) : Similarity[piece][row.piece] >= Threshold}
<1>1. IsSeq(s) /\ Len(s) = Min({SemanticNeighbors, Len(chunks)})
  BY NearestIsSeq
<1>2. Neighbors(chunks, piece) = Only(s, E)
  BY <1>1, NeighborsAre
<1> HIDE DEF s, E
<1> QED BY <1>1, <1>2, OnlyElements DEF s

LEMMA BothWaysIs ==
    ASSUME NEW from, NEW to, NEW kind, NEW weight
    PROVE  /\ IsSeq(BothWays(from, to, kind, weight)) /\ Len(BothWays(from, to, kind, weight)) = 2
           /\ ToSet(BothWays(from, to, kind, weight))
                = {Edge(from, to, kind, weight), Edge(to, from, kind, weight)}
<1> DEFINE e == Edge(from, to, kind, weight)
           f == Edge(to, from, kind, weight)
<1> HIDE DEF e, f
<1>1. IsSeq(<<e, f>>) /\ Len(<<e, f>>) = 2 /\ ToSet(<<e, f>>) = {e, f}
  BY DEF IsSeq, ToSet
<1> QED BY <1>1 DEF BothWays, e, f

LEMMA PiecesAre ==
    ASSUME NEW r \in Requests
    PROVE  /\ Len(Pieces[r.body]) \in Nat \ {0}
           /\ DOMAIN Pieces[r.body] = 1 .. Len(Pieces[r.body])
           /\ \A n \in 1 .. Len(Pieces[r.body]) : Pieces[r.body][n] \in DOMAIN Similarity
<1> DEFINE p == Pieces[r.body]
<1>1. p \in Seq(DOMAIN Similarity) /\ p # <<>>
  BY GraphStoreAssumption
<1> HIDE DEF p
<1> QED BY <1>1 DEF p

\* Two edges for each two neighboring chunks.
LEMMA AdjacentIs ==
    ASSUME NEW r \in Requests
    PROVE  /\ IsSeq(Adjacent(r)) /\ Len(Adjacent(r)) <= (Len(Pieces[r.body]) - 1) * 2
           /\ \A e : e \in ToSet(Adjacent(r)) <=>
                \E n \in 1 .. Len(Pieces[r.body]) - 1 :
                  \/ e = Edge(ChunkId(r.id, n), ChunkId(r.id, n + 1), "adjacent", 100)
                  \/ e = Edge(ChunkId(r.id, n + 1), ChunkId(r.id, n), "adjacent", 100)
<1> DEFINE k == Len(Pieces[r.body]) - 1
           pair(n) == BothWays(ChunkId(r.id, n), ChunkId(r.id, n + 1), "adjacent", 100)
           ss == [n \in 1 .. k |-> pair(n)]
<1>1. k \in Nat
  BY PiecesAre
<1>2. Adjacent(r) = FlattenSeq(ss)
  BY DEF Adjacent
<1>3. \A n \in 1 .. k :
        /\ IsSeq(pair(n)) /\ Len(pair(n)) = 2
        /\ ToSet(pair(n)) = {Edge(ChunkId(r.id, n), ChunkId(r.id, n + 1), "adjacent", 100),
                             Edge(ChunkId(r.id, n + 1), ChunkId(r.id, n), "adjacent", 100)}
  BY BothWaysIs
<1> HIDE DEF pair, k
<1>4. IsSeq(ss) /\ Len(ss) = k /\ ToSet(ss) = {pair(n) : n \in 1 .. k}
  <2>1. IsSeq(ss) /\ Len(ss) = k
    <3>1. DOMAIN ss = 1 .. k /\ ss = [i \in 1 .. k |-> ss[i]]
      OBVIOUS
    <3> HIDE DEF ss
    <3> QED BY <1>1, <3>1, SeqIsFunction
  <2> QED BY <2>1 DEF ToSet
<1> HIDE DEF ss
<1>5. \A s \in ToSet(ss) : IsSeq(s) /\ Len(s) <= 2
  <2> SUFFICES ASSUME NEW n \in 1 .. k PROVE IsSeq(pair(n)) /\ Len(pair(n)) <= 2
    BY <1>4
  <2>1. IsSeq(pair(n)) /\ Len(pair(n)) = 2
    BY <1>3
  <2> QED BY <2>1
<1>6. IsSeq(FlattenSeq(ss)) /\ Len(FlattenSeq(ss)) <= Len(ss) * 2
  BY <1>4, <1>5, FlatElements, FlatLength
<1>7. \A e : e \in ToSet(FlattenSeq(ss)) <=> \E n \in 1 .. k : e \in ToSet(pair(n))
  <2>1. \A e : e \in ToSet(FlattenSeq(ss)) <=> \E s \in ToSet(ss) : e \in ToSet(s)
    BY <1>4, <1>5, FlatElements
  <2> QED BY <1>4, <2>1
<1> QED BY <1>2, <1>3, <1>4, <1>6, <1>7 DEF k

\* Two edges for each near stored chunk.
Joins(e, id, row) ==
    \E w : e = Edge(id, row.id, "semantic", w) \/ e = Edge(row.id, id, "semantic", w)

LEMMA LinksAre ==
    ASSUME NEW chunks, IsSeq(chunks), NEW r \in Requests, NEW n
    PROVE  /\ IsSeq(Links(chunks, r, n))
           /\ Len(Links(chunks, r, n)) <= Min({SemanticNeighbors, Len(chunks)}) * 2
           /\ \A e \in ToSet(Links(chunks, r, n)) :
                \E row \in ToSet(Neighbors(chunks, Pieces[r.body][n])) :
                  Joins(e, ChunkId(r.id, n), row)
<1> DEFINE piece == Pieces[r.body][n]
           near == Neighbors(chunks, piece)
           w(k) == Similarity[piece][near[k].piece]
           pair(k) == BothWays(ChunkId(r.id, n), near[k].id, "semantic", w(k))
           ss == [k \in DOMAIN near |-> pair(k)]
           most == Min({SemanticNeighbors, Len(chunks)})
<1>1. /\ IsSeq(near) /\ Len(near) \in Nat /\ Len(near) <= most
      /\ DOMAIN near = 1 .. Len(near)
  BY NeighborsIsSeq, SeqDomain
<1>2. Links(chunks, r, n) = FlattenSeq(ss)
  BY DEF Links
<1>3. \A k \in 1 .. Len(near) :
        /\ IsSeq(pair(k)) /\ Len(pair(k)) = 2
        /\ ToSet(pair(k)) = {Edge(ChunkId(r.id, n), near[k].id, "semantic", w(k)),
                             Edge(near[k].id, ChunkId(r.id, n), "semantic", w(k))}
  BY BothWaysIs
<1>4. \A k \in 1 .. Len(near) : near[k] \in ToSet(near)
  BY <1>1, SeqDomain
<1>5. most \in Nat
  <2>1. SemanticNeighbors \in Nat /\ Len(chunks) \in Nat
    BY GraphStoreAssumption, SeqDomain
  <2> QED BY <2>1, MinIs
<1> HIDE DEF pair, w, near, most
<1>6. IsSeq(ss) /\ Len(ss) = Len(near) /\ ToSet(ss) = {pair(k) : k \in 1 .. Len(near)}
  <2>1. IsSeq(ss) /\ Len(ss) = Len(near)
    <3>1. DOMAIN ss = 1 .. Len(near) /\ ss = [i \in 1 .. Len(near) |-> ss[i]]
      BY <1>1
    <3> HIDE DEF ss
    <3> QED BY <1>1, <3>1, SeqIsFunction
  <2> QED BY <1>1, <2>1 DEF ToSet
<1> HIDE DEF ss
<1>7. \A s \in ToSet(ss) : IsSeq(s) /\ Len(s) <= 2
  <2> SUFFICES ASSUME NEW k \in 1 .. Len(near) PROVE IsSeq(pair(k)) /\ Len(pair(k)) <= 2
    BY <1>6
  <2>1. IsSeq(pair(k)) /\ Len(pair(k)) = 2
    BY <1>3
  <2> QED BY <2>1
<1>8. IsSeq(FlattenSeq(ss)) /\ Len(FlattenSeq(ss)) <= Len(ss) * 2
  BY <1>6, <1>7, FlatElements, FlatLength
<1>9. \A e \in ToSet(FlattenSeq(ss)) : \E k \in 1 .. Len(near) : e \in ToSet(pair(k))
  <2>1. \A e : e \in ToSet(FlattenSeq(ss)) <=> \E s \in ToSet(ss) : e \in ToSet(s)
    BY <1>6, <1>7, FlatElements
  <2> QED BY <1>6, <2>1
<1>10. Len(FlattenSeq(ss)) <= most * 2
  BY <1>1, <1>5, <1>6, <1>8, SeqDomain
<1>11. ASSUME NEW e \in ToSet(FlattenSeq(ss))
       PROVE  \E row \in ToSet(near) : Joins(e, ChunkId(r.id, n), row)
  BY <1>3, <1>4, <1>9 DEF Joins
<1> QED BY <1>2, <1>8, <1>10, <1>11 DEF near, most, piece

LEMMA SemanticIs ==
    ASSUME NEW t, IsSeq(t.chunks), NEW r \in Requests
    PROVE  /\ IsSeq(Semantic(t, r))
           /\ Len(Semantic(t, r)) <= Len(Pieces[r.body]) * (Min({SemanticNeighbors, Len(t.chunks)}) * 2)
           /\ \A e : e \in ToSet(Semantic(t, r)) <=>
                \E n \in 1 .. Len(Pieces[r.body]) : e \in ToSet(Links(t.chunks, r, n))
<1> DEFINE k == Len(Pieces[r.body])
           ss == [n \in 1 .. k |-> Links(t.chunks, r, n)]
           most == Min({SemanticNeighbors, Len(t.chunks)}) * 2
<1>1. k \in Nat /\ DOMAIN Pieces[r.body] = 1 .. k
  BY PiecesAre
<1>2. Semantic(t, r) = FlattenSeq(ss)
  BY <1>1 DEF Semantic
<1>3. most \in Nat
  <2>1. SemanticNeighbors \in Nat /\ Len(t.chunks) \in Nat
    BY GraphStoreAssumption, SeqDomain
  <2>2. Min({SemanticNeighbors, Len(t.chunks)}) \in Nat
    BY <2>1, MinIs
  <2> QED BY <2>2
<1>4. \A n \in 1 .. k : IsSeq(Links(t.chunks, r, n)) /\ Len(Links(t.chunks, r, n)) <= most
  BY LinksAre
<1> HIDE DEF k, most
<1>5. IsSeq(ss) /\ Len(ss) = k /\ ToSet(ss) = {Links(t.chunks, r, n) : n \in 1 .. k}
  <2>1. IsSeq(ss) /\ Len(ss) = k
    <3>1. DOMAIN ss = 1 .. k /\ ss = [i \in 1 .. k |-> ss[i]]
      OBVIOUS
    <3> HIDE DEF ss
    <3> QED BY <1>1, <3>1, SeqIsFunction
  <2> QED BY <2>1 DEF ToSet
<1> HIDE DEF ss
<1>6. \A s \in ToSet(ss) : IsSeq(s) /\ Len(s) <= most
  BY <1>4, <1>5
<1>7. IsSeq(FlattenSeq(ss)) /\ Len(FlattenSeq(ss)) <= k * most
  BY <1>3, <1>5, <1>6, FlatElements, FlatLength
<1>8. \A e : e \in ToSet(FlattenSeq(ss)) <=> \E n \in 1 .. k : e \in ToSet(Links(t.chunks, r, n))
  <2>1. \A e : e \in ToSet(FlattenSeq(ss)) <=> \E s \in ToSet(ss) : e \in ToSet(s)
    BY <1>5, <1>6, FlatElements
  <2> QED BY <1>5, <2>1
<1> QED BY <1>2, <1>7, <1>8 DEF k, most

LEMMA NewChunksAre ==
    ASSUME NEW t, NEW r \in Requests
    PROVE  /\ IsSeq(NewChunks(t, r)) /\ Len(NewChunks(t, r)) = Len(Pieces[r.body])
           /\ \A n \in 1 .. Len(Pieces[r.body]) :
                NewChunks(t, r)[n] =
                  [id |-> ChunkId(r.id, n), doc |-> r.id, ordinal |-> n,
                   piece |-> Pieces[r.body][n], profile |-> t.config]
           /\ \A row \in ToSet(NewChunks(t, r)) :
                \E n \in 1 .. Len(Pieces[r.body]) : row = NewChunks(t, r)[n]
<1> DEFINE k == Len(Pieces[r.body])
           s == NewChunks(t, r)
<1>1. k \in Nat /\ DOMAIN Pieces[r.body] = 1 .. k
  BY PiecesAre
<1>2. /\ DOMAIN s = 1 .. k
      /\ \A n \in 1 .. k :
            s[n] = [id |-> ChunkId(r.id, n), doc |-> r.id, ordinal |-> n,
                    piece |-> Pieces[r.body][n], profile |-> t.config]
  BY <1>1 DEF NewChunks
<1>3. s = [i \in 1 .. k |-> s[i]]
  BY <1>1, <1>2 DEF NewChunks
<1> HIDE DEF s, k
<1>4. IsSeq(s) /\ Len(s) = k
  BY <1>1, <1>2, <1>3, SeqIsFunction
<1> QED BY <1>1, <1>2, <1>4, SeqDomain DEF s, k

\* One table is exchanged.
LEMMA ExceptShape ==
    ASSUME NEW t, Shape(t), NEW s, IsSeq(s)
    PROVE  /\ Shape([t EXCEPT !.documents = s]) /\ Shape([t EXCEPT !.chunks = s])
           /\ Shape([t EXCEPT !.edges = s])
           /\ [t EXCEPT !.documents = s] =
                [config |-> t.config, documents |-> s, chunks |-> t.chunks, edges |-> t.edges]
           /\ [t EXCEPT !.chunks = s] =
                [config |-> t.config, documents |-> t.documents, chunks |-> s, edges |-> t.edges]
           /\ [t EXCEPT !.edges = s] =
                [config |-> t.config, documents |-> t.documents, chunks |-> t.chunks, edges |-> s]
           /\ [t EXCEPT !.documents = s].chunks = t.chunks
           /\ [t EXCEPT !.edges = s].chunks = t.chunks
<1>1. [t EXCEPT !.documents = s] =
        [config |-> t.config, documents |-> s, chunks |-> t.chunks, edges |-> t.edges]
  BY DEF Shape
<1>2. [t EXCEPT !.chunks = s] =
        [config |-> t.config, documents |-> t.documents, chunks |-> s, edges |-> t.edges]
  BY DEF Shape
<1>3. [t EXCEPT !.edges = s] =
        [config |-> t.config, documents |-> t.documents, chunks |-> t.chunks, edges |-> s]
  BY DEF Shape
<1> QED BY <1>1, <1>2, <1>3 DEF Shape

LEMMA WithIs ==
    ASSUME NEW t, Shape(t), NEW r \in Requests
    PROVE  /\ Shape(With(t, r)) /\ With(t, r).config = t.config
           /\ With(t, r).documents = Append(t.documents, NewDocument(r, NewChunks(t, r)))
           /\ With(t, r).chunks = t.chunks \o NewChunks(t, r)
           /\ With(t, r).edges = (t.edges \o Adjacent(r)) \o Semantic(t, r)
<1> DEFINE documents == Append(t.documents, NewDocument(r, NewChunks(t, r)))
           chunks == t.chunks \o NewChunks(t, r)
           edges == (t.edges \o Adjacent(r)) \o Semantic(t, r)
<1>1. IsSeq(documents)
  BY SeqAppend DEF Shape
<1>2. IsSeq(chunks)
  BY SeqConcat, NewChunksAre DEF Shape
<1>3. IsSeq(edges)
  <2>1. IsSeq(Adjacent(r)) /\ IsSeq(Semantic(t, r)) /\ IsSeq(t.edges)
    BY AdjacentIs, SemanticIs DEF Shape
  <2>2. IsSeq(t.edges \o Adjacent(r))
    BY <2>1, SeqConcat
  <2> QED BY <2>1, <2>2, SeqConcat
<1>4. With(t, r) =
        [t EXCEPT !.documents = documents, !.chunks = chunks, !.edges = edges]
  BY DEF With
<1> HIDE DEF documents, chunks, edges
<1>5. With(t, r) = [config |-> t.config, documents |-> documents, chunks |-> chunks, edges |-> edges]
  BY <1>4 DEF Shape
<1>6. Shape(With(t, r))
  BY <1>1, <1>2, <1>3, <1>5 DEF Shape
<1> QED BY <1>5, <1>6 DEF documents, chunks, edges

\* What stays and what goes, by the elements.
LEMMA RowsOfElements ==
    ASSUME NEW s, IsSeq(s), NEW d
    PROVE  /\ IsSeq(RowsOf(s, d)) /\ \A x : x \in ToSet(RowsOf(s, d)) <=> x \in ToSet(s) /\ x.doc = d
           /\ IsSeq(RowsNotOf(s, d))
           /\ \A x : x \in ToSet(RowsNotOf(s, d)) <=> x \in ToSet(s) /\ x.doc # d
<1> DEFINE E == {row \in ToSet(s) : row.doc = d}
           F == {row \in ToSet(s) : row.doc # d}
<1>1. RowsOf(s, d) = Only(s, E) /\ RowsNotOf(s, d) = Only(s, F)
  BY RowsOfIs, RowsNotOfIs
<1>2. \A x : x \in ToSet(s) \cap E <=> x \in ToSet(s) /\ x.doc = d
  OBVIOUS
<1>3. \A x : x \in ToSet(s) \cap F <=> x \in ToSet(s) /\ x.doc # d
  OBVIOUS
<1> HIDE DEF E, F
<1>4. /\ IsSeq(Only(s, E)) /\ ToSet(Only(s, E)) = ToSet(s) \cap E
      /\ IsSeq(Only(s, F)) /\ ToSet(Only(s, F)) = ToSet(s) \cap F
  BY OnlyElements
<1> QED BY <1>1, <1>2, <1>3, <1>4

LEMMA OthersElements ==
    ASSUME NEW s, IsSeq(s), NEW d
    PROVE  IsSeq(Others(s, d)) /\ \A x : x \in ToSet(Others(s, d)) <=> x \in ToSet(s) /\ x.id # d
<1> DEFINE E == {row \in ToSet(s) : row.id # d}
<1>1. Others(s, d) = Only(s, E) /\ \A x : x \in ToSet(s) \cap E <=> x \in ToSet(s) /\ x.id # d
  BY OthersIs
<1> HIDE DEF E
<1>2. IsSeq(Only(s, E)) /\ ToSet(Only(s, E)) = ToSet(s) \cap E
  BY OnlyElements
<1> QED BY <1>1, <1>2

LEMMA ApartElements ==
    ASSUME NEW s, IsSeq(s), NEW ids
    PROVE  /\ IsSeq(Apart(s, ids))
           /\ \A e : e \in ToSet(Apart(s, ids)) <=> e \in ToSet(s) /\ ~Touches(e, ids)
<1> DEFINE E == {e \in ToSet(s) : ~Touches(e, ids)}
<1>1. /\ Apart(s, ids) = Only(s, E)
      /\ \A e : e \in ToSet(s) \cap E <=> e \in ToSet(s) /\ ~Touches(e, ids)
  BY ApartIs
<1> HIDE DEF E
<1>2. IsSeq(Only(s, E)) /\ ToSet(Only(s, E)) = ToSet(s) \cap E
  BY OnlyElements
<1> QED BY <1>1, <1>2

LEMMA WithoutIs ==
    ASSUME NEW t, Shape(t), NEW d
    PROVE  /\ Shape(Without(t, d)) /\ Without(t, d).config = t.config
           /\ Without(t, d).documents = Others(t.documents, d)
           /\ Without(t, d).chunks = RowsNotOf(t.chunks, d)
           /\ Without(t, d).edges = Apart(t.edges, DocumentChunkIds(t, d))
<1> DEFINE documents == Others(t.documents, d)
           chunks == RowsNotOf(t.chunks, d)
           edges == Apart(t.edges, DocumentChunkIds(t, d))
<1>1. IsSeq(documents) /\ IsSeq(chunks) /\ IsSeq(edges)
  BY OthersElements, RowsOfElements, ApartElements DEF Shape
<1>4. Without(t, d) =
        [t EXCEPT !.documents = documents, !.chunks = chunks, !.edges = edges]
  BY DEF Without
<1> HIDE DEF documents, chunks, edges
<1>5. Without(t, d) = [config |-> t.config, documents |-> documents, chunks |-> chunks, edges |-> edges]
  BY <1>4 DEF Shape
<1>6. Shape(Without(t, d))
  BY <1>1, <1>5 DEF Shape
<1> QED BY <1>5, <1>6 DEF documents, chunks, edges

LEMMA RemoveRelationElements ==
    ASSUME NEW t, Shape(t), NEW kind, NEW from, NEW to
    PROVE  LET rest == RemoveRelation(t, kind, from, to)
           IN  /\ Shape(rest) /\ rest.config = t.config
               /\ rest.documents = t.documents /\ rest.chunks = t.chunks
               /\ \A e : e \in ToSet(rest.edges)
                           <=> e \in ToSet(t.edges) /\ ~IsRelation(e, kind, from, to)
<1> DEFINE E == OtherRelations(t, kind, from, to)
           edges == Only(t.edges, E)
<1>1. RemoveRelation(t, kind, from, to) = [t EXCEPT !.edges = edges]
  BY RemoveRelationIs DEF Shape
<1>0. \A e : e \in ToSet(t.edges) \cap E
               <=> e \in ToSet(t.edges) /\ ~IsRelation(e, kind, from, to)
  BY DEF OtherRelations
<1> HIDE DEF E
<1>2. IsSeq(edges) /\ ToSet(edges) = ToSet(t.edges) \cap E
  BY OnlyElements DEF Shape
<1> HIDE DEF edges
<1>3. RemoveRelation(t, kind, from, to) =
        [config |-> t.config, documents |-> t.documents, chunks |-> t.chunks, edges |-> edges]
  BY <1>1 DEF Shape
<1> QED BY <1>0, <1>2, <1>3 DEF Shape

\* An entry that the checks have added, or one that was there.
LEMMA RememberElements ==
    ASSUME NEW s, IsSeq(s), NEW entry
    PROVE  IsSeq(Remember(s, entry)) /\ ToSet(Remember(s, entry)) \subseteq ToSet(s) \cup {entry}
<1>1. CASE entry \in ToSet(s)
  <2> DEFINE places == {i \in DOMAIN s : s[i] = entry}
             rest == RemoveAt(s, Min(places))
  <2>1. Min(places) \in DOMAIN s
    <3>1. places \in SUBSET Nat /\ places # {} /\ places \subseteq DOMAIN s
      BY <1>1, SeqDomain DEF ToSet
    <3> HIDE DEF places
    <3>2. Min(places) \in places
      BY <3>1, SmallestPlace
    <3> QED BY <3>1, <3>2
  <2>2. IsSeq(rest) /\ ToSet(rest) \subseteq ToSet(s)
    BY <2>1, RemoveAtElements
  <2>3. Remember(s, entry) = Append(rest, entry)
    BY <1>1 DEF Remember
  <2> HIDE DEF rest
  <2> QED BY <2>2, <2>3, SeqAppend
<1>2. CASE entry \notin ToSet(s) /\ Len(s) < MaxGenerations
  BY <1>2, SeqAppend DEF Remember
<1>3. CASE entry \notin ToSet(s) /\ ~(Len(s) < MaxGenerations)
  <2>1. Remember(s, entry) = Append(Tail(s), entry)
    BY <1>3 DEF Remember
  <2>2. s # <<>>
    <3>1. Len(<<>>) < MaxGenerations
      BY GraphStoreAssumption
    <3> QED BY <1>3, <3>1
  <2>3. IsSeq(Tail(s)) /\ ToSet(Tail(s)) \subseteq ToSet(s)
    BY <2>2, TailElements
  <2> QED BY <2>1, <2>3, SeqAppend
<1> QED BY <1>1, <1>2, <1>3

-----------------------------------------------------------------------------
(* The cache of checked generations.  A generation is given to the chunks    *)
(* once: whatever changes them takes the number of its own commit, so an     *)
(* entry of an older generation says nothing of the chunks there are now.    *)

HasProfile(t, p) == \A row \in ToSet(t.chunks) : row.profile = p

Cached ==
    /\ Shape(tables) /\ IsSeq(validated)
    /\ revision \in Nat /\ generation \in Nat /\ generation <= revision
    /\ \A e \in ToSet(validated) :
          /\ e[1] \in Nat /\ e[1] <= revision
          /\ e[1] = generation => HasProfile(tables, e[2])

CheckedNow == <<generation, tables.config>>

\* The same chunks, or fewer: only a scan of them may have been added.
KeepsChunks ==
    /\ revision' \in {revision, revision + 1} /\ generation' = generation
    /\ ToSet(tables'.chunks) \subseteq ToSet(tables.chunks)
    /\ \A e \in ToSet(validated') :
          e \in ToSet(validated) \/ (e = CheckedNow /\ HasProfile(tables, tables.config))

\* Other chunks, with a generation of their own.
RenewsChunks ==
    /\ Committed /\ generation' = revision'
    /\ \A e \in ToSet(validated') :
          \/ e \in ToSet(validated) \/ e = CheckedNow
          \/ e[1] = revision' /\ HasProfile(tables', e[2])

LEMMA CachedStep ==
    ASSUME Cached, Shape(tables'), IsSeq(validated'), KeepsChunks \/ RenewsChunks
    PROVE  Cached'
<1>1. /\ revision \in Nat /\ generation \in Nat /\ generation <= revision
      /\ \A e \in ToSet(validated) :
            /\ e[1] \in Nat /\ e[1] <= revision
            /\ e[1] = generation => HasProfile(tables, e[2])
      /\ CheckedNow[1] = generation /\ CheckedNow[2] = tables.config
  BY DEF Cached, CheckedNow
<1>2. CASE KeepsChunks
  <2>1. revision' \in Nat /\ revision <= revision' /\ generation' = generation
    BY <1>1, <1>2 DEF KeepsChunks
  <2>2. \A p : HasProfile(tables, p) => HasProfile(tables', p)
    BY <1>2 DEF KeepsChunks, HasProfile
  <2>3. \A e \in ToSet(validated') :
          e[1] \in Nat /\ e[1] <= revision /\ (e[1] = generation => HasProfile(tables, e[2]))
    BY <1>1, <1>2 DEF KeepsChunks
  <2>4. \A e \in ToSet(validated') :
          e[1] \in Nat /\ e[1] <= revision' /\ (e[1] = generation' => HasProfile(tables', e[2]))
    BY <1>1, <2>1, <2>2, <2>3
  <2> QED BY <1>1, <2>1, <2>4 DEF Cached, HasProfile
<1>3. CASE RenewsChunks
  <2>1. revision' = revision + 1 /\ generation' = revision'
    BY <1>3 DEF RenewsChunks, Committed
  <2>2. \A e \in ToSet(validated') :
          (e[1] \in Nat /\ e[1] <= revision) \/ (e[1] = revision' /\ HasProfile(tables', e[2]))
    BY <1>1, <1>3 DEF RenewsChunks
  <2>3. \A e \in ToSet(validated') :
          e[1] \in Nat /\ e[1] <= revision' /\ (e[1] = generation' => HasProfile(tables', e[2]))
    BY <1>1, <2>1, <2>2
  <2> QED BY <1>1, <2>1, <2>3 DEF Cached, HasProfile
<1> QED BY <1>2, <1>3

LEMMA SameProfileIs ==
    ASSUME NEW t, Shape(t)
    PROVE  SameProfile(t) <=> HasProfile(t, t.config)
BY SeqDomain DEF Shape, SameProfile, HasProfile

\* What collection() lets through is what a scan would.
LEMMA CollectionHasProfile == ASSUME Cached, Collection PROVE HasProfile(tables, tables.config)
<1>1. CASE Checked
  <2>1. CheckedNow \in ToSet(validated) /\ CheckedNow[1] = generation /\ CheckedNow[2] = tables.config
    BY <1>1 DEF Checked, CheckedNow
  <2> QED BY <2>1 DEF Cached
<1>2. CASE SameProfile(tables)
  BY <1>2, SameProfileIs DEF Cached
<1> QED BY <1>1, <1>2 DEF Collection

LEMMA ValidateAdds ==
    ASSUME Cached, Collection, Validate
    PROVE  /\ IsSeq(validated')
           /\ \A e \in ToSet(validated') :
                e \in ToSet(validated) \/ (e = CheckedNow /\ HasProfile(tables, tables.config))
<1> DEFINE entry == CheckedNow
<1>1. validated' = Remember(validated, entry)
  BY DEF Validate, CheckedNow
<1> HIDE DEF entry
<1>2. IsSeq(validated') /\ ToSet(validated') \subseteq ToSet(validated) \cup {entry}
  BY <1>1, RememberElements DEF Cached
<1> QED BY <1>2, CollectionHasProfile DEF entry

LEMMA CachedWrites ==
    ASSUME Cached,
           \/ \E r \in Requests : AppendDocument(r) \/ ReplaceDocument(r)
           \/ \E d, meta, field : UpdateMetadata(d, meta, field)
           \/ \E d : DeleteDocument(d)
           \/ \E kind, from, to, weight : UpsertRelationship(kind, from, to, weight)
           \/ \E kind, from, to : DeleteRelationship(kind, from, to)
           \/ \E p : CreateCollection(p)
    PROVE  Cached'
<1>0. /\ Shape(tables) /\ IsSeq(validated) /\ revision \in Nat
  BY DEF Cached
<1>1. ASSUME NEW r \in Requests, AppendDocument(r) PROVE Cached'
  <2>1. /\ Collection /\ Committed /\ tables' = With(tables, r) /\ generation' = revision'
    BY <1>1 DEF AppendDocument, Commit, Committed
  <2>2. /\ Shape(tables') /\ tables'.chunks = tables.chunks \o NewChunks(tables, r)
    BY <1>0, <2>1, WithIs
  <2>3. HasProfile(tables', tables.config)
    <3>1. \A row \in ToSet(NewChunks(tables, r)) : row.profile = tables.config
      <4> TAKE row \in ToSet(NewChunks(tables, r))
      <4>1. PICK n \in 1 .. Len(Pieces[r.body]) : row = NewChunks(tables, r)[n]
        BY NewChunksAre
      <4>2. row = [id |-> ChunkId(r.id, n), doc |-> r.id, ordinal |-> n,
                   piece |-> Pieces[r.body][n], profile |-> tables.config]
        BY <4>1, NewChunksAre
      <4> QED BY <4>2
    <3>2. ToSet(tables'.chunks) = ToSet(tables.chunks) \cup ToSet(NewChunks(tables, r))
      BY <1>0, <2>2, NewChunksAre, SeqConcat DEF Shape
    <3>3. HasProfile(tables, tables.config)
      BY <2>1, CollectionHasProfile
    <3> QED BY <3>1, <3>2, <3>3 DEF HasProfile
  <2> DEFINE once == Remember(validated, CheckedNow)
             entry == <<generation', tables.config>>
  <2>4. IsSeq(once) /\ ToSet(once) \subseteq ToSet(validated) \cup {CheckedNow}
    BY <1>0, RememberElements
  <2>5. validated' = Remember(once, entry) /\ entry[1] = revision' /\ entry[2] = tables.config
    BY <1>1, <2>1 DEF AppendDocument, CheckedNow
  <2> HIDE DEF once, entry
  <2>6. IsSeq(validated') /\ ToSet(validated') \subseteq ToSet(once) \cup {entry}
    BY <2>4, <2>5, RememberElements
  <2>7. RenewsChunks
    BY <2>1, <2>3, <2>4, <2>5, <2>6 DEF RenewsChunks
  <2> QED BY <2>2, <2>6, <2>7, CachedStep
<1>2. ASSUME NEW r \in Requests, ReplaceDocument(r) PROVE Cached'
  <2>1. /\ Collection /\ Validate /\ Committed /\ generation' = revision'
        /\ tables' = With(Without(tables, r.id), r)
    BY <1>2 DEF ReplaceDocument, Commit, Committed
  <2>2. Shape(Without(tables, r.id))
    BY <1>0, WithoutIs
  <2>3. Shape(tables')
    BY <2>1, <2>2, WithIs
  <2>4. RenewsChunks
    BY <2>1, ValidateAdds DEF RenewsChunks
  <2> QED BY <2>1, <2>3, <2>4, ValidateAdds, CachedStep
\* A commit that keeps the chunks, or loses some, after a check.
<1>3. ASSUME NEW t, NEW log, Shape(t), ToSet(t.chunks) \subseteq ToSet(tables.chunks),
             \/ Commit(t, log, FALSE) \/ Commit(t, log, TRUE), Collection, Validate
      PROVE  Cached'
  <2>1. tables' = t /\ Committed /\ generation' \in {generation, revision'}
    BY <1>3 DEF Commit, Committed
  <2>2. KeepsChunks \/ RenewsChunks
    BY <1>3, <2>1, ValidateAdds DEF KeepsChunks, RenewsChunks, Committed
  <2> QED BY <1>3, <2>1, <2>2, ValidateAdds, CachedStep
<1>4. ASSUME NEW d, NEW meta, NEW field, UpdateMetadata(d, meta, field) PROVE Cached'
  <2> DEFINE row == UpdatedRow(tables, d, meta, field)
             documents == [i \in DOMAIN tables.documents |->
                             IF tables.documents[i].id = d THEN row ELSE tables.documents[i]]
             t == [tables EXCEPT !.documents = documents]
             log == <<[op |-> "update", row |-> row]>>
  <2>2. Commit(t, log, FALSE) /\ Collection /\ Validate
    BY <1>4 DEF UpdateMetadata
  <2> HIDE DEF row, log
  <2> DEFINE k == Len(tables.documents)
  <2>1. k \in Nat /\ DOMAIN tables.documents = 1 .. k
    BY <1>0, SeqDomain DEF Shape
  <2>3. DOMAIN documents = 1 .. k /\ documents = [i \in 1 .. k |-> documents[i]]
    BY <2>1
  <2> HIDE DEF documents, k
  <2>4. IsSeq(documents)
    BY <2>1, <2>3, SeqIsFunction
  <2>5. Shape(t) /\ t.chunks = tables.chunks
    BY <1>0, <2>4, ExceptShape
  <2> HIDE DEF t
  <2> QED BY <1>3, <2>2, <2>5
<1>5. ASSUME NEW d, DeleteDocument(d) PROVE Cached'
  <2> DEFINE t == Without(tables, d)
             log == RemovalLog(tables, d)
  <2>1. Shape(t) /\ t.chunks = RowsNotOf(tables.chunks, d)
    BY <1>0, WithoutIs
  <2>2. Commit(t, log, RowsOf(tables.chunks, d) # <<>>) /\ Collection /\ Validate
    BY <1>5 DEF DeleteDocument
  <2>3. Commit(t, log, FALSE) \/ Commit(t, log, TRUE)
    BY <2>2 DEF Commit
  <2>4. ToSet(t.chunks) \subseteq ToSet(tables.chunks)
    BY <1>0, <2>1, RowsOfElements DEF Shape
  <2> HIDE DEF t, log
  <2> QED BY <1>3, <2>1, <2>2, <2>3, <2>4
<1>6. ASSUME NEW kind, NEW from, NEW to, NEW weight, UpsertRelationship(kind, from, to, weight)
      PROVE  Cached'
  <2> DEFINE rest == RemoveRelation(tables, kind, from, to)
             edges == Append(rest.edges, Edge(from, to, kind, weight))
             log == RelationLog(tables, kind, from, to) \o <<Insert("edges", <<Edge(from, to, kind, weight)>>)>>
  <2>1. Shape(rest) /\ rest.chunks = tables.chunks
    BY <1>0, RemoveRelationElements
  <2>2. Commit([rest EXCEPT !.edges = edges], log, FALSE) /\ Collection /\ Validate
    BY <1>6 DEF UpsertRelationship
  <2> HIDE DEF rest, log
  <2>3. IsSeq(edges)
    BY <2>1, SeqAppend DEF Shape
  <2> HIDE DEF edges
  <2> DEFINE t == [rest EXCEPT !.edges = edges]
  <2>4. Shape(t) /\ t.chunks = tables.chunks
    BY <2>1, <2>3, ExceptShape
  <2>5. Commit(t, log, FALSE)
    BY <2>2
  <2> HIDE DEF t
  <2> QED BY <1>3, <2>2, <2>4, <2>5
<1>7. ASSUME NEW kind, NEW from, NEW to, DeleteRelationship(kind, from, to) PROVE Cached'
  <2> DEFINE t == RemoveRelation(tables, kind, from, to)
             log == RelationLog(tables, kind, from, to)
  <2>1. Shape(t) /\ t.chunks = tables.chunks
    BY <1>0, RemoveRelationElements
  <2>2. Commit(t, log, FALSE) /\ Collection /\ Validate
    BY <1>7 DEF DeleteRelationship
  <2> HIDE DEF t, log
  <2> QED BY <1>3, <2>1, <2>2
<1>8. ASSUME NEW p, CreateCollection(p) PROVE Cached'
  <2> DEFINE entry == <<generation', p>>
  <2>1. /\ tables' = Empty(p) /\ Committed /\ generation' = revision'
        /\ validated' = Remember(validated, entry) /\ entry[1] = revision'
    BY <1>8 DEF CreateCollection, Commit, Committed
  <2>2. Shape(tables') /\ ToSet(tables'.chunks) = {}
    BY <2>1, SeqNone DEF Shape, Empty
  <2> HIDE DEF entry
  <2>3. IsSeq(validated') /\ ToSet(validated') \subseteq ToSet(validated) \cup {entry}
    BY <1>0, <2>1, RememberElements
  <2>4. HasProfile(tables', entry[2])
    BY <2>2 DEF HasProfile
  <2>5. RenewsChunks
    BY <2>1, <2>3, <2>4 DEF RenewsChunks
  <2> QED BY <2>2, <2>3, <2>5, CachedStep
<1> QED BY <1>1, <1>2, <1>4, <1>5, <1>6, <1>7, <1>8

\* An edit with SQL: the rows it makes, and a generation of their own if they
\* are chunks.
LEMMA EditShape ==
    ASSUME Cached, EditChunks \/ DeleteDocumentRow \/ DuplicateEdge \/ DropCollection
    PROVE  \E t : /\ Shape(t)
                  /\ \/ Edit(t, TRUE)
                     \/ Edit(t, FALSE) /\ t.chunks = tables.chunks
<1>0. Shape(tables)
  BY DEF Cached
<1>1. CASE EditChunks
  <2> SUFFICES ASSUME NEW chunks, IsSeq(chunks), Edit([tables EXCEPT !.chunks = chunks], TRUE)
               PROVE  \E t : Shape(t) /\ Edit(t, TRUE)
    <3>1. PICK i \in DOMAIN tables.chunks :
            \/ Edit([tables EXCEPT !.chunks = RemoveAt(@, i)], TRUE)
            \/ \E p \in Profiles : Edit([tables EXCEPT !.chunks[i].profile = p], TRUE)
            \/ \E piece \in DOMAIN Similarity : Edit([tables EXCEPT !.chunks[i].piece = piece], TRUE)
      BY <1>1 DEF EditChunks
    <3>2. IsSeq(RemoveAt(tables.chunks, i))
      BY <1>0, RemoveAtElements DEF Shape
    <3>3. \A row : IsSeq([tables.chunks EXCEPT ![i] = row])
      BY <1>0, ExceptIsSeq DEF Shape
    <3> QED BY <3>1, <3>2, <3>3
  <2>1. Shape([tables EXCEPT !.chunks = chunks])
    BY <1>0, ExceptShape
  <2> QED BY <2>1
<1>2. CASE DeleteDocumentRow
  <2>1. PICK i \in DOMAIN tables.documents :
          LET rest == [tables EXCEPT !.documents = RemoveAt(@, i)]
          IN  \/ Edit(rest, FALSE)
              \/ Edit([rest EXCEPT !.chunks = RowsNotOf(@, tables.documents[i].id)], TRUE)
    BY <1>2 DEF DeleteDocumentRow
  <2> DEFINE documents == RemoveAt(tables.documents, i)
             chunks == RowsNotOf(tables.chunks, tables.documents[i].id)
  <2>2. IsSeq(documents) /\ IsSeq(chunks)
    BY <1>0, RemoveAtElements, RowsOfElements DEF Shape
  <2> HIDE DEF documents, chunks
  <2>3. /\ Shape([tables EXCEPT !.documents = documents])
        /\ [tables EXCEPT !.documents = documents].chunks = tables.chunks
        /\ Shape([[tables EXCEPT !.documents = documents] EXCEPT !.chunks = chunks])
    BY <1>0, <2>2, ExceptShape
  <2>4. \/ Edit([tables EXCEPT !.documents = documents], FALSE)
        \/ Edit([[tables EXCEPT !.documents = documents] EXCEPT !.chunks = chunks], TRUE)
    <3>1. [tables EXCEPT !.documents = documents].chunks = tables.chunks
      BY <2>3
    <3> QED BY <2>1, <3>1 DEF documents, chunks
  <2> QED BY <2>3, <2>4
<1>3. CASE DuplicateEdge
  <2>1. PICK i \in DOMAIN tables.edges :
          Edit([tables EXCEPT !.edges = Append(@, [@[i] EXCEPT !.id = <<"own", i>>])], FALSE)
    BY <1>3 DEF DuplicateEdge
  <2> DEFINE edges == Append(tables.edges, [tables.edges[i] EXCEPT !.id = <<"own", i>>])
  <2>2. IsSeq(edges)
    BY <1>0, SeqAppend DEF Shape
  <2>3. Edit([tables EXCEPT !.edges = edges], FALSE)
    BY <2>1
  <2> HIDE DEF edges
  <2>4. /\ Shape([tables EXCEPT !.edges = edges])
        /\ [tables EXCEPT !.edges = edges].chunks = tables.chunks
    BY <1>0, <2>2, ExceptShape
  <2> QED BY <2>3, <2>4
<1>4. CASE DropCollection
  <2>1. Shape(Empty(NoProfile))
    BY SeqNone DEF Shape, Empty
  <2> QED BY <1>4, <2>1 DEF DropCollection
<1> QED BY <1>1, <1>2, <1>3, <1>4

LEMMA CachedEdits ==
    ASSUME Cached, EditChunks \/ DeleteDocumentRow \/ DuplicateEdge \/ DropCollection
    PROVE  Cached'
<1>1. PICK t : Shape(t) /\ (Edit(t, TRUE) \/ (Edit(t, FALSE) /\ t.chunks = tables.chunks))
  BY EditShape
<1>2. tables' = t /\ validated' = validated /\ Committed
  BY <1>1 DEF Edit, Commit, Committed
<1>3. CASE Edit(t, TRUE)
  <2>1. RenewsChunks
    BY <1>2, <1>3 DEF RenewsChunks, Edit, Commit
  <2> QED BY <1>1, <1>2, <2>1, CachedStep DEF Cached
<1>4. CASE Edit(t, FALSE) /\ t.chunks = tables.chunks
  <2>1. KeepsChunks
    BY <1>2, <1>4 DEF KeepsChunks, Edit, Commit, Committed
  <2> QED BY <1>1, <1>2, <2>1, CachedStep DEF Cached
<1> QED BY <1>1, <1>3, <1>4

\* A step of a request is an operation of the engine, or only reads.
LEMMA RequestWrites ==
    ASSUME NEW c \in Clients, Request(c)
    PROVE  \/ KeepTables /\ (validated' = validated \/ (Collection /\ Validate))
           \/ /\ client[c].at \in {"append", "replace", "update"}
              /\ \/ AppendDocument(client[c].request) \/ ReplaceDocument(client[c].request)
                 \/ \E d, meta, field : UpdateMetadata(d, meta, field)
<1>1. CASE RequestUpdate(c) \/ RequestAppend(c) \/ RequestReplace(c)
  BY <1>1 DEF RequestUpdate, RequestAppend, RequestReplace, OrRefused, Refuse
<1>2. CASE \E r \in Requests : ReadCollection(c, r)
  BY <1>2 DEF ReadCollection
<1>3. CASE ReadDocument(c) \/ Recheck(c) \/ Answer(c) \/ CheckRequest(c) \/ \E p \in Profiles : Embed(c, p)
  BY <1>3 DEF ReadDocument, Recheck, Answer, CheckRequest, Embed
<1> QED BY <1>1, <1>2, <1>3 DEF Request

LEMMA CachedInit == ASSUME Init PROVE Cached
<1>1. IsSeq(<<>>) /\ ToSet(<<>>) = {}
  BY SeqNone
<1>2. Shape(tables)
  BY <1>1 DEF Init, Shape, Empty
<1> QED BY <1>1, <1>2 DEF Init, Cached

LEMMA CachedNext == ASSUME Reading, Cached, [Next]_vars PROVE Cached'
<1>1. CASE UNCHANGED vars
  BY <1>1 DEF vars, Cached, HasProfile
<1>2. CASE Engine
  BY <1>2, CachedWrites DEF Engine, Ingest
<1>3. CASE EditChunks \/ DeleteDocumentRow \/ DuplicateEdge \/ DropCollection
  BY <1>3, CachedEdits
<1>4. ASSUME NEW c \in Clients, Request(c) PROVE Cached'
  <2>1. CASE KeepTables /\ validated' = validated
    BY <2>1 DEF KeepTables, Cached, HasProfile
  <2>2. CASE KeepTables /\ Collection /\ Validate
    <3>1. Shape(tables') /\ KeepsChunks
      BY <2>2, ValidateAdds DEF KeepTables, Cached, KeepsChunks
    <3> QED BY <2>2, <3>1, ValidateAdds, CachedStep
  <2>3. CASE \E d, meta, field : UpdateMetadata(d, meta, field)
    BY <2>3, CachedWrites
  <2>4. ASSUME client[c].at \in {"append", "replace", "update"},
               AppendDocument(client[c].request) \/ ReplaceDocument(client[c].request)
        PROVE  Cached'
    <3>1. client[c].request \in Requests
      BY <2>4 DEF Reading, Current
    <3> QED BY <2>4, <3>1, CachedWrites
  <2> QED BY <1>4, <2>1, <2>2, <2>3, <2>4, RequestWrites
<1> QED BY <1>1, <1>2, <1>3, <1>4 DEF Next

\* A generation the cache knows for the collection's profile has only chunks of
\* that profile (graph_validation.rs): what changes the chunks, SQL included,
\* gives them a new generation, and only a scan or an append records one.
THEOREM CacheHolds == Spec => []CacheIsSound
<1>1. Cached => CacheIsSound
  <2> SUFFICES ASSUME Cached, Checked PROVE SameProfile(tables)
    BY DEF CacheIsSound
  <2>1. CheckedNow \in ToSet(validated) /\ CheckedNow[1] = generation /\ CheckedNow[2] = tables.config
    BY DEF Checked, CheckedNow
  <2>2. HasProfile(tables, tables.config)
    BY <2>1 DEF Cached
  <2> QED BY <2>2, SameProfileIs DEF Cached
<1> QED BY <1>1, CachedInit, CachedNext, ReadingAlways, PTL DEF Spec

-----------------------------------------------------------------------------
(* The rows of the tables: a chunk's id names its document and ordinal, and  *)
(* neither two chunks nor two documents have one id, SQL edits included.     *)

ChunkForm(row) ==
    /\ row = [id |-> row.id, doc |-> row.doc, ordinal |-> row.ordinal, piece |-> row.piece,
              profile |-> row.profile]
    /\ row.id = ChunkId(row.doc, row.ordinal)
    /\ row.piece \in DOMAIN Similarity
DocumentForm(row) ==
    row = [id |-> row.id, body |-> row.body, meta |-> row.meta, field |-> row.field,
           print |-> row.print]

Formed(t) ==
    /\ Shape(t)
    /\ \A row \in ToSet(t.chunks) : ChunkForm(row)
    /\ \A row \in ToSet(t.documents) : DocumentForm(row)
    /\ Identified(t.chunks) /\ Identified(t.documents)

LEMMA IdsAre ==
    ASSUME NEW s, IsSeq(s)
    PROVE  \A x : x \in IdsOf(s) <=> \E row \in ToSet(s) : row.id = x
BY SeqDomain DEF IdsOf, ToSet

LEMMA EmptyIs == ASSUME NEW p PROVE Formed(Empty(p)) /\ Empty(p).config = p
BY SeqNone, IdentifiedOne DEF Formed, Shape, Empty

\* Nothing of the document is left: no row, no chunk, no edge that names one.
LEMMA AppendableIs ==
    ASSUME NEW t, Shape(t), NEW r \in Requests
    PROVE  Appendable(t, r) <=>
             /\ \A row \in ToSet(t.documents) : row.id # r.id
             /\ \A row \in ToSet(t.chunks) : row.doc # r.id
             /\ \A e \in ToSet(t.edges) : e.from[1] # r.id /\ e.to[1] # r.id
<1> DEFINE d == r.id
           rows == RowsOf(t.chunks, d)
           ends == UNION {{t.edges[i].from, t.edges[i].to} : i \in DOMAIN t.edges}
<1> HIDE DEF d
<1>1. IsSeq(rows) /\ \A x : x \in ToSet(rows) <=> x \in ToSet(t.chunks) /\ x.doc = d
  BY RowsOfElements DEF Shape
<1>2. \A x : x \in IdsOf(rows) <=> \E row \in ToSet(rows) : row.id = x
  BY <1>1, IdsAre
<1>3. Exists(t, d) <=> \E row \in ToSet(t.documents) : row.id = d
  BY IdsAre DEF Exists, Shape
<1>4. \A x : x \in ends <=> \E e \in ToSet(t.edges) : x = e.from \/ x = e.to
  BY SeqDomain DEF Shape, ToSet
<1>5. DocumentChunkIds(t, d) = IdsOf(rows) \cup {id \in ends : id[1] = d}
  BY DEF DocumentChunkIds
<1> HIDE DEF rows, ends
<1>6. DocumentChunkIds(t, d) = {} <=>
        /\ \A row \in ToSet(t.chunks) : row.doc # d
        /\ \A e \in ToSet(t.edges) : e.from[1] # d /\ e.to[1] # d
  <2>1. ASSUME DocumentChunkIds(t, d) = {}
        PROVE  /\ \A row \in ToSet(t.chunks) : row.doc # d
               /\ \A e \in ToSet(t.edges) : e.from[1] # d /\ e.to[1] # d
    <3>1. \A x : x \notin IdsOf(rows)
      BY <1>5, <2>1
    <3>2. \A id \in ends : id[1] # d
      BY <1>5, <2>1
    <3>3. \A row \in ToSet(t.chunks) : row.doc # d
      BY <1>1, <1>2, <3>1
    <3>4. \A e \in ToSet(t.edges) : e.from \in ends /\ e.to \in ends
      BY <1>4
    <3> QED BY <3>2, <3>3, <3>4
  <2>2. ASSUME \A row \in ToSet(t.chunks) : row.doc # d,
               \A e \in ToSet(t.edges) : e.from[1] # d /\ e.to[1] # d
        PROVE  DocumentChunkIds(t, d) = {}
    <3>1. \A x : x \notin IdsOf(rows)
      BY <1>1, <1>2, <2>2
    <3>2. \A id \in ends : id[1] # d
      BY <1>4, <2>2
    <3> QED BY <1>5, <3>1, <3>2
  <2> QED BY <2>1, <2>2
<1> QED BY <1>3, <1>6 DEF Appendable, d

\* Which ends of edges and which chunks remove_document takes away.
LEMMA RemovedIds ==
    ASSUME NEW t, Formed(t), NEW d
    PROVE  \A id : id \in DocumentChunkIds(t, d) <=>
             \/ \E row \in ToSet(t.chunks) : row.doc = d /\ row.id = id
             \/ id[1] = d /\ \E e \in ToSet(t.edges) : id = e.from \/ id = e.to
<1> DEFINE rows == RowsOf(t.chunks, d)
           ends == UNION {{t.edges[i].from, t.edges[i].to} : i \in DOMAIN t.edges}
<1>1. IsSeq(rows) /\ \A x : x \in ToSet(rows) <=> x \in ToSet(t.chunks) /\ x.doc = d
  BY RowsOfElements DEF Shape, Formed
<1>2. \A x : x \in IdsOf(rows) <=> \E row \in ToSet(rows) : row.id = x
  BY <1>1, IdsAre
<1>4. \A x : x \in ends <=> \E e \in ToSet(t.edges) : x = e.from \/ x = e.to
  BY SeqDomain DEF Shape, Formed, ToSet
<1>5. DocumentChunkIds(t, d) = IdsOf(rows) \cup {id \in ends : id[1] = d}
  BY DEF DocumentChunkIds
<1> HIDE DEF rows, ends
<1> QED BY <1>1, <1>2, <1>4, <1>5

LEMMA ChunkIdIs == ASSUME NEW d, NEW n PROVE ChunkId(d, n)[1] = d /\ ChunkId(d, n)[2] = n
BY DEF ChunkId

LEMMA FormedWithout ==
    ASSUME NEW t, Formed(t), NEW d
    PROVE  Formed(Without(t, d))
<1> DEFINE u == Without(t, d)
<1>1. /\ Shape(u) /\ u.documents = Others(t.documents, d) /\ u.chunks = RowsNotOf(t.chunks, d)
  BY WithoutIs DEF Formed
<1>2. ToSet(u.documents) \subseteq ToSet(t.documents) /\ ToSet(u.chunks) \subseteq ToSet(t.chunks)
  BY <1>1, OthersElements, RowsOfElements DEF Formed, Shape
<1>3. Identified(Others(t.documents, d))
  <2> DEFINE E == {row \in ToSet(t.documents) : row.id # d}
  <2>1. Others(t.documents, d) = Only(t.documents, E)
    BY OthersIs DEF Formed, Shape
  <2> HIDE DEF E
  <2> QED BY <2>1, IdentifiedOnly DEF Formed, Shape
<1>4. Identified(RowsNotOf(t.chunks, d))
  <2> DEFINE E == {row \in ToSet(t.chunks) : row.doc # d}
  <2>1. RowsNotOf(t.chunks, d) = Only(t.chunks, E)
    BY RowsNotOfIs DEF Formed, Shape
  <2> HIDE DEF E
  <2> QED BY <2>1, IdentifiedOnly DEF Formed, Shape
<1> HIDE DEF u
<1> QED BY <1>1, <1>2, <1>3, <1>4 DEF Formed, u

LEMMA WithoutAppendable ==
    ASSUME NEW t, Formed(t), NEW r \in Requests
    PROVE  Appendable(Without(t, r.id), r)
<1> DEFINE u == Without(t, r.id)
           ids == DocumentChunkIds(t, r.id)
<1>1. /\ Shape(u) /\ u.documents = Others(t.documents, r.id)
      /\ u.chunks = RowsNotOf(t.chunks, r.id) /\ u.edges = Apart(t.edges, ids)
  BY WithoutIs DEF Formed
<1>2. \A row \in ToSet(u.documents) : row.id # r.id
  BY <1>1, OthersElements DEF Formed, Shape
<1>3. \A row \in ToSet(u.chunks) : row.doc # r.id
  BY <1>1, RowsOfElements DEF Formed, Shape
<1>4. \A e \in ToSet(t.edges) : \A id \in {e.from, e.to} : id[1] = r.id => id \in ids
  BY RemovedIds
<1> HIDE DEF ids
<1>5. \A e \in ToSet(u.edges) : e \in ToSet(t.edges) /\ ~Touches(e, ids)
  BY <1>1, ApartElements DEF Formed, Shape
<1>6. \A e \in ToSet(u.edges) : e.from[1] # r.id /\ e.to[1] # r.id
  BY <1>4, <1>5 DEF Touches
<1> HIDE DEF u
<1> QED BY <1>1, <1>2, <1>3, <1>6, AppendableIs DEF u

LEMMA IdentifiedNewChunks == ASSUME NEW t, NEW r \in Requests PROVE Identified(NewChunks(t, r))
<1> DEFINE s == NewChunks(t, r)
           k == Len(Pieces[r.body])
<1>1. IsSeq(s) /\ Len(s) = k
  BY NewChunksAre
<1>2. DOMAIN s = 1 .. k
  BY <1>1, SeqDomain
<1>3. ASSUME NEW n \in 1 .. k PROVE s[n].id = ChunkId(r.id, n)
  <2>1. s[n] = [id |-> ChunkId(r.id, n), doc |-> r.id, ordinal |-> n,
                piece |-> Pieces[r.body][n], profile |-> t.config]
    BY NewChunksAre
  <2> QED BY <2>1
<1> HIDE DEF s, k
<1> QED BY <1>2, <1>3, ChunkIdIs DEF Identified, s

LEMMA NewChunkForm ==
    ASSUME NEW t, NEW r \in Requests, NEW row \in ToSet(NewChunks(t, r))
    PROVE  ChunkForm(row) /\ row.doc = r.id
<1>1. PICK n \in 1 .. Len(Pieces[r.body]) : row = NewChunks(t, r)[n]
  BY NewChunksAre
<1>2. row = [id |-> ChunkId(r.id, n), doc |-> r.id, ordinal |-> n,
             piece |-> Pieces[r.body][n], profile |-> t.config]
  BY <1>1, NewChunksAre
<1>3. Pieces[r.body][n] \in DOMAIN Similarity
  BY PiecesAre
<1> QED BY <1>2, <1>3 DEF ChunkForm

LEMMA FormedWith ==
    ASSUME NEW t, Formed(t), NEW r \in Requests, Appendable(t, r)
    PROVE  Formed(With(t, r))
<1> DEFINE u == With(t, r)
           new == NewDocument(r, NewChunks(t, r))
           more == NewChunks(t, r)
<1>1. Shape(u) /\ u.documents = Append(t.documents, new) /\ u.chunks = t.chunks \o more
  BY WithIs DEF Formed
<1>2. DocumentForm(new) /\ new.id = r.id
  BY DEF NewDocument, DocumentForm
<1>3. /\ \A row \in ToSet(t.documents) : row.id # r.id
      /\ \A row \in ToSet(t.chunks) : row.doc # r.id
  BY AppendableIs DEF Formed
<1>4. IsSeq(more) /\ Identified(more) /\ \A row \in ToSet(more) : ChunkForm(row) /\ row.doc = r.id
  BY NewChunksAre, IdentifiedNewChunks, NewChunkForm
<1> HIDE DEF new, more, u
<1>5. /\ Identified(u.documents) /\ \A row \in ToSet(u.documents) : DocumentForm(row)
  BY <1>1, <1>2, <1>3, SeqAppend, IdentifiedAppend DEF Formed, Shape
<1>6. Disjoint(t.chunks, more)
  <2> SUFFICES ASSUME NEW x \in ToSet(t.chunks), NEW y \in ToSet(more), x.id = y.id PROVE FALSE
    BY DEF Disjoint
  <2>1. ChunkForm(x) /\ ChunkForm(y) /\ x.doc # r.id /\ y.doc = r.id
    BY <1>3, <1>4 DEF Formed
  <2> QED BY <2>1, ChunkIdIs DEF ChunkForm
<1>7. Identified(t.chunks \o more)
  BY <1>4, <1>6, IdentifiedConcat DEF Formed, Shape
<1>8. \A row \in ToSet(t.chunks \o more) : ChunkForm(row)
  BY <1>4, SeqConcat DEF Formed, Shape
<1> QED BY <1>1, <1>5, <1>7, <1>8 DEF Formed, u

\* The edges have no part in it.
LEMMA FormedEdges ==
    ASSUME NEW t, Formed(t), NEW u, Shape(u), u.chunks = t.chunks, u.documents = t.documents
    PROVE  Formed(u)
BY DEF Formed

LEMMA FormedUpdate ==
    ASSUME NEW t, Formed(t), NEW d, NEW row, DocumentForm(row), row.id = d,
           NEW documents, documents = [i \in DOMAIN t.documents |->
                                         IF t.documents[i].id = d THEN row ELSE t.documents[i]]
    PROVE  Formed([t EXCEPT !.documents = documents])
<1> DEFINE k == Len(t.documents)
<1>1. IsSeq(t.documents) /\ k \in Nat /\ DOMAIN t.documents = 1 .. k
  BY SeqDomain DEF Formed, Shape
<1>2. /\ DOMAIN documents = 1 .. k /\ documents = [i \in 1 .. k |-> documents[i]]
      /\ \A i \in 1 .. k : documents[i] = IF t.documents[i].id = d THEN row ELSE t.documents[i]
  BY <1>1
<1> HIDE DEF k
<1>3. IsSeq(documents)
  BY <1>1, <1>2, SeqIsFunction
<1>4. \A i \in 1 .. k : documents[i].id = t.documents[i].id /\ DocumentForm(documents[i])
  <2> TAKE i \in 1 .. k
  <2>1. t.documents[i] \in ToSet(t.documents)
    BY <1>1 DEF ToSet
  <2>2. DocumentForm(t.documents[i])
    BY <2>1 DEF Formed
  <2> QED BY <1>2, <2>2
<1>5. Identified(documents)
  BY <1>1, <1>2, <1>4 DEF Formed, Identified
<1>6. \A x \in ToSet(documents) : DocumentForm(x)
  BY <1>2, <1>4 DEF ToSet
<1>7. Shape([t EXCEPT !.documents = documents])
  BY <1>3, ExceptShape DEF Formed
<1>8. [t EXCEPT !.documents = documents] =
        [config |-> t.config, documents |-> documents, chunks |-> t.chunks, edges |-> t.edges]
  BY <1>3, ExceptShape DEF Formed
<1> QED BY <1>5, <1>6, <1>7, <1>8 DEF Formed

\* The row a metadata update writes.
LEMMA UpdatedRowIs ==
    ASSUME NEW t, Formed(t), NEW d, Exists(t, d), NEW meta, NEW field
    PROVE  LET old == Find(t, d)[1]
               row == UpdatedRow(t, d, meta, field)
           IN  /\ old \in ToSet(t.documents) /\ old.id = d /\ DocumentForm(old)
               /\ row = [id |-> d, body |-> old.body, meta |-> meta, field |-> field,
                         print |-> Fingerprint(old.body, meta, RowsOf(t.chunks, d))]
<1> DEFINE old == Find(t, d)[1]
           row == UpdatedRow(t, d, meta, field)
           E == {x \in ToSet(t.documents) : x.id = d}
<1>1. IsSeq(t.documents) /\ Find(t, d) = Only(t.documents, E)
  BY FindIs DEF Formed, Shape
<1>2. \E x \in ToSet(t.documents) : x.id = d
  BY <1>1, IdsAre DEF Exists
<1>3. E # {} /\ E \subseteq ToSet(t.documents) /\ \A x \in E : x.id = d
  BY <1>2
<1> HIDE DEF E
<1>4. IsSeq(Find(t, d)) /\ ToSet(Find(t, d)) = E
  <2>1. IsSeq(Only(t.documents, E)) /\ ToSet(Only(t.documents, E)) = ToSet(t.documents) \cap E
    BY <1>1, OnlyElements
  <2>2. ToSet(t.documents) \cap E = E
    BY <1>3
  <2> QED BY <1>1, <2>1, <2>2
<1>5. Len(Find(t, d)) \in Nat /\ DOMAIN Find(t, d) = 1 .. Len(Find(t, d)) /\ DOMAIN Find(t, d) # {}
  BY <1>3, <1>4, SeqDomain
<1>6. 1 \in 1 .. Len(Find(t, d))
  BY <1>5
<1>7. old \in E
  BY <1>4, <1>6, SeqDomain
<1>8. old \in ToSet(t.documents) /\ old.id = d /\ DocumentForm(old)
  BY <1>3, <1>7 DEF Formed
<1>9. row = [old EXCEPT !.meta = meta, !.field = field,
                        !.print = Fingerprint(old.body, meta, RowsOf(t.chunks, d))]
  BY DEF UpdatedRow
<1> HIDE DEF old, row
<1>10. row = [id |-> d, body |-> old.body, meta |-> meta, field |-> field,
              print |-> Fingerprint(old.body, meta, RowsOf(t.chunks, d))]
  BY <1>8, <1>9 DEF DocumentForm
<1> QED BY <1>8, <1>10 DEF old, row

\* The operations of the engine that write, and the edits beside it.
EngineStep ==
    \/ \E r \in Requests : AppendDocument(r)
    \/ \E r \in Requests : ReplaceDocument(r)
    \/ \E r \in Requests : UpdateMetadata(r.id, r.meta, r.field)
    \/ \E d : DeleteDocument(d)
    \/ \E kind, from, to, weight : UpsertRelationship(kind, from, to, weight)
    \/ \E kind, from, to : DeleteRelationship(kind, from, to)
    \/ \E p : CreateCollection(p)
SqlEdit == EditChunks \/ DeleteDocumentRow \/ DuplicateEdge \/ DropCollection

LEMMA Steps ==
    ASSUME Reading, [Next]_vars
    PROVE  \/ tables' = tables /\ replica' = replica /\ edits' = edits
           \/ EngineStep /\ edits' = edits
           \/ SqlEdit
<1>1. CASE UNCHANGED vars
  BY <1>1 DEF vars
<1>2. CASE Engine
  BY <1>2 DEF Engine, Ingest, EngineStep
<1>3. CASE SqlEdit
  BY <1>3
<1>4. ASSUME NEW c \in Clients, Request(c)
      PROVE  \/ tables' = tables /\ replica' = replica /\ edits' = edits
             \/ EngineStep /\ edits' = edits
  <2>1. CASE RequestUpdate(c) \/ RequestAppend(c) \/ RequestReplace(c)
    <3>1. client[c].request \in Requests
      BY <2>1 DEF Reading, Current, RequestUpdate, RequestAppend, RequestReplace
    <3>2. CASE RequestUpdate(c)
      BY <3>1, <3>2 DEF RequestUpdate, OrRefused, Refuse, KeepTables, EngineStep
    <3>3. CASE RequestAppend(c)
      BY <3>1, <3>3 DEF RequestAppend, OrRefused, Refuse, KeepTables, EngineStep
    <3>4. CASE RequestReplace(c)
      BY <3>1, <3>4 DEF RequestReplace, OrRefused, Refuse, KeepTables, EngineStep
    <3> QED BY <2>1, <3>2, <3>3, <3>4
  <2>2. CASE \E r \in Requests : ReadCollection(c, r)
    BY <2>2 DEF ReadCollection, KeepTables
  <2>3. CASE \/ ReadDocument(c) \/ Recheck(c) \/ Answer(c) \/ CheckRequest(c)
             \/ \E p \in Profiles : Embed(c, p)
    BY <2>3 DEF ReadDocument, Recheck, Answer, CheckRequest, Embed, KeepTables
  <2> QED BY <1>4, <2>1, <2>2, <2>3 DEF Request
<1> QED BY <1>1, <1>2, <1>3, <1>4 DEF Next, SqlEdit

\* What an edit with SQL makes of the tables.
LEMMA SqlEditIs ==
    ASSUME SqlEdit, Formed(tables)
    PROVE  \E t : Formed(t) /\ (Edit(t, TRUE) \/ Edit(t, FALSE))
<1>0. IsSeq(tables.chunks) /\ IsSeq(tables.documents) /\ IsSeq(tables.edges) /\ Shape(tables)
  BY DEF Formed, Shape
<1>1. ASSUME NEW chunks, IsSeq(chunks), Identified(chunks), \A row \in ToSet(chunks) : ChunkForm(row),
             NEW t, Formed(t)
      PROVE  Formed([t EXCEPT !.chunks = chunks])
  <2>1. Shape([t EXCEPT !.chunks = chunks])
    BY <1>1, ExceptShape DEF Formed
  <2>2. [t EXCEPT !.chunks = chunks] =
          [config |-> t.config, documents |-> t.documents, chunks |-> chunks, edges |-> t.edges]
    BY <1>1, ExceptShape DEF Formed
  <2> QED BY <1>1, <2>1, <2>2 DEF Formed
<1>2. CASE EditChunks
  <2>1. PICK i \in DOMAIN tables.chunks :
            \/ Edit([tables EXCEPT !.chunks = RemoveAt(@, i)], TRUE)
            \/ \E p : Edit([tables EXCEPT !.chunks[i].profile = p], TRUE)
            \/ \E piece \in DOMAIN Similarity : Edit([tables EXCEPT !.chunks[i].piece = piece], TRUE)
    BY <1>2 DEF EditChunks
  <2>2. Formed([tables EXCEPT !.chunks = RemoveAt(tables.chunks, i)])
    <3> DEFINE chunks == RemoveAt(tables.chunks, i)
    <3>1. IsSeq(chunks) /\ ToSet(chunks) \subseteq ToSet(tables.chunks) /\ Identified(chunks)
      BY <1>0, RemoveAtElements, IdentifiedRemoveAt DEF Formed
    <3>2. \A row \in ToSet(chunks) : ChunkForm(row)
      BY <3>1 DEF Formed
    <3> HIDE DEF chunks
    <3>3. Formed([tables EXCEPT !.chunks = chunks])
      BY <1>1, <3>1, <3>2
    <3> QED BY <3>3 DEF chunks
  <2>3. ChunkForm(tables.chunks[i])
    BY <1>0, SeqDomain DEF Formed
  <2>4. ASSUME NEW row, ChunkForm(row), row.id = tables.chunks[i].id
        PROVE  Formed([tables EXCEPT !.chunks = [tables.chunks EXCEPT ![i] = row]])
    <3> DEFINE chunks == [tables.chunks EXCEPT ![i] = row]
    <3>1. IsSeq(chunks) /\ ToSet(chunks) \subseteq ToSet(tables.chunks) \cup {row}
      BY <1>0, ExceptIsSeq
    <3>2. DOMAIN chunks = DOMAIN tables.chunks
          /\ \A j \in DOMAIN chunks : chunks[j].id = tables.chunks[j].id
      BY <2>4
    <3> HIDE DEF chunks
    <3>3. Identified(chunks) /\ \A x \in ToSet(chunks) : ChunkForm(x)
      BY <2>4, <3>1, <3>2 DEF Identified, Formed
    <3>4. Formed([tables EXCEPT !.chunks = chunks])
      BY <1>1, <3>1, <3>3
    <3> QED BY <3>4 DEF chunks
  <2>5. ASSUME NEW p
        PROVE  Formed([tables EXCEPT !.chunks[i].profile = p])
    <3> DEFINE row == [tables.chunks[i] EXCEPT !.profile = p]
    <3>1. ChunkForm(row) /\ row.id = tables.chunks[i].id
      BY <2>3 DEF ChunkForm
    <3>2. [tables EXCEPT !.chunks[i].profile = p] = [tables EXCEPT !.chunks = [tables.chunks EXCEPT ![i] = row]]
      OBVIOUS
    <3> HIDE DEF row
    <3> QED BY <2>4, <3>1, <3>2
  <2>6. ASSUME NEW piece \in DOMAIN Similarity
        PROVE  Formed([tables EXCEPT !.chunks[i].piece = piece])
    <3> DEFINE row == [tables.chunks[i] EXCEPT !.piece = piece]
    <3>1. ChunkForm(row) /\ row.id = tables.chunks[i].id
      BY <2>3 DEF ChunkForm
    <3>2. [tables EXCEPT !.chunks[i].piece = piece] = [tables EXCEPT !.chunks = [tables.chunks EXCEPT ![i] = row]]
      OBVIOUS
    <3> HIDE DEF row
    <3> QED BY <2>4, <3>1, <3>2
  <2> QED BY <2>1, <2>2, <2>5, <2>6
<1>3. CASE DeleteDocumentRow
  <2>1. PICK i \in DOMAIN tables.documents :
          LET rest == [tables EXCEPT !.documents = RemoveAt(@, i)]
          IN  \/ Edit(rest, FALSE)
              \/ Edit([rest EXCEPT !.chunks = RowsNotOf(@, tables.documents[i].id)], TRUE)
    BY <1>3 DEF DeleteDocumentRow
  <2> DEFINE documents == RemoveAt(tables.documents, i)
             rest == [tables EXCEPT !.documents = documents]
             d == tables.documents[i].id
             chunks == RowsNotOf(tables.chunks, d)
  <2>2. IsSeq(documents) /\ ToSet(documents) \subseteq ToSet(tables.documents) /\ Identified(documents)
    BY <1>0, RemoveAtElements, IdentifiedRemoveAt DEF Formed
  <2>3. IsSeq(chunks) /\ ToSet(chunks) \subseteq ToSet(tables.chunks) /\ Identified(chunks)
    <3> DEFINE E == {row \in ToSet(tables.chunks) : row.doc # d}
    <3>1. chunks = Only(tables.chunks, E)
      BY <1>0, RowsNotOfIs
    <3> HIDE DEF E, d, chunks
    <3> QED BY <1>0, <3>1, OnlyElements, IdentifiedOnly DEF Formed
  <2>4. Edit(rest, FALSE) \/ Edit([rest EXCEPT !.chunks = RowsNotOf(rest.chunks, d)], TRUE)
    BY <2>1
  <2> HIDE DEF documents
  <2>5. /\ Shape(rest)
        /\ rest = [config |-> tables.config, documents |-> documents, chunks |-> tables.chunks,
                   edges |-> tables.edges]
    BY <1>0, <2>2, ExceptShape
  <2>6. Formed(rest) /\ rest.chunks = tables.chunks
    BY <2>2, <2>5 DEF Formed
  <2> HIDE DEF rest, d
  <2>7. \A row \in ToSet(chunks) : ChunkForm(row)
    BY <2>3 DEF Formed
  <2> HIDE DEF chunks
  <2>8. Formed([rest EXCEPT !.chunks = chunks])
    BY <1>1, <2>3, <2>6, <2>7
  <2> QED BY <2>4, <2>6, <2>8 DEF chunks
<1>4. CASE DuplicateEdge
  <2>1. PICK i \in DOMAIN tables.edges :
          Edit([tables EXCEPT !.edges = Append(@, [@[i] EXCEPT !.id = <<"own", i>>])], FALSE)
    BY <1>4 DEF DuplicateEdge
  <2> DEFINE edges == Append(tables.edges, [tables.edges[i] EXCEPT !.id = <<"own", i>>])
  <2>2. IsSeq(edges)
    BY <1>0, SeqAppend
  <2>3. Edit([tables EXCEPT !.edges = edges], FALSE)
    BY <2>1
  <2> HIDE DEF edges
  <2> DEFINE t == [tables EXCEPT !.edges = edges]
  <2>4. /\ Shape(t)
        /\ t = [config |-> tables.config, documents |-> tables.documents,
                chunks |-> tables.chunks, edges |-> edges]
    BY <1>0, <2>2, ExceptShape
  <2>5. t.chunks = tables.chunks /\ t.documents = tables.documents
    BY <2>4
  <2> HIDE DEF t
  <2>6. Formed(t)
    BY <2>4, <2>5, FormedEdges
  <2> QED BY <2>3, <2>6 DEF t
<1>5. CASE DropCollection
  BY <1>5, EmptyIs DEF DropCollection
<1> QED BY <1>2, <1>3, <1>4, <1>5 DEF SqlEdit

LEMMA AppendMakes ==
    ASSUME Formed(tables), NEW r \in Requests, AppendDocument(r)
    PROVE  /\ tables' = With(tables, r) /\ Appendable(tables, r) /\ Formed(tables')
           /\ replica' = Replay(replica, NewLog(tables, r))
<1>1. /\ tables' = With(tables, r) /\ Appendable(tables, r)
      /\ replica' = Replay(replica, NewLog(tables, r))
  BY DEF AppendDocument, Appends, Commit
<1> QED BY <1>1, FormedWith

LEMMA ReplaceMakes ==
    ASSUME Formed(tables), NEW r \in Requests, ReplaceDocument(r)
    PROVE  LET u == Without(tables, r.id)
           IN  /\ tables' = With(u, r) /\ Formed(u) /\ Appendable(u, r) /\ Formed(tables')
               /\ replica' = Replay(replica, RemovalLog(tables, r.id) \o NewLog(u, r))
<1> DEFINE u == Without(tables, r.id)
<1>1. /\ tables' = With(u, r)
      /\ replica' = Replay(replica, RemovalLog(tables, r.id) \o NewLog(u, r))
  BY DEF ReplaceDocument, Commit
<1>2. Formed(u) /\ Appendable(u, r)
  BY FormedWithout, WithoutAppendable
<1> QED BY <1>1, <1>2, FormedWith

\* The row of one document is exchanged for one of the same id.
Exchanged(t, u, d, row) ==
    /\ u.chunks = t.chunks /\ u.edges = t.edges
    /\ u.documents = [i \in DOMAIN t.documents |->
                        IF t.documents[i].id = d THEN row ELSE t.documents[i]]

LEMMA UpdateMakes ==
    ASSUME Formed(tables), NEW d, NEW meta, NEW field, UpdateMetadata(d, meta, field)
    PROVE  /\ Intact(tables, d) /\ Formed(tables')
           /\ tables'.config = tables.config
           /\ Exchanged(tables, tables', d, UpdatedRow(tables, d, meta, field))
           /\ replica' = Replay(replica, <<[op |-> "update", row |-> UpdatedRow(tables, d, meta, field)]>>)
<1> DEFINE row == UpdatedRow(tables, d, meta, field)
           documents == [i \in DOMAIN tables.documents |->
                           IF tables.documents[i].id = d THEN row ELSE tables.documents[i]]
<1>1. /\ Intact(tables, d) /\ tables' = [tables EXCEPT !.documents = documents]
      /\ replica' = Replay(replica, <<[op |-> "update", row |-> row]>>)
  BY DEF UpdateMetadata, Updates, Commit
<1>2. DocumentForm(row) /\ row.id = d
  <2>1. Exists(tables, d)
    BY <1>1 DEF Intact
  <2> DEFINE body == Find(tables, d)[1].body
             print == Fingerprint(body, meta, RowsOf(tables.chunks, d))
  <2>2. row = [id |-> d, body |-> body, meta |-> meta, field |-> field, print |-> print]
    BY <2>1, UpdatedRowIs
  <2> HIDE DEF row, body, print
  <2> QED BY <2>2 DEF DocumentForm
<1> HIDE DEF row
<1>3. Formed(tables')
  <2>1. \E s : s = documents /\ tables' = [tables EXCEPT !.documents = s]
    BY <1>1
  <2>2. PICK s : s = documents /\ tables' = [tables EXCEPT !.documents = s]
    BY <2>1
  <2> QED BY <1>2, <2>2, FormedUpdate
<1> HIDE DEF documents
<1>4. tables' = [config |-> tables.config, documents |-> documents, chunks |-> tables.chunks,
                 edges |-> tables.edges]
  BY <1>1 DEF Formed, Shape
<1>5. Exchanged(tables, tables', d, row)
  BY <1>4 DEF Exchanged, documents
<1> QED BY <1>1, <1>3, <1>4, <1>5 DEF row

LEMMA DeleteMakes ==
    ASSUME Formed(tables), NEW d, DeleteDocument(d)
    PROVE  /\ tables' = Without(tables, d) /\ Formed(tables')
           /\ replica' = Replay(replica, RemovalLog(tables, d))
<1>1. tables' = Without(tables, d) /\ replica' = Replay(replica, RemovalLog(tables, d))
  BY DEF DeleteDocument, Commit
<1> QED BY <1>1, FormedWithout

LEMMA UpsertMakes ==
    ASSUME Formed(tables), NEW kind, NEW from, NEW to, NEW weight,
           UpsertRelationship(kind, from, to, weight)
    PROVE  /\ Formed(tables') /\ tables'.config = tables.config
           /\ tables'.chunks = tables.chunks /\ tables'.documents = tables.documents
           /\ {from, to} \subseteq IdsOf(tables.chunks)
           /\ \A e \in ToSet(tables'.edges) :
                 e \in ToSet(tables.edges) \/ e = Edge(from, to, kind, weight)
           /\ tables'.edges = Append(RemoveRelation(tables, kind, from, to).edges,
                                     Edge(from, to, kind, weight))
           /\ replica' = Replay(replica,
                RelationLog(tables, kind, from, to)
                  \o <<Insert("edges", <<Edge(from, to, kind, weight)>>)>>)
<1> DEFINE rest == RemoveRelation(tables, kind, from, to)
           e == Edge(from, to, kind, weight)
           edges == Append(rest.edges, e)
           log == RelationLog(tables, kind, from, to) \o <<Insert("edges", <<e>>)>>
<1>1. /\ tables' = [rest EXCEPT !.edges = edges] /\ {from, to} \subseteq IdsOf(tables.chunks)
      /\ replica' = Replay(replica, log)
  BY DEF UpsertRelationship, Commit
<1>2. /\ Shape(rest) /\ rest.config = tables.config
      /\ rest.documents = tables.documents /\ rest.chunks = tables.chunks
      /\ \A x \in ToSet(rest.edges) : x \in ToSet(tables.edges)
  BY RemoveRelationElements DEF Formed
<1> HIDE DEF rest, e, log
<1>3. IsSeq(edges) /\ ToSet(edges) = ToSet(rest.edges) \cup {e}
  BY <1>2, SeqAppend DEF Shape
<1>4. edges = Append(rest.edges, e)
  OBVIOUS
<1> HIDE DEF edges
<1>5. /\ Shape(tables')
      /\ tables' = [config |-> rest.config, documents |-> rest.documents, chunks |-> rest.chunks,
                    edges |-> edges]
  BY <1>1, <1>2, <1>3, ExceptShape
<1>6. /\ tables'.config = tables.config /\ tables'.edges = edges
      /\ tables'.chunks = tables.chunks /\ tables'.documents = tables.documents
  BY <1>2, <1>5
<1>7. Formed(tables')
  BY <1>5, <1>6, FormedEdges
<1>8. \A x \in ToSet(tables'.edges) : x \in ToSet(tables.edges) \/ x = e
  BY <1>2, <1>3, <1>6
<1> QED BY <1>1, <1>4, <1>6, <1>7, <1>8 DEF rest, e, log

LEMMA DeleteRelationMakes ==
    ASSUME Formed(tables), NEW kind, NEW from, NEW to, DeleteRelationship(kind, from, to)
    PROVE  /\ Formed(tables') /\ tables'.config = tables.config
           /\ tables'.chunks = tables.chunks /\ tables'.documents = tables.documents
           /\ \A e \in ToSet(tables'.edges) : e \in ToSet(tables.edges)
           /\ tables' = RemoveRelation(tables, kind, from, to)
           /\ replica' = Replay(replica, RelationLog(tables, kind, from, to))
<1>1. /\ tables' = RemoveRelation(tables, kind, from, to)
      /\ replica' = Replay(replica, RelationLog(tables, kind, from, to))
  BY DEF DeleteRelationship, Commit
<1>2. /\ Shape(tables') /\ tables'.config = tables.config
      /\ tables'.documents = tables.documents /\ tables'.chunks = tables.chunks
      /\ \A x \in ToSet(tables'.edges) : x \in ToSet(tables.edges)
  BY <1>1, RemoveRelationElements DEF Formed
<1>3. Formed(tables')
  BY <1>2, FormedEdges
<1> QED BY <1>1, <1>2, <1>3

LEMMA CreateMakes ==
    ASSUME NEW p, CreateCollection(p)
    PROVE  /\ tables' = Empty(p) /\ Formed(tables')
           /\ replica' = Replay(replica, <<[op |-> "create", config |-> p]>>)
<1>1. tables' = Empty(p) /\ replica' = Replay(replica, <<[op |-> "create", config |-> p]>>)
  BY DEF CreateCollection, Commit
<1> QED BY <1>1, EmptyIs

LEMMA EditMakes ==
    ASSUME Formed(tables), SqlEdit
    PROVE  /\ Formed(tables') /\ edits' = edits + 1
           /\ replica' = Replay(replica, <<[op |-> "edit", tables |-> tables']>>)
<1>1. PICK t : Formed(t) /\ (Edit(t, TRUE) \/ Edit(t, FALSE))
  BY SqlEditIs
<1> QED BY <1>1 DEF Edit, Commit

LEMMA FormedInit == ASSUME Init PROVE Formed(tables)
BY EmptyIs DEF Init

LEMMA FormedNext == ASSUME Reading, Formed(tables), [Next]_vars PROVE Formed(tables')
<1>1. CASE tables' = tables
  BY <1>1
<1>2. CASE EngineStep
  BY <1>2, AppendMakes, ReplaceMakes, UpdateMakes, DeleteMakes, UpsertMakes,
     DeleteRelationMakes, CreateMakes DEF EngineStep
<1>3. CASE SqlEdit
  BY <1>3, EditMakes
<1> QED BY <1>1, <1>2, <1>3, Steps

LEMMA FormedAlways == Spec => []Formed(tables)
<1>1. Reading /\ Formed(tables) /\ [Next]_vars => Formed(tables)'
  BY FormedNext
<1> QED BY <1>1, FormedInit, ReadingAlways, PTL DEF Spec

\* Nothing of the document is there to be removed.
LEMMA NothingRemoved ==
    ASSUME NEW t, Formed(t), NEW r \in Requests, Appendable(t, r)
    PROVE  Without(t, r.id) = t
<1> DEFINE u == Without(t, r.id)
           d == r.id
           ids == DocumentChunkIds(t, d)
<1>1. /\ Shape(u) /\ u.config = t.config /\ u.documents = Others(t.documents, d)
      /\ u.chunks = RowsNotOf(t.chunks, d) /\ u.edges = Apart(t.edges, ids)
  BY WithoutIs DEF Formed
<1>2. /\ \A row \in ToSet(t.documents) : row.id # d
      /\ \A row \in ToSet(t.chunks) : row.doc # d
  BY AppendableIs DEF Formed
<1>3. Others(t.documents, d) = t.documents
  <2> DEFINE E == {row \in ToSet(t.documents) : row.id # d}
  <2>1. Others(t.documents, d) = Only(t.documents, E)
    BY OthersIs DEF Formed, Shape
  <2>2. ToSet(t.documents) \subseteq E
    BY <1>2
  <2> HIDE DEF E
  <2> QED BY <2>1, <2>2, OnlyAll DEF Formed, Shape
<1>4. RowsNotOf(t.chunks, d) = t.chunks
  <2> DEFINE E == {row \in ToSet(t.chunks) : row.doc # d}
  <2>1. RowsNotOf(t.chunks, d) = Only(t.chunks, E)
    BY RowsNotOfIs DEF Formed, Shape
  <2>2. ToSet(t.chunks) \subseteq E
    BY <1>2
  <2> HIDE DEF E
  <2> QED BY <2>1, <2>2, OnlyAll DEF Formed, Shape
<1>5. Apart(t.edges, ids) = t.edges
  <2> DEFINE E == {e \in ToSet(t.edges) : ~Touches(e, ids)}
  <2>1. Apart(t.edges, ids) = Only(t.edges, E)
    BY ApartIs DEF Formed, Shape
  <2>2. ids = {}
    BY DEF Appendable
  <2> HIDE DEF ids
  <2>3. ToSet(t.edges) \subseteq E
    BY <2>2 DEF Touches
  <2> HIDE DEF E
  <2> QED BY <2>1, <2>3, OnlyAll DEF Formed, Shape
<1> HIDE DEF u, ids
<1> QED BY <1>1, <1>3, <1>4, <1>5 DEF Formed, Shape, u

\* Where the append path applies, the staged path would give the same rows and
\* the same refusals (try_graph_append_document, graph_transaction).
THEOREM AppendAgrees == Spec => []AppendIsGeneral
<1>1. Formed(tables) => AppendIsGeneral
  <2> SUFFICES ASSUME Formed(tables), NEW r \in Requests, Appendable(tables, r)
               PROVE  /\ Without(tables, r.id) = tables
                      /\ Appends(tables, r) <=> Replaces(tables, r)
    BY DEF AppendIsGeneral
  <2>1. Without(tables, r.id) = tables
    BY NothingRemoved
  <2> QED BY <2>1 DEF Appends, Replaces
<1> QED BY <1>1, FormedAlways, PTL

-----------------------------------------------------------------------------
(* The nearest chunks are stored ones.                                       *)

LEMMA ClosestIs ==
    ASSUME NEW chunks, NEW piece, NEW places \in SUBSET Nat, places # {},
           \A n \in places : Similarity[piece][chunks[n].piece] \in -100 .. 100
    PROVE  Closest(chunks, piece, places) \in places
<1> DEFINE near(n) == Similarity[piece][chunks[n].piece]
<1>0. \A n \in places : near(n) \in Int /\ 100 - near(n) \in Nat
  <2>1. \A x \in -100 .. 100 : x \in Int /\ 100 - x \in Nat
    OBVIOUS
  <2>2. \A n \in places : near(n) \in -100 .. 100
    OBVIOUS
  <2> HIDE DEF near
  <2> QED BY <2>1, <2>2
<1> HIDE DEF near
<1> DEFINE far == {100 - near(n) : n \in places}
           best == {n \in places : 100 - near(n) = Min(far)}
           p == Min(best)
<1>1. Min(far) \in far /\ \A y \in far : Min(far) <= y
  <2>1. far \in SUBSET Nat /\ far # {}
    BY <1>0
  <2> HIDE DEF far
  <2> QED BY <2>1, SmallestPlace
<1>2. best \in SUBSET Nat /\ best # {}
  BY <1>1
<1>3. p \in best /\ \A y \in best : p <= y
  <2> HIDE DEF best
  <2> QED BY <1>2, SmallestPlace
<1>4. p \in places /\ 100 - near(p) = Min(far)
  BY <1>3
<1>5. ASSUME NEW n \in places \ {p}
      PROVE  near(p) > near(n) \/ (near(p) = near(n) /\ p < n)
  <2>1. 100 - near(p) <= 100 - near(n)
    BY <1>1, <1>4
  <2>2. CASE near(p) = near(n)
    <3>1. n \in best
      BY <1>4, <2>2
    <3>2. p <= n /\ p \in Nat /\ n \in Nat /\ n # p
      BY <1>3, <1>4, <3>1
    <3> QED BY <2>2, <3>2
  <2>3. CASE near(p) # near(n)
    <3>1. near(p) \in Int /\ near(n) \in Int
      BY <1>0, <1>4
    <3> QED BY <2>1, <2>3, <3>1
  <2> QED BY <2>2, <2>3
<1> HIDE DEF p
<1>6. \E m \in places : \A n \in places \ {m} : near(m) > near(n) \/ (near(m) = near(n) /\ m < n)
  BY <1>4, <1>5
<1>7. Closest(chunks, piece, places) =
        CHOOSE m \in places : \A n \in places \ {m} :
          near(m) > near(n) \/ (near(m) = near(n) /\ m < n)
  BY DEF Closest, near
<1> QED BY <1>6, <1>7

\* What is left of the places when the n nearest are taken.
LeftNext(chunks, piece, f, n) ==
    IF n = 0 THEN DOMAIN chunks ELSE f[n - 1] \ {Closest(chunks, piece, f[n - 1])}
LeftUpTo(chunks, piece, f, k) == f = [n \in 0 .. k |-> LeftNext(chunks, piece, f, n)]

LEMMA LeftExists ==
    ASSUME NEW chunks, NEW piece
    PROVE  \A k \in Nat : \E f : LeftUpTo(chunks, piece, f, k)
<1> DEFINE N == {k \in Nat : \E f : LeftUpTo(chunks, piece, f, k)}
<1>1. 0 \in N
  <2> DEFINE f == [n \in 0 .. 0 |-> DOMAIN chunks]
  <2>1. LeftUpTo(chunks, piece, f, 0)
    BY DEF LeftUpTo, LeftNext
  <2> QED BY <2>1
<1>2. \A k \in N : k + 1 \in N
  <2> SUFFICES ASSUME NEW k \in N PROVE \E f : LeftUpTo(chunks, piece, f, k + 1)
    OBVIOUS
  <2>1. PICK f : LeftUpTo(chunks, piece, f, k)
    OBVIOUS
  <2> DEFINE g == [n \in 0 .. k + 1 |-> IF n = k + 1 THEN LeftNext(chunks, piece, f, n) ELSE f[n]]
  <2>2. \A n \in 0 .. k : g[n] = f[n] /\ f[n] = LeftNext(chunks, piece, f, n)
    BY <2>1 DEF LeftUpTo
  <2>3. ASSUME NEW n \in 0 .. k + 1 PROVE LeftNext(chunks, piece, g, n) = LeftNext(chunks, piece, f, n)
    <3> HIDE DEF g
    <3>1. CASE n = 0
      BY <3>1 DEF LeftNext
    <3>2. CASE n # 0
      <4>1. n - 1 \in 0 .. k
        BY <3>2
      <4>2. g[n - 1] = f[n - 1]
        BY <2>2, <4>1
      <4> QED BY <3>2, <4>2 DEF LeftNext
    <3> QED BY <3>1, <3>2
  <2>4. ASSUME NEW n \in 0 .. k + 1 PROVE g[n] = LeftNext(chunks, piece, g, n)
    <3>1. CASE n = k + 1
      BY <2>3, <3>1
    <3>2. CASE n # k + 1
      <4>1. n \in 0 .. k
        BY <3>2
      <4> HIDE DEF g
      <4> QED BY <2>2, <2>3, <4>1
    <3> QED BY <3>1, <3>2
  <2>5. LeftUpTo(chunks, piece, g, k + 1)
    BY <2>4 DEF LeftUpTo
  <2> QED BY <2>5
<1>3. N = Nat
  <2> HIDE DEF N
  <2> QED BY <1>1, <1>2, NaturalSets DEF N
<1> QED BY <1>3

Comparable(chunks, piece) ==
    /\ IsSeq(chunks)
    /\ \A row \in ToSet(chunks) : Similarity[piece][row.piece] \in -100 .. 100

\* The nearest are at different places.
NearestAt(chunks, piece, at) ==
    /\ Nearest(chunks, piece) = [k \in 1 .. Min({SemanticNeighbors, Len(chunks)}) |-> chunks[at[k]]]
    /\ \A k \in 1 .. Min({SemanticNeighbors, Len(chunks)}) :
          at[k] \in 1 .. Len(chunks) /\ \A j \in 1 .. k - 1 : at[j] # at[k]

LEMMA NearestPlaces ==
    ASSUME NEW chunks, NEW piece, Comparable(chunks, piece)
    PROVE  \E at : NearestAt(chunks, piece, at)
<1> DEFINE n == Len(chunks)
           m == Min({SemanticNeighbors, n})
           f == CHOOSE f : LeftUpTo(chunks, piece, f, n)
           at == [k \in 1 .. m |-> Closest(chunks, piece, f[k - 1])]
<1>1. n \in Nat /\ DOMAIN chunks = 1 .. n /\ m \in Nat /\ m <= n
  <2>1. n \in Nat /\ DOMAIN chunks = 1 .. n
    BY SeqDomain DEF Comparable
  <2>2. SemanticNeighbors \in Nat
    BY GraphStoreAssumption
  <2> HIDE DEF n
  <2> QED BY <2>1, <2>2, MinIs
<1>2. LeftUpTo(chunks, piece, f, n)
  BY <1>1, LeftExists
<1>3. Nearest(chunks, piece) = [k \in 1 .. m |-> chunks[Closest(chunks, piece, f[k - 1])]]
  BY DEF Nearest, LeftUpTo, LeftNext
<1>4. \A i \in 1 .. n : Similarity[piece][chunks[i].piece] \in -100 .. 100
  BY SeqDomain DEF Comparable
<1> HIDE DEF n, m, f
<1>5. f[0] = 1 .. n /\ \A k \in 1 .. n : f[k] = f[k - 1] \ {Closest(chunks, piece, f[k - 1])}
  <2>1. \A k \in 0 .. n : f[k] = LeftNext(chunks, piece, f, k)
    BY <1>2 DEF LeftUpTo
  <2>2. f[0] = 1 .. n
    <3>1. 0 \in 0 .. n
      BY <1>1
    <3>2. f[0] = LeftNext(chunks, piece, f, 0)
      BY <2>1, <3>1
    <3> QED BY <1>1, <3>2 DEF LeftNext
  <2>3. ASSUME NEW k \in 1 .. n PROVE f[k] = f[k - 1] \ {Closest(chunks, piece, f[k - 1])}
    <3>1. k \in 0 .. n /\ k # 0
      BY <1>1
    <3> QED BY <2>1, <3>1 DEF LeftNext
  <2> QED BY <2>2, <2>3
<1> DEFINE Right(k) == /\ f[k] \subseteq 1 .. n /\ IsFiniteSet(f[k]) /\ Cardinality(f[k]) = n - k
                       /\ \A j \in 0 .. k : f[k] \subseteq f[j]
           N == {k \in Nat : k <= n => Right(k)}
<1>6. ASSUME NEW k \in Nat, k < n, Right(k)
      PROVE  Closest(chunks, piece, f[k]) \in f[k]
  <2>1. f[k] \in SUBSET Nat /\ f[k] # {}
    <3>1. Cardinality(f[k]) # 0
      BY <1>1, <1>6
    <3> QED BY <1>6, <3>1, FS_EmptySet
  <2>2. \A i \in f[k] : Similarity[piece][chunks[i].piece] \in -100 .. 100
    BY <1>4, <1>6
  <2> QED BY <2>1, <2>2, ClosestIs
<1>7. 0 \in N
  <2>1. IsFiniteSet(1 .. n) /\ Cardinality(1 .. n) = n
    BY <1>1, FS_Interval
  <2> QED BY <1>1, <1>5, <2>1
<1>8. \A k \in N : k + 1 \in N
  <2> SUFFICES ASSUME NEW k \in Nat, k + 1 <= n, Right(k) PROVE Right(k + 1)
    BY <1>1
  <2> DEFINE c == Closest(chunks, piece, f[k])
  <2>1. f[k + 1] = f[k] \ {c}
    BY <1>1, <1>5
  <2>2. c \in f[k]
    BY <1>1, <1>6
  <2> HIDE DEF c
  <2>3. IsFiniteSet(f[k + 1]) /\ Cardinality(f[k + 1]) = Cardinality(f[k]) - 1
    BY <2>1, <2>2, FS_RemoveElement
  <2>4. \A j \in 0 .. k + 1 : f[k + 1] \subseteq f[j]
    <3> SUFFICES ASSUME NEW j \in 0 .. k + 1 PROVE f[k + 1] \subseteq f[j]
      OBVIOUS
    <3>1. CASE j = k + 1
      BY <3>1
    <3>2. CASE j \in 0 .. k
      BY <2>1, <3>2
    <3> QED BY <3>1, <3>2
  <2> QED BY <1>1, <2>1, <2>3, <2>4
<1>9. N = Nat
  <2> HIDE DEF N
  <2> QED BY <1>7, <1>8, NaturalSets DEF N
<1>10. ASSUME NEW k \in 1 .. m
       PROVE  /\ at[k] \in f[k - 1] /\ at[k] \in 1 .. n
              /\ \A j \in 1 .. k - 1 : at[j] # at[k]
  <2>1. k - 1 \in Nat /\ k - 1 < n /\ k - 1 <= n
    BY <1>1
  <2>2. Right(k - 1)
    BY <1>9, <2>1
  <2>3. at[k] \in f[k - 1]
    BY <1>6, <2>1, <2>2
  <2>4. at[k] \in 1 .. n
    BY <2>2, <2>3
  <2>5. ASSUME NEW j \in 1 .. k - 1 PROVE at[j] # at[k]
    <3>1. j \in 1 .. n /\ j \in 1 .. m /\ j \in 0 .. k - 1
      BY <1>1
    <3>2. f[j] = f[j - 1] \ {at[j]}
      BY <1>5, <3>1
    <3>3. f[k - 1] \subseteq f[j]
      BY <2>2, <3>1
    <3> HIDE DEF at, Right
    <3> QED BY <2>3, <3>2, <3>3
  <2> HIDE DEF Right, at
  <2> QED BY <2>3, <2>4, <2>5
<1>11. Nearest(chunks, piece) = [k \in 1 .. m |-> chunks[at[k]]]
  BY <1>3
<1> HIDE DEF at
<1>12. NearestAt(chunks, piece, at)
  BY <1>10, <1>11 DEF NearestAt, m, n
<1> QED BY <1>12

LEMMA NearestElements ==
    ASSUME NEW chunks, NEW piece, Comparable(chunks, piece)
    PROVE  ToSet(Nearest(chunks, piece)) \subseteq ToSet(chunks)
<1> DEFINE m == Min({SemanticNeighbors, Len(chunks)})
<1>1. PICK at : NearestAt(chunks, piece, at)
  BY NearestPlaces
<1>2. /\ Nearest(chunks, piece) = [k \in 1 .. m |-> chunks[at[k]]]
      /\ \A k \in 1 .. m : at[k] \in 1 .. Len(chunks)
  BY <1>1 DEF NearestAt
<1>3. \A i \in 1 .. Len(chunks) : chunks[i] \in ToSet(chunks)
  BY SeqDomain DEF Comparable
<1> HIDE DEF m
<1> QED BY <1>2, <1>3 DEF ToSet

LEMMA FormedComparable ==
    ASSUME NEW t, Formed(t), NEW r \in Requests, NEW n \in 1 .. Len(Pieces[r.body])
    PROVE  Comparable(t.chunks, Pieces[r.body][n])
<1>1. Pieces[r.body][n] \in DOMAIN Similarity
  BY PiecesAre
<1>2. \A row \in ToSet(t.chunks) : row.piece \in DOMAIN Similarity
  BY DEF Formed, ChunkForm
<1>3. \A x, y \in DOMAIN Similarity : Similarity[x][y] \in -100 .. 100
  BY GraphStoreAssumption
<1> QED BY <1>1, <1>2, <1>3 DEF Comparable, Formed, Shape

-----------------------------------------------------------------------------
(* References.  A new document brings ends of edges that are its own chunks  *)
(* or stored ones; a removed one takes every edge that names it.             *)

\* An id of the chunks there are with the new document.
NewEnd(t, r, x) ==
    \/ \E n \in 1 .. Len(Pieces[r.body]) : x = ChunkId(r.id, n)
    \/ \E row \in ToSet(t.chunks) : x = row.id

LEMMA IdsOfWith ==
    ASSUME NEW t, Formed(t), NEW r \in Requests
    PROVE  \A x : x \in IdsOf(With(t, r).chunks) <=> NewEnd(t, r, x)
<1> DEFINE more == NewChunks(t, r)
           k == Len(Pieces[r.body])
<1>1. IsSeq(t.chunks) /\ IsSeq(more) /\ Len(more) = k /\ With(t, r).chunks = t.chunks \o more
  BY NewChunksAre, WithIs DEF Formed, Shape
<1>2. IsSeq(t.chunks \o more) /\ ToSet(t.chunks \o more) = ToSet(t.chunks) \cup ToSet(more)
  BY <1>1, SeqConcat
<1>3. \A x : x \in IdsOf(t.chunks \o more) <=> \E row \in ToSet(t.chunks \o more) : row.id = x
  BY <1>2, IdsAre
<1>4. \A n \in 1 .. k : more[n] \in ToSet(more) /\ more[n].id = ChunkId(r.id, n)
  <2> TAKE n \in 1 .. k
  <2>1. more[n] = [id |-> ChunkId(r.id, n), doc |-> r.id, ordinal |-> n,
                   piece |-> Pieces[r.body][n], profile |-> t.config]
    BY NewChunksAre
  <2>2. more[n] \in ToSet(more)
    BY <1>1, SeqDomain
  <2> QED BY <2>1, <2>2
<1>5. \A row \in ToSet(more) : \E n \in 1 .. k : row = more[n]
  BY <1>1, SeqDomain
<1> HIDE DEF more, k
<1>6. \A x : (\E row \in ToSet(more) : row.id = x) <=> \E n \in 1 .. k : x = ChunkId(r.id, n)
  BY <1>4, <1>5
<1> QED BY <1>1, <1>2, <1>3, <1>6 DEF NewEnd, k

LEMMA EdgeIs ==
    ASSUME NEW from, NEW to, NEW kind, NEW weight
    PROVE  Edge(from, to, kind, weight).from = from /\ Edge(from, to, kind, weight).to = to
BY DEF Edge

LEMMA EdgesOfWith ==
    ASSUME NEW t, Formed(t), NEW r \in Requests
    PROVE  \A e \in ToSet(With(t, r).edges) :
             e \in ToSet(t.edges) \/ (NewEnd(t, r, e.from) /\ NewEnd(t, r, e.to))
<1> DEFINE k == Len(Pieces[r.body])
<1>1. /\ IsSeq(t.edges) /\ IsSeq(Adjacent(r)) /\ IsSeq(Semantic(t, r)) /\ IsSeq(t.chunks)
      /\ With(t, r).edges = (t.edges \o Adjacent(r)) \o Semantic(t, r)
  BY AdjacentIs, SemanticIs, WithIs DEF Formed, Shape
<1>2. IsSeq(t.edges \o Adjacent(r))
      /\ ToSet(t.edges \o Adjacent(r)) = ToSet(t.edges) \cup ToSet(Adjacent(r))
  BY <1>1, SeqConcat
<1>3. ToSet(With(t, r).edges) = (ToSet(t.edges) \cup ToSet(Adjacent(r))) \cup ToSet(Semantic(t, r))
  BY <1>1, <1>2, SeqConcat
<1>4. ASSUME NEW e \in ToSet(Adjacent(r)) PROVE NewEnd(t, r, e.from) /\ NewEnd(t, r, e.to)
  <2>1. PICK n \in 1 .. k - 1 :
          \/ e = Edge(ChunkId(r.id, n), ChunkId(r.id, n + 1), "adjacent", 100)
          \/ e = Edge(ChunkId(r.id, n + 1), ChunkId(r.id, n), "adjacent", 100)
    BY AdjacentIs
  <2>2. k \in Nat
    BY PiecesAre
  <2> HIDE DEF k
  <2>3. n \in 1 .. k /\ n + 1 \in 1 .. k
    BY <2>2
  <2> QED BY <2>1, <2>3, EdgeIs DEF NewEnd, k
<1>5. ASSUME NEW e \in ToSet(Semantic(t, r)) PROVE NewEnd(t, r, e.from) /\ NewEnd(t, r, e.to)
  <2>1. PICK n \in 1 .. k : e \in ToSet(Links(t.chunks, r, n))
    BY <1>1, SemanticIs
  <2>2. PICK row \in ToSet(Neighbors(t.chunks, Pieces[r.body][n])) :
          Joins(e, ChunkId(r.id, n), row)
    BY <1>1, <2>1, LinksAre
  <2>3. row \in ToSet(t.chunks)
    <3>1. ToSet(Neighbors(t.chunks, Pieces[r.body][n]))
            \subseteq ToSet(Nearest(t.chunks, Pieces[r.body][n]))
      BY <1>1, NeighborsIsSeq
    <3>2. Comparable(t.chunks, Pieces[r.body][n])
      BY FormedComparable
    <3> QED BY <3>1, <3>2, NearestElements
  <2> QED BY <2>2, <2>3, EdgeIs DEF NewEnd, Joins
<1> QED BY <1>3, <1>4, <1>5

WithId(documents, d) == {row \in ToSet(documents) : row.id = d}
WithDoc(chunks, d) == {row \in ToSet(chunks) : row.doc = d}

LEMMA FindDocument ==
    ASSUME NEW t, Formed(t), NEW d
    PROVE  /\ Find(t, d) = Only(t.documents, WithId(t.documents, d))
           /\ RowsOf(t.chunks, d) = Only(t.chunks, WithDoc(t.chunks, d))
           /\ (Exists(t, d) <=> \E row \in ToSet(t.documents) : row.id = d)
           /\ IsSeq(t.documents) /\ IsSeq(t.chunks)
BY FindIs, RowsOfIs, IdsAre DEF Exists, Formed, Shape, WithId, WithDoc

\* read_document looks at nothing but the document's rows.
SameDocument(t, u, d) ==
    /\ Find(t, d) = Find(u, d) /\ RowsOf(t.chunks, d) = RowsOf(u.chunks, d)
    /\ Exists(t, d) <=> Exists(u, d)

LEMMA IntactSame ==
    ASSUME NEW t, NEW u, NEW d, SameDocument(t, u, d)
    PROVE  Intact(t, d) <=> Intact(u, d)
BY DEF SameDocument, Intact

LEMMA SameInWith ==
    ASSUME NEW t, Formed(t), NEW r \in Requests, Appendable(t, r), NEW d, d # r.id
    PROVE  SameDocument(t, With(t, r), d)
<1> DEFINE u == With(t, r)
           new == NewDocument(r, NewChunks(t, r))
           more == NewChunks(t, r)
           E == WithId(t.documents, d)
           E2 == WithId(u.documents, d)
           F == WithDoc(t.chunks, d)
           F2 == WithDoc(u.chunks, d)
<1>1. /\ Formed(u) /\ u.documents = Append(t.documents, new) /\ u.chunks = t.chunks \o more
      /\ IsSeq(t.documents) /\ IsSeq(t.chunks) /\ IsSeq(more) /\ new.id = r.id
      /\ \A row \in ToSet(more) : row.doc = r.id
  BY FormedWith, WithIs, NewChunksAre, NewChunkForm DEF Formed, Shape, NewDocument
<1>2. /\ Find(t, d) = Only(t.documents, E) /\ Find(u, d) = Only(u.documents, E2)
      /\ RowsOf(t.chunks, d) = Only(t.chunks, F) /\ RowsOf(u.chunks, d) = Only(u.chunks, F2)
  <2>1. Find(t, d) = Only(t.documents, E) /\ RowsOf(t.chunks, d) = Only(t.chunks, F)
    BY FindDocument
  <2>2. Find(u, d) = Only(u.documents, E2) /\ RowsOf(u.chunks, d) = Only(u.chunks, F2)
    <3> HIDE DEF u
    <3> QED BY <1>1, FindDocument
  <2> QED BY <2>1, <2>2
<1> HIDE DEF u, new, more
<1>3. /\ IsSeq(u.documents) /\ ToSet(u.documents) = ToSet(t.documents) \cup {new}
      /\ IsSeq(u.chunks) /\ ToSet(u.chunks) = ToSet(t.chunks) \cup ToSet(more)
  BY <1>1, SeqAppend, SeqConcat
<1>4. /\ new \notin E2 /\ \A x \in ToSet(t.documents) : x \in E <=> x \in E2
      /\ \A x \in ToSet(more) : x \notin F2
      /\ \A x \in ToSet(t.chunks) : x \in F <=> x \in F2
  BY <1>1, <1>3 DEF WithId, WithDoc
<1>5. Exists(t, d) <=> Exists(u, d)
  <2>1. Exists(t, d) <=> \E row \in ToSet(t.documents) : row.id = d
    BY FindDocument
  <2>2. Exists(u, d) <=> \E row \in ToSet(u.documents) : row.id = d
    BY <1>1, FindDocument
  <2> QED BY <1>1, <1>3, <2>1, <2>2
<1> HIDE DEF E, E2, F, F2
<1>6. Only(u.documents, E2) = Only(t.documents, E)
  <2> DEFINE S == ToSet(t.documents) \cup {new}
  <2>1. t.documents \in Seq(S) /\ new \in S
    BY <1>1, SeqMonotonic DEF IsSeq
  <2> HIDE DEF S
  <2>2. Only(u.documents, E2) = Only(t.documents, E2)
    BY <1>1, <1>4, <2>1, OnlyMore
  <2> QED BY <1>1, <1>4, <2>2, OnlySame
<1>7. Only(u.chunks, F2) = Only(t.chunks, F)
  <2>1. Only(u.chunks, F2) = Only(t.chunks, F2) \o Only(more, F2)
    BY <1>1, OnlyOfConcat
  <2>2. Only(more, F2) = <<>>
    BY <1>1, <1>4, OnlyNothing
  <2>3. IsSeq(Only(t.chunks, F2))
    BY <1>1, OnlyElements
  <2>4. Only(u.chunks, F2) = Only(t.chunks, F2)
    BY <2>1, <2>2, <2>3, ConcatEmptySeq DEF IsSeq
  <2> QED BY <1>1, <1>4, <2>4, OnlySame
<1> QED BY <1>2, <1>5, <1>6, <1>7 DEF SameDocument, u

LEMMA SameInWithout ==
    ASSUME NEW t, Formed(t), NEW gone, NEW d, d # gone
    PROVE  SameDocument(t, Without(t, gone), d)
<1> DEFINE u == Without(t, gone)
           E == WithId(t.documents, d)
           E2 == WithId(u.documents, d)
           E3 == {row \in ToSet(t.documents) : row.id # gone}
           F == WithDoc(t.chunks, d)
           F2 == WithDoc(u.chunks, d)
           F3 == {row \in ToSet(t.chunks) : row.doc # gone}
<1>1. /\ Formed(u) /\ u.documents = Others(t.documents, gone) /\ u.chunks = RowsNotOf(t.chunks, gone)
      /\ IsSeq(t.documents) /\ IsSeq(t.chunks)
  BY FormedWithout, WithoutIs DEF Formed, Shape
<1>2. /\ Find(t, d) = Only(t.documents, E) /\ Find(u, d) = Only(u.documents, E2)
      /\ RowsOf(t.chunks, d) = Only(t.chunks, F) /\ RowsOf(u.chunks, d) = Only(u.chunks, F2)
  <2>1. Find(t, d) = Only(t.documents, E) /\ RowsOf(t.chunks, d) = Only(t.chunks, F)
    BY FindDocument
  <2>2. Find(u, d) = Only(u.documents, E2) /\ RowsOf(u.chunks, d) = Only(u.chunks, F2)
    <3> HIDE DEF u
    <3> QED BY <1>1, FindDocument
  <2> QED BY <2>1, <2>2
<1>3. u.documents = Only(t.documents, E3) /\ u.chunks = Only(t.chunks, F3)
  BY <1>1, OthersIs, RowsNotOfIs
<1> HIDE DEF u
<1>4. /\ \A x : x \in ToSet(u.documents) <=> x \in ToSet(t.documents) /\ x.id # gone
      /\ \A x : x \in ToSet(u.chunks) <=> x \in ToSet(t.chunks) /\ x.doc # gone
  BY <1>1, OthersElements, RowsOfElements
<1>5. Exists(t, d) <=> Exists(u, d)
  <2>1. Exists(t, d) <=> \E row \in ToSet(t.documents) : row.id = d
    BY FindDocument
  <2>2. Exists(u, d) <=> \E row \in ToSet(u.documents) : row.id = d
    BY <1>1, FindDocument
  <2> QED BY <1>4, <2>1, <2>2
<1>6. /\ \A x \in ToSet(t.documents) : x \in E3 \cap E2 <=> x \in E
      /\ \A x \in ToSet(t.chunks) : x \in F3 \cap F2 <=> x \in F
  BY <1>4 DEF WithId, WithDoc
<1> HIDE DEF E, E2, E3, F, F2, F3
<1>7. /\ Only(u.documents, E2) = Only(t.documents, E3 \cap E2)
      /\ Only(u.chunks, F2) = Only(t.chunks, F3 \cap F2)
  BY <1>1, <1>3, OnlyOfOnly
<1>8. /\ Only(t.documents, E3 \cap E2) = Only(t.documents, E)
      /\ Only(t.chunks, F3 \cap F2) = Only(t.chunks, F)
  BY <1>1, <1>6, OnlySame
<1> QED BY <1>2, <1>5, <1>7, <1>8 DEF SameDocument, u

\* The rows a new document is found with are the ones it was given.
LEMMA NewRows ==
    ASSUME NEW t, Formed(t), NEW r \in Requests, Appendable(t, r)
    PROVE  /\ RowsOf(With(t, r).chunks, r.id) = NewChunks(t, r)
           /\ Find(With(t, r), r.id) = <<NewDocument(r, NewChunks(t, r))>>
           /\ Exists(With(t, r), r.id)
<1> DEFINE u == With(t, r)
           d == r.id
           new == NewDocument(r, NewChunks(t, r))
           more == NewChunks(t, r)
           E2 == WithId(u.documents, d)
           F2 == WithDoc(u.chunks, d)
<1>1. /\ Formed(u) /\ u.documents = Append(t.documents, new) /\ u.chunks = t.chunks \o more
      /\ IsSeq(t.documents) /\ IsSeq(t.chunks) /\ IsSeq(more) /\ new.id = d
      /\ \A row \in ToSet(more) : row.doc = d
  BY FormedWith, WithIs, NewChunksAre, NewChunkForm DEF Formed, Shape, NewDocument
<1>2. Find(u, d) = Only(u.documents, E2) /\ RowsOf(u.chunks, d) = Only(u.chunks, F2)
  <2> HIDE DEF u, d
  <2> QED BY <1>1, FindDocument
<1>3. /\ \A row \in ToSet(t.documents) : row.id # d
      /\ \A row \in ToSet(t.chunks) : row.doc # d
  BY AppendableIs DEF Formed
<1> HIDE DEF u, new, more, d
<1>4. /\ IsSeq(u.documents) /\ ToSet(u.documents) = ToSet(t.documents) \cup {new}
      /\ IsSeq(u.chunks) /\ ToSet(u.chunks) = ToSet(t.chunks) \cup ToSet(more)
  BY <1>1, SeqAppend, SeqConcat
<1>5. /\ new \in E2 /\ \A x \in ToSet(t.documents) : x \notin E2
      /\ \A x \in ToSet(t.chunks) : x \notin F2
      /\ ToSet(more) \subseteq F2
  BY <1>1, <1>3, <1>4 DEF WithId, WithDoc
<1>6. Exists(u, d)
  BY <1>1, <1>4, FindDocument
<1> HIDE DEF E2, F2
<1>7. Only(u.documents, E2) = <<new>>
  <2> DEFINE S == ToSet(t.documents) \cup {new}
  <2>1. t.documents \in Seq(S) /\ new \in S
    BY <1>1, SeqMonotonic DEF IsSeq
  <2> HIDE DEF S
  <2>2. Only(t.documents, E2) = <<>>
    BY <1>1, <1>5, OnlyNothing
  <2>3. Only(Append(t.documents, new), E2) = Append(Only(t.documents, E2), new)
    BY <1>5, <2>1, OnlyMore
  <2>4. Only(u.documents, E2) = Append(<<>>, new)
    BY <1>1, <2>2, <2>3
  <2> QED BY <2>4
<1>8. Only(u.chunks, F2) = more
  <2>1. Only(u.chunks, F2) = Only(t.chunks, F2) \o Only(more, F2)
    BY <1>1, OnlyOfConcat
  <2>2. Only(t.chunks, F2) = <<>> /\ Only(more, F2) = more
    BY <1>1, <1>5, OnlyNothing, OnlyAll
  <2> QED BY <1>1, <2>1, <2>2, ConcatEmptySeq DEF IsSeq
<1> QED BY <1>2, <1>6, <1>7, <1>8 DEF u, d, new, more

LEMMA IntactNew ==
    ASSUME NEW t, Formed(t), NEW r \in Requests, Appendable(t, r)
    PROVE  Intact(With(t, r), r.id)
<1> DEFINE u == With(t, r)
           rows == NewChunks(t, r)
           new == NewDocument(r, rows)
<1>1. RowsOf(u.chunks, r.id) = rows /\ Find(u, r.id)[1] = new /\ Exists(u, r.id)
  BY NewRows
<1>2. /\ rows # <<>> /\ DOMAIN rows = DOMAIN Pieces[r.body]
  <2>1. IsSeq(rows) /\ Len(rows) = Len(Pieces[r.body])
    BY NewChunksAre
  <2> HIDE DEF rows
  <2> QED BY <2>1, SeqDomain, PiecesAre
<1>3. \A i \in DOMAIN rows : rows[i].ordinal = i /\ rows[i].piece = Pieces[r.body][i]
  <2> TAKE i \in DOMAIN rows
  <2>1. i \in 1 .. Len(Pieces[r.body])
    BY <1>2, PiecesAre
  <2>2. rows[i] = [id |-> ChunkId(r.id, i), doc |-> r.id, ordinal |-> i,
                   piece |-> Pieces[r.body][i], profile |-> t.config]
    BY <2>1, NewChunksAre
  <2> QED BY <2>2
<1>4. new.body = r.body /\ new.meta = r.meta /\ new.print = Fingerprint(r.body, r.meta, rows)
  BY DEF NewDocument
<1> HIDE DEF u, rows, new
<1> QED BY <1>1, <1>2, <1>3, <1>4 DEF Intact, u

Refs(t) ==
    /\ \A e \in ToSet(t.edges) : e.from \in IdsOf(t.chunks) /\ e.to \in IdsOf(t.chunks)
    /\ \A row \in ToSet(t.chunks) : Exists(t, row.doc)
    /\ \A d : Exists(t, d) => Intact(t, d)

LEMMA RefsEmpty == ASSUME NEW p PROVE Refs(Empty(p))
<1>1. Empty(p).edges = <<>> /\ Empty(p).chunks = <<>> /\ Empty(p).documents = <<>>
  BY DEF Empty
<1>2. \A d : ~Exists(Empty(p), d)
  BY <1>1, SeqNone DEF Exists, IdsOf
<1> QED BY <1>1, <1>2, SeqNone DEF Refs

LEMMA RefsWith ==
    ASSUME NEW t, Formed(t), Refs(t), NEW r \in Requests, Appendable(t, r)
    PROVE  Refs(With(t, r))
<1> DEFINE u == With(t, r)
<1>1. Formed(u) /\ \A x : x \in IdsOf(t.chunks) => x \in IdsOf(u.chunks)
  <2>1. \A x : x \in IdsOf(t.chunks) <=> \E row \in ToSet(t.chunks) : row.id = x
    BY IdsAre DEF Formed, Shape
  <2>2. \A x : x \in IdsOf(u.chunks) <=> NewEnd(t, r, x)
    BY IdsOfWith
  <2> HIDE DEF u
  <2> QED BY <2>1, <2>2, FormedWith DEF NewEnd, u
<1>2. ASSUME NEW e \in ToSet(u.edges)
      PROVE  e.from \in IdsOf(u.chunks) /\ e.to \in IdsOf(u.chunks)
  <2>1. e \in ToSet(t.edges) \/ (NewEnd(t, r, e.from) /\ NewEnd(t, r, e.to))
    BY EdgesOfWith
  <2>2. \A x : NewEnd(t, r, x) => x \in IdsOf(u.chunks)
    BY IdsOfWith
  <2> HIDE DEF u
  <2> QED BY <1>1, <2>1, <2>2 DEF Refs
<1>3. ASSUME NEW row \in ToSet(u.chunks) PROVE Exists(u, row.doc)
  <2>1. u.chunks = t.chunks \o NewChunks(t, r) /\ IsSeq(t.chunks) /\ IsSeq(NewChunks(t, r))
    BY WithIs, NewChunksAre DEF Formed, Shape
  <2>2. row \in ToSet(t.chunks) \/ row \in ToSet(NewChunks(t, r))
    BY <2>1, SeqConcat
  <2>3. CASE row \in ToSet(t.chunks)
    <3>1. row.doc # r.id /\ Exists(t, row.doc)
      BY <2>3, AppendableIs DEF Formed, Refs
    <3> QED BY <3>1, SameInWith DEF SameDocument
  <2>4. CASE row \in ToSet(NewChunks(t, r))
    <3>1. row.doc = r.id
      BY <2>4, NewChunkForm
    <3> QED BY <3>1, NewRows
  <2> QED BY <2>2, <2>3, <2>4
<1>4. ASSUME NEW d, Exists(u, d) PROVE Intact(u, d)
  <2>1. CASE d = r.id
    BY <2>1, IntactNew
  <2>2. CASE d # r.id
    <3>1. SameDocument(t, u, d)
      BY <2>2, SameInWith
    <3> HIDE DEF u
    <3>2. Intact(t, d)
      BY <1>4, <3>1 DEF SameDocument, Refs
    <3> QED BY <3>1, <3>2, IntactSame
  <2> QED BY <2>1, <2>2
<1> HIDE DEF u
<1>5. Refs(u)
  BY <1>2, <1>3, <1>4 DEF Refs
<1> QED BY <1>5 DEF u

\* The edges left end in chunks of other documents, which stay.
LEMMA RefsWithout ==
    ASSUME NEW t, Formed(t), Refs(t), NEW gone
    PROVE  Refs(Without(t, gone))
<1> DEFINE u == Without(t, gone)
           ids == DocumentChunkIds(t, gone)
<1>1. /\ u.documents = Others(t.documents, gone) /\ u.chunks = RowsNotOf(t.chunks, gone)
      /\ u.edges = Apart(t.edges, ids) /\ Formed(u)
      /\ IsSeq(t.documents) /\ IsSeq(t.chunks) /\ IsSeq(t.edges)
  BY WithoutIs, FormedWithout DEF Formed, Shape
<1>2. \A x : x \in IdsOf(t.chunks) <=> \E row \in ToSet(t.chunks) : row.id = x
  BY <1>1, IdsAre
<1>3. \A row \in ToSet(t.chunks) : row.doc = gone => row.id \in ids
  BY RemovedIds
<1> HIDE DEF ids
<1>4. /\ \A e : e \in ToSet(u.edges) <=> e \in ToSet(t.edges) /\ ~Touches(e, ids)
      /\ \A row : row \in ToSet(u.chunks) <=> row \in ToSet(t.chunks) /\ row.doc # gone
      /\ \A row : row \in ToSet(u.documents) <=> row \in ToSet(t.documents) /\ row.id # gone
  BY <1>1, OthersElements, RowsOfElements, ApartElements
<1>5. \A d : d # gone => SameDocument(t, u, d)
  BY SameInWithout
<1> HIDE DEF u
<1>6. /\ \A x : x \in IdsOf(u.chunks) <=> \E row \in ToSet(u.chunks) : row.id = x
      /\ \A d : Exists(u, d) <=> \E row \in ToSet(u.documents) : row.id = d
  BY <1>1, IdsAre DEF Exists, Formed, Shape
<1>7. ASSUME NEW e \in ToSet(u.edges), NEW x \in {e.from, e.to} PROVE x \in IdsOf(u.chunks)
  <2>1. e \in ToSet(t.edges) /\ x \notin ids
    BY <1>4, <1>7 DEF Touches
  <2>2. PICK row \in ToSet(t.chunks) : row.id = x
    BY <1>2, <2>1 DEF Refs
  <2>3. row \in ToSet(u.chunks)
    BY <1>3, <1>4, <2>1, <2>2
  <2> QED BY <1>6, <2>2, <2>3
<1>8. ASSUME NEW row \in ToSet(u.chunks) PROVE Exists(u, row.doc)
  <2>1. row.doc # gone /\ Exists(t, row.doc)
    BY <1>4, <1>8 DEF Refs
  <2> QED BY <1>5, <2>1 DEF SameDocument
<1>9. ASSUME NEW d, Exists(u, d) PROVE Intact(u, d)
  <2>1. d # gone
    BY <1>4, <1>6, <1>9
  <2>2. SameDocument(t, u, d)
    BY <1>5, <2>1
  <2>3. Intact(t, d)
    BY <1>9, <2>2 DEF SameDocument, Refs
  <2> QED BY <2>2, <2>3, IntactSame
<1>10. Refs(u)
  BY <1>7, <1>8, <1>9 DEF Refs
<1> QED BY <1>10 DEF u

LEMMA ExchangedElements ==
    ASSUME NEW t, Formed(t), NEW u, Formed(u), NEW d, NEW row, row.id = d, Exchanged(t, u, d, row)
    PROVE  /\ Len(u.documents) = Len(t.documents)
           /\ \A i \in 1 .. Len(t.documents) :
                 u.documents[i] = IF t.documents[i].id = d THEN row ELSE t.documents[i]
           /\ \A x : Exists(u, x) <=> Exists(t, x)
           /\ \A x \in ToSet(u.documents) : x.id = d => x = row
<1> DEFINE k == Len(t.documents)
<1>1. IsSeq(t.documents) /\ IsSeq(u.documents) /\ k \in Nat /\ DOMAIN t.documents = 1 .. k
  BY SeqDomain DEF Formed, Shape
<1>2. /\ DOMAIN u.documents = 1 .. k
      /\ \A i \in 1 .. k : u.documents[i] = IF t.documents[i].id = d THEN row ELSE t.documents[i]
  BY <1>1 DEF Exchanged
<1>3. Len(u.documents) = k
  BY <1>1, <1>2, SeqDomain
<1>4. \A i \in 1 .. k : u.documents[i].id = t.documents[i].id
  BY <1>2
<1>5. \A x : Exists(u, x) <=> Exists(t, x)
  BY <1>1, <1>2, <1>4 DEF Exists, IdsOf
<1>6. \A x \in ToSet(u.documents) : x.id = d => x = row
  BY <1>2 DEF ToSet
<1> QED BY <1>2, <1>3, <1>5, <1>6

LEMMA SameInExchanged ==
    ASSUME NEW t, Formed(t), NEW u, Formed(u), NEW d, NEW row, row.id = d, Exchanged(t, u, d, row),
           NEW x, x # d
    PROVE  SameDocument(t, u, x)
<1> DEFINE E == WithId(t.documents, x)
           F == WithId(u.documents, x)
           k == Len(t.documents)
<1>1. /\ Find(t, x) = Only(t.documents, E) /\ IsSeq(t.documents) /\ u.chunks = t.chunks
      /\ Find(u, x) = Only(u.documents, F) /\ IsSeq(u.documents)
  BY FindDocument DEF Exchanged
<1>2. /\ Len(u.documents) = k /\ (Exists(u, x) <=> Exists(t, x))
      /\ \A i \in 1 .. k :
            u.documents[i] = IF t.documents[i].id = d THEN row ELSE t.documents[i]
  BY ExchangedElements
<1>3. /\ \A i \in 1 .. k : t.documents[i] \in E <=> t.documents[i].id = x
      /\ \A i \in 1 .. k : u.documents[i] \in F <=> u.documents[i].id = x
  <2>1. /\ \A i \in 1 .. k : t.documents[i] \in ToSet(t.documents)
        /\ \A i \in 1 .. k : u.documents[i] \in ToSet(u.documents)
    BY <1>1, <1>2, SeqDomain
  <2> QED BY <2>1 DEF WithId
<1> HIDE DEF E, F, k
<1>4. \A i \in 1 .. k : /\ t.documents[i] \in E <=> u.documents[i] \in F
                        /\ t.documents[i] \in E => t.documents[i] = u.documents[i]
  BY <1>2, <1>3
<1>5. Only(t.documents, E) = Only(u.documents, F)
  BY <1>1, <1>2, <1>4, OnlyPlaces DEF k
<1> QED BY <1>1, <1>2, <1>5 DEF SameDocument

LEMMA FoundDocument ==
    ASSUME NEW t, Formed(t), NEW d, Exists(t, d)
    PROVE  Find(t, d)[1] \in ToSet(t.documents) /\ Find(t, d)[1].id = d
BY UpdatedRowIs

LEMMA RefsExchanged ==
    ASSUME NEW t, Formed(t), Refs(t), NEW u, Formed(u), NEW d, NEW meta, NEW field, Intact(t, d),
           Exchanged(t, u, d, UpdatedRow(t, d, meta, field))
    PROVE  Refs(u)
<1> DEFINE old == Find(t, d)[1]
           row == UpdatedRow(t, d, meta, field)
           rows == RowsOf(t.chunks, d)
<1>1. Exists(t, d) /\ u.chunks = t.chunks /\ u.edges = t.edges
  BY DEF Intact, Exchanged
<1>2. row = [id |-> d, body |-> old.body, meta |-> meta, field |-> field,
             print |-> Fingerprint(old.body, meta, rows)]
  BY <1>1, UpdatedRowIs
<1>3. /\ rows # <<>>
      /\ \A i \in DOMAIN rows : /\ rows[i].ordinal \in DOMAIN Pieces[old.body]
                                /\ rows[i].piece = Pieces[old.body][rows[i].ordinal]
  BY DEF Intact
<1>4. Exchanged(t, u, d, row)
  OBVIOUS
<1> HIDE DEF old, row
<1>5. /\ row.id = d /\ row.body = old.body /\ row.meta = meta
      /\ row.print = Fingerprint(old.body, meta, rows)
  BY <1>2
<1>6. /\ \A x : Exists(u, x) <=> Exists(t, x)
      /\ \A x \in ToSet(u.documents) : x.id = d => x = row
  BY <1>4, <1>5, ExchangedElements
<1>7. Find(u, d)[1] = row
  <2>1. Exists(u, d)
    BY <1>1, <1>6
  <2> QED BY <1>6, <2>1, FoundDocument
<1>8. RowsOf(u.chunks, d) = rows
  BY <1>1
<1> HIDE DEF rows
<1>9. Intact(u, d)
  BY <1>1, <1>3, <1>5, <1>6, <1>7, <1>8 DEF Intact
<1>10. ASSUME NEW x, Exists(u, x) PROVE Intact(u, x)
  <2>1. CASE x = d
    BY <1>9, <2>1
  <2>2. CASE x # d
    <3>1. SameDocument(t, u, x)
      BY <1>4, <1>5, <2>2, SameInExchanged
    <3>2. Intact(t, x)
      BY <1>6, <1>10 DEF Refs
    <3> QED BY <3>1, <3>2, IntactSame
  <2> QED BY <2>1, <2>2
<1> QED BY <1>1, <1>6, <1>10 DEF Refs

\* Edges alone are exchanged.
LEMMA RefsEdges ==
    ASSUME NEW t, Refs(t), NEW u, u.chunks = t.chunks, u.documents = t.documents,
           \A e \in ToSet(u.edges) :
              e \in ToSet(t.edges) \/ {e.from, e.to} \subseteq IdsOf(t.chunks)
    PROVE  Refs(u)
<1>1. \A d : Exists(u, d) <=> Exists(t, d)
  BY DEF Exists
<1>2. \A d : Find(u, d) = Find(t, d)
  BY DEF Find
<1>3. \A d : SameDocument(t, u, d)
  BY <1>1, <1>2 DEF SameDocument
<1>4. \A d : Intact(t, d) <=> Intact(u, d)
  BY <1>3, IntactSame
<1> QED BY <1>1, <1>4 DEF Refs

LEMMA RefsStep ==
    ASSUME Formed(tables), Refs(tables), EngineStep
    PROVE  Refs(tables')
<1>1. ASSUME NEW r \in Requests, AppendDocument(r) PROVE Refs(tables')
  BY <1>1, AppendMakes, RefsWith
<1>2. ASSUME NEW r \in Requests, ReplaceDocument(r) PROVE Refs(tables')
  BY <1>2, ReplaceMakes, RefsWithout, RefsWith
<1>3. ASSUME NEW r \in Requests, UpdateMetadata(r.id, r.meta, r.field) PROVE Refs(tables')
  <2>1. /\ Intact(tables, r.id) /\ Formed(tables')
        /\ Exchanged(tables, tables', r.id, UpdatedRow(tables, r.id, r.meta, r.field))
    BY <1>3, UpdateMakes
  <2> QED BY <2>1, RefsExchanged
<1>4. ASSUME NEW d, DeleteDocument(d) PROVE Refs(tables')
  BY <1>4, DeleteMakes, RefsWithout
<1>5. ASSUME NEW kind, NEW from, NEW to, NEW weight, UpsertRelationship(kind, from, to, weight)
      PROVE  Refs(tables')
  <2>1. /\ tables'.chunks = tables.chunks /\ tables'.documents = tables.documents
        /\ {from, to} \subseteq IdsOf(tables.chunks)
        /\ \A e \in ToSet(tables'.edges) :
              e \in ToSet(tables.edges) \/ e = Edge(from, to, kind, weight)
    BY <1>5, UpsertMakes
  <2>2. Edge(from, to, kind, weight).from = from /\ Edge(from, to, kind, weight).to = to
    BY EdgeIs
  <2>3. \A e \in ToSet(tables'.edges) :
           e \in ToSet(tables.edges) \/ {e.from, e.to} \subseteq IdsOf(tables.chunks)
    BY <2>1, <2>2
  <2> QED BY <2>1, <2>3, RefsEdges
<1>6. ASSUME NEW kind, NEW from, NEW to, DeleteRelationship(kind, from, to) PROVE Refs(tables')
  BY <1>6, DeleteRelationMakes, RefsEdges
<1>7. ASSUME NEW p, CreateCollection(p) PROVE Refs(tables')
  BY <1>7, CreateMakes, RefsEmpty
<1> QED BY <1>1, <1>2, <1>3, <1>4, <1>5, <1>6, <1>7 DEF EngineStep

\* As long as nobody edits with SQL: the inductive form of ReferencesHold.
Referenced == edits \in Nat /\ (edits = 0 => Refs(tables))

LEMMA ReferencedNext ==
    ASSUME Reading, Formed(tables), Referenced, [Next]_vars
    PROVE  Referenced'
<1>1. CASE tables' = tables /\ edits' = edits
  BY <1>1 DEF Referenced
<1>2. CASE EngineStep /\ edits' = edits
  BY <1>2, RefsStep DEF Referenced
<1>3. CASE SqlEdit
  <2>1. edits' = edits + 1
    BY <1>3, EditMakes
  <2> QED BY <2>1 DEF Referenced
<1> QED BY <1>1, <1>2, <1>3, Steps

\* Without edits with SQL every edge joins two stored chunks, every chunk has
\* its document and every document is undamaged, whatever the operations of
\* src/engine/graph.rs do and in whatever order.
THEOREM ReferencesAlways == Spec => []ReferencesHold
<1>1. Init => Referenced
  BY RefsEmpty DEF Init, Referenced
<1>2. Reading /\ Formed(tables) /\ Referenced /\ [Next]_vars => Referenced'
  BY ReferencedNext
<1>3. Formed(tables) /\ Referenced => ReferencesHold
  <2> SUFFICES ASSUME Formed(tables), Refs(tables)
               PROVE  /\ \A i \in DOMAIN tables.edges :
                           {tables.edges[i].from, tables.edges[i].to} \subseteq Ends
                      /\ \A i \in DOMAIN tables.chunks : Exists(tables, tables.chunks[i].doc)
                      /\ \A d \in IdsOf(tables.documents) : Intact(tables, d)
    BY DEF Referenced, ReferencesHold
  <2>1. /\ \A i \in DOMAIN tables.edges : tables.edges[i] \in ToSet(tables.edges)
        /\ \A i \in DOMAIN tables.chunks : tables.chunks[i] \in ToSet(tables.chunks)
    BY DEF ToSet
  <2>2. \A d \in IdsOf(tables.documents) : Exists(tables, d)
    BY DEF Exists
  <2> QED BY <2>1, <2>2 DEF Refs, Ends
<1> QED BY <1>1, <1>2, <1>3, ReadingAlways, FormedAlways, PTL DEF Spec

-----------------------------------------------------------------------------
(* A document written by the engine is whole, whatever was there before.     *)

RepairedIn(t, d) ==
    /\ Intact(t, d)
    /\ \A e \in ToSet(t.edges) :
          Touches(e, IdsOf(RowsOf(t.chunks, d)))
            => e.from \in IdsOf(t.chunks) /\ e.to \in IdsOf(t.chunks)
    /\ DocumentChunkIds(t, d) = IdsOf(RowsOf(t.chunks, d))

LEMMA RepairedWith ==
    ASSUME NEW t, Formed(t), NEW r \in Requests, Appendable(t, r)
    PROVE  RepairedIn(With(t, r), r.id)
<1> DEFINE u == With(t, r)
           d == r.id
           rows == RowsOf(u.chunks, d)
<1>1. Formed(u) /\ Intact(u, d)
  BY FormedWith, IntactNew
<1>2. /\ \A x : x \in IdsOf(u.chunks) <=> NewEnd(t, r, x)
      /\ \A e \in ToSet(u.edges) :
            e \in ToSet(t.edges) \/ (NewEnd(t, r, e.from) /\ NewEnd(t, r, e.to))
  BY IdsOfWith, EdgesOfWith
<1>3. /\ \A row \in ToSet(t.chunks) : row.doc # d
      /\ \A e \in ToSet(t.edges) : e.from[1] # d /\ e.to[1] # d
  BY AppendableIs DEF Formed
<1>4. \A id : id \in DocumentChunkIds(u, d) <=>
         \/ \E row \in ToSet(u.chunks) : row.doc = d /\ row.id = id
         \/ id[1] = d /\ \E e \in ToSet(u.edges) : id = e.from \/ id = e.to
  <2> HIDE DEF u, d
  <2> QED BY <1>1, RemovedIds
<1>5. rows = NewChunks(t, r)
  BY NewRows
<1> HIDE DEF u
<1>6. /\ \A x : x \in IdsOf(rows) <=> \E row \in ToSet(rows) : row.id = x
      /\ \A row : row \in ToSet(rows) <=> row \in ToSet(u.chunks) /\ row.doc = d
      /\ \A row \in ToSet(u.chunks) : ChunkForm(row)
  BY <1>1, RowsOfElements, IdsAre DEF Formed, Shape
<1>7. \A n \in 1 .. Len(Pieces[r.body]) : ChunkId(d, n) \in IdsOf(rows)
  <2> TAKE n \in 1 .. Len(Pieces[r.body])
  <2>1. /\ IsSeq(rows) /\ Len(rows) = Len(Pieces[r.body])
        /\ rows[n] = [id |-> ChunkId(d, n), doc |-> d, ordinal |-> n,
                      piece |-> Pieces[r.body][n], profile |-> t.config]
    BY <1>5, NewChunksAre
  <2> HIDE DEF rows, d
  <2>2. rows[n] \in ToSet(rows) /\ rows[n].id = ChunkId(d, n)
    BY <2>1, SeqDomain
  <2> QED BY <1>6, <2>2
<1>8. ASSUME NEW x, x \in IdsOf(rows) PROVE x[1] = d
  <2>1. PICK row \in ToSet(rows) : row.id = x
    BY <1>6, <1>8
  <2>2. ChunkForm(row) /\ row.doc = d
    BY <1>6
  <2> QED BY <2>1, <2>2, ChunkIdIs DEF ChunkForm
<1>9. ASSUME NEW x, NewEnd(t, r, x), x[1] = d PROVE x \in IdsOf(rows)
  <2>1. ASSUME NEW row \in ToSet(t.chunks), x = row.id PROVE FALSE
    <3>1. ChunkForm(row) /\ row.doc # d
      BY <1>3 DEF Formed
    <3> QED BY <1>9, <2>1, <3>1, ChunkIdIs DEF ChunkForm
  <2> QED BY <1>7, <1>9, <2>1 DEF NewEnd
<1> HIDE DEF rows, d
<1>10. ASSUME NEW e \in ToSet(u.edges), Touches(e, IdsOf(rows))
       PROVE  e.from \in IdsOf(u.chunks) /\ e.to \in IdsOf(u.chunks)
  <2>1. e.from[1] = d \/ e.to[1] = d
    BY <1>8, <1>10 DEF Touches
  <2> QED BY <1>2, <1>3, <2>1
<1>11. ASSUME NEW x PROVE x \in DocumentChunkIds(u, d) <=> x \in IdsOf(rows)
  <2>1. ASSUME x \in DocumentChunkIds(u, d) PROVE x \in IdsOf(rows)
    <3>1. CASE \E row \in ToSet(u.chunks) : row.doc = d /\ row.id = x
      BY <1>6, <3>1
    <3>2. CASE x[1] = d /\ \E e \in ToSet(u.edges) : x = e.from \/ x = e.to
      <4>1. NewEnd(t, r, x)
        BY <1>2, <1>3, <3>2
      <4> QED BY <1>9, <3>2, <4>1
    <3> QED BY <1>4, <2>1, <3>1, <3>2
  <2>2. ASSUME x \in IdsOf(rows) PROVE x \in DocumentChunkIds(u, d)
    BY <1>4, <1>6, <2>2
  <2> QED BY <2>1, <2>2
<1>12. DocumentChunkIds(u, d) = IdsOf(rows)
  BY <1>11
<1> QED BY <1>1, <1>10, <1>12 DEF RepairedIn, rows, u, d

LEMMA IngestMakes ==
    ASSUME Formed(tables), NEW r \in Requests, Ingest(r)
    PROVE  RepairedIn(tables', r.id)
<1>1. \E t : Formed(t) /\ Appendable(t, r) /\ tables' = With(t, r)
  BY AppendMakes, ReplaceMakes DEF Ingest
<1> QED BY <1>1, RepairedWith

\* Ingesting a document leaves it undamaged and without an edge to a missing
\* chunk, whatever was done to the tables with SQL before.
THEOREM IngestsRepair == Spec => IngestRepairs
<1>1. ASSUME Formed(tables), [Next]_vars
      PROVE  [\A r \in Requests : generation' = revision + 1 /\ Ingest(r) => Repaired(r.id)']_vars
  <2> SUFFICES ASSUME NEW r \in Requests, Ingest(r) PROVE Repaired(r.id)'
    OBVIOUS
  <2> DEFINE t == tables'
             d == r.id
  <2>1. RepairedIn(t, d)
    BY <1>1, IngestMakes
  <2>2. \A i \in DOMAIN t.edges : t.edges[i] \in ToSet(t.edges)
    BY DEF ToSet
  <2>3. \A i \in DOMAIN t.edges :
          Touches(t.edges[i], IdsOf(RowsOf(t.chunks, d)))
            => {t.edges[i].from, t.edges[i].to} \subseteq IdsOf(t.chunks)
    <3> HIDE DEF t, d
    <3> QED BY <2>1, <2>2 DEF RepairedIn
  <2> QED BY <2>1, <2>3 DEF Repaired, Ends, RepairedIn
<1> QED BY <1>1, FormedAlways, PTL DEF Spec, IngestRepairs

-----------------------------------------------------------------------------
(* Executing the log: statement after statement, and what each commit's      *)
(* statements do to the tables they were made for.                           *)

ReplayNext(t, log, f, n) == IF n = 0 THEN t ELSE Execute(f[n - 1], log[n])
ReplayUpTo(t, log, f, k) == f = [n \in 0 .. k |-> ReplayNext(t, log, f, n)]

LEMMA ReplayExists ==
    ASSUME NEW t, NEW log
    PROVE  \A k \in Nat : \E f : ReplayUpTo(t, log, f, k)
<1> DEFINE N == {k \in Nat : \E f : ReplayUpTo(t, log, f, k)}
<1>1. 0 \in N
  <2> DEFINE f == [n \in 0 .. 0 |-> t]
  <2>1. ReplayUpTo(t, log, f, 0)
    BY DEF ReplayUpTo, ReplayNext
  <2> QED BY <2>1
<1>2. \A k \in N : k + 1 \in N
  <2> SUFFICES ASSUME NEW k \in N PROVE \E f : ReplayUpTo(t, log, f, k + 1)
    OBVIOUS
  <2>1. PICK f : ReplayUpTo(t, log, f, k)
    OBVIOUS
  <2> DEFINE g == [n \in 0 .. k + 1 |-> IF n = k + 1 THEN ReplayNext(t, log, f, n) ELSE f[n]]
  <2>2. \A n \in 0 .. k : g[n] = f[n] /\ f[n] = ReplayNext(t, log, f, n)
    BY <2>1 DEF ReplayUpTo
  <2>3. \A n \in 0 .. k + 1 : ReplayNext(t, log, g, n) = ReplayNext(t, log, f, n)
    <3> HIDE DEF g
    <3> QED BY <2>2 DEF ReplayNext
  <2>4. ASSUME NEW n \in 0 .. k + 1 PROVE g[n] = ReplayNext(t, log, g, n)
    <3>1. CASE n = k + 1
      BY <2>3, <3>1
    <3>2. CASE n # k + 1
      <4>1. n \in 0 .. k
        BY <3>2
      <4> HIDE DEF g
      <4> QED BY <2>2, <2>3, <4>1
    <3> QED BY <3>1, <3>2
  <2>5. ReplayUpTo(t, log, g, k + 1)
    BY <2>4 DEF ReplayUpTo
  <2> QED BY <2>5
<1>3. N = Nat
  <2> HIDE DEF N
  <2> QED BY <1>1, <1>2, NaturalSets DEF N
<1> QED BY <1>3

LEMMA ReplayIs ==
    ASSUME NEW t, NEW log, Len(log) \in Nat
    PROVE  \E f : ReplayUpTo(t, log, f, Len(log)) /\ Replay(t, log) = f[Len(log)]
<1> DEFINE f == CHOOSE f : ReplayUpTo(t, log, f, Len(log))
<1>1. ReplayUpTo(t, log, f, Len(log))
  BY ReplayExists
<1>2. Replay(t, log) = f[Len(log)]
  BY DEF Replay, ReplayUpTo, ReplayNext
<1> QED BY <1>1, <1>2

LEMMA ReplayNone == ASSUME NEW t PROVE Replay(t, <<>>) = t
<1>1. PICK f : ReplayUpTo(t, <<>>, f, 0) /\ Replay(t, <<>>) = f[0]
  BY ReplayIs
<1> QED BY <1>1 DEF ReplayUpTo, ReplayNext

LEMMA ReplayMore ==
    ASSUME NEW t, NEW S, NEW log \in Seq(S), NEW s \in S
    PROVE  Replay(t, Append(log, s)) = Execute(Replay(t, log), s)
<1> DEFINE k == Len(log)
           more == Append(log, s)
<1>1. k \in Nat /\ Len(more) = k + 1 /\ more[k + 1] = s /\ \A i \in 1 .. k : more[i] = log[i]
  OBVIOUS
<1> HIDE DEF k, more
<1>2. PICK f : ReplayUpTo(t, log, f, k) /\ Replay(t, log) = f[k]
  BY <1>1, ReplayIs DEF k
<1>3. PICK g : ReplayUpTo(t, more, g, k + 1) /\ Replay(t, more) = g[k + 1]
  BY <1>1, ReplayIs
<1> DEFINE N == {i \in Nat : i <= k => f[i] = g[i]}
<1>4. 0 \in N
  BY <1>1, <1>2, <1>3 DEF ReplayUpTo, ReplayNext
<1>5. \A i \in N : i + 1 \in N
  <2> SUFFICES ASSUME NEW i \in N, i + 1 <= k PROVE f[i + 1] = g[i + 1]
    OBVIOUS
  <2>1. /\ f[i] = g[i] /\ i + 1 - 1 = i /\ i + 1 # 0 /\ more[i + 1] = log[i + 1]
    BY <1>1
  <2>2. i + 1 \in 0 .. k /\ i + 1 \in 0 .. k + 1
    BY <1>1
  <2>3. f[i + 1] = ReplayNext(t, log, f, i + 1)
    BY <1>2, <2>2 DEF ReplayUpTo
  <2>4. g[i + 1] = ReplayNext(t, more, g, i + 1)
    BY <1>3, <2>2 DEF ReplayUpTo
  <2> QED BY <2>1, <2>3, <2>4 DEF ReplayNext
<1>6. N = Nat
  <2> HIDE DEF N
  <2> QED BY <1>4, <1>5, NaturalSets DEF N
<1>7. f[k] = g[k]
  BY <1>1, <1>6
<1>8. g[k + 1] = ReplayNext(t, more, g, k + 1)
  <2>1. k + 1 \in 0 .. k + 1
    BY <1>1
  <2> QED BY <1>3, <2>1 DEF ReplayUpTo
<1>9. k + 1 # 0 /\ k + 1 - 1 = k
  BY <1>1
<1> QED BY <1>1, <1>2, <1>3, <1>7, <1>8, <1>9 DEF ReplayNext, more

LEMMA ReplayOne == ASSUME NEW t, NEW s PROVE Replay(t, <<s>>) = Execute(t, s)
<1>1. Replay(t, Append(<<>>, s)) = Execute(Replay(t, <<>>), s)
  <2> DEFINE S == {s}
  <2>1. <<>> \in Seq(S) /\ s \in S
    OBVIOUS
  <2> HIDE DEF S
  <2> QED BY <2>1, ReplayMore
<1>2. Append(<<>>, s) = <<s>>
  OBVIOUS
<1> QED BY <1>1, <1>2, ReplayNone

LEMMA ReplayConcat ==
    ASSUME NEW t, NEW S, NEW log \in Seq(S), NEW more \in Seq(S)
    PROVE  Replay(t, log \o more) = Replay(Replay(t, log), more)
<1> DEFINE P == {r \in Seq(S) : Replay(t, log \o r) = Replay(Replay(t, log), r)}
<1>1. <<>> \in P
  <2>1. log \o <<>> = log
    BY ConcatEmptySeq
  <2>2. Replay(Replay(t, log), <<>>) = Replay(t, log)
    BY ReplayNone
  <2>3. <<>> \in Seq(S)
    OBVIOUS
  <2> QED BY <2>1, <2>2, <2>3
<1>2. \A r \in P : \A x \in S : Append(r, x) \in P
  <2> SUFFICES ASSUME NEW r \in Seq(S), Replay(t, log \o r) = Replay(Replay(t, log), r),
                      NEW x \in S
               PROVE  Replay(t, log \o Append(r, x)) = Replay(Replay(t, log), Append(r, x))
    OBVIOUS
  <2>1. log \o Append(r, x) = Append(log \o r, x) /\ log \o r \in Seq(S)
    BY ConcatAppend, ConcatProperties
  <2> DEFINE u == log \o r
             v == Replay(t, log)
  <2> HIDE DEF v
  <2>2. Replay(v, Append(r, x)) = Execute(Replay(v, r), x)
    BY ReplayMore
  <2>3. Replay(t, Append(u, x)) = Execute(Replay(t, u), x)
    <3>1. u \in Seq(S)
      BY <2>1
    <3> HIDE DEF u
    <3> QED BY <3>1, ReplayMore
  <2> QED BY <2>1, <2>2, <2>3 DEF v
<1>3. P = Seq(S)
  <2> HIDE DEF P
  <2> QED BY <1>1, <1>2, SequenceSets DEF P
<1>4. more \in P
  BY <1>3
<1> QED BY <1>4

LEMMA ReplayTwo == ASSUME NEW t, NEW a, NEW b PROVE Replay(t, <<a, b>>) = Execute(Execute(t, a), b)
<1> DEFINE S == {a, b}
<1>1. <<a>> \in Seq(S) /\ b \in S
  OBVIOUS
<1> HIDE DEF S
<1>2. Replay(t, Append(<<a>>, b)) = Execute(Replay(t, <<a>>), b)
  BY <1>1, ReplayMore
<1>3. <<a, b>> = Append(<<a>>, b)
  <2> DEFINE T == {a, b}
  <2>1. <<a>> \in Seq(T) /\ <<a, b>> \in Seq(T) /\ b \in T
    OBVIOUS
  <2>2. /\ Len(<<a>>) = 1 /\ Len(<<a, b>>) = Len(<<a>>) + 1 /\ <<a, b>>[Len(<<a>>) + 1] = b
        /\ \A i \in 1 .. Len(<<a>>) : <<a, b>>[i] = <<a>>[i]
    OBVIOUS
  <2> HIDE DEF T
  <2> QED BY <2>1, <2>2, AppendIs
<1>4. Replay(t, <<a>>) = Execute(t, a)
  BY ReplayOne
<1> QED BY <1>2, <1>3, <1>4

LEMMA ReplayThree ==
    ASSUME NEW t, NEW a, NEW b, NEW c
    PROVE  Replay(t, <<a, b, c>>) = Execute(Execute(Execute(t, a), b), c)
<1> DEFINE S == {a, b, c}
<1>1. <<a, b>> \in Seq(S) /\ c \in S
  OBVIOUS
<1> HIDE DEF S
<1>2. Replay(t, Append(<<a, b>>, c)) = Execute(Replay(t, <<a, b>>), c)
  BY <1>1, ReplayMore
<1>3. <<a, b, c>> = Append(<<a, b>>, c)
  <2> DEFINE T == {a, b, c}
  <2>1. <<a, b>> \in Seq(T) /\ <<a, b, c>> \in Seq(T) /\ c \in T
    OBVIOUS
  <2>2. /\ Len(<<a, b>>) = 2 /\ Len(<<a, b, c>>) = Len(<<a, b>>) + 1
        /\ <<a, b, c>>[Len(<<a, b>>) + 1] = c
        /\ \A i \in 1 .. Len(<<a, b>>) : <<a, b, c>>[i] = <<a, b>>[i]
    OBVIOUS
  <2> HIDE DEF T
  <2> QED BY <2>1, <2>2, AppendIs
<1>4. Replay(t, <<a, b>>) = Execute(Execute(t, a), b)
  BY ReplayTwo
<1> QED BY <1>2, <1>3, <1>4

LEMMA ReplayBoth ==
    ASSUME NEW t, NEW log, IsSeq(log), NEW more, IsSeq(more)
    PROVE  Replay(t, log \o more) = Replay(Replay(t, log), more)
<1> DEFINE S == ToSet(log) \cup ToSet(more)
<1>1. log \in Seq(S) /\ more \in Seq(S)
  BY SeqMonotonic DEF IsSeq
<1> HIDE DEF S
<1> QED BY <1>1, ReplayConcat

LEMMA ExecuteInserts ==
    ASSUME NEW t, NEW rows
    PROVE  /\ (\A i \in DOMAIN rows : Legible(rows[i].field))
                => Execute(t, Insert("documents", rows)) = [t EXCEPT !.documents = @ \o rows]
           /\ Execute(t, Insert("chunks", rows)) = [t EXCEPT !.chunks = @ \o rows]
           /\ Execute(t, Insert("edges", rows)) = [t EXCEPT !.edges = @ \o rows]
<1>1. \A table : /\ Insert(table, rows).op = "insert" /\ Insert(table, rows).table = table
                 /\ Insert(table, rows).rows = rows
  BY DEF Insert
<1>2. \A table : Execute(t, Insert(table, rows)) = ExecuteInsert(t, table, rows)
  BY <1>1 DEF Execute
<1> QED BY <1>2 DEF ExecuteInsert

LEMMA ConcatOne == ASSUME NEW s, IsSeq(s), NEW x PROVE s \o <<x>> = Append(s, x)
<1> DEFINE S == ToSet(s) \cup {x}
<1>1. s \in Seq(S) /\ x \in S
  BY SeqMonotonic DEF IsSeq
<1> HIDE DEF S
<1> QED BY <1>1, AppendIsConcat

LEMMA ConcatThree ==
    ASSUME NEW a, IsSeq(a), NEW b, IsSeq(b), NEW c, IsSeq(c)
    PROVE  a \o (b \o c) = (a \o b) \o c
<1> DEFINE S == (ToSet(a) \cup ToSet(b)) \cup ToSet(c)
<1>1. a \in Seq(S) /\ b \in Seq(S) /\ c \in Seq(S)
  BY SeqMonotonic DEF IsSeq
<1> HIDE DEF S
<1> QED BY <1>1, ConcatAssociative

LEMMA NewLogMakes ==
    ASSUME NEW t, Shape(t), NEW r \in Requests, Legible(r.field)
    PROVE  Replay(t, NewLog(t, r)) = With(t, r)
<1> DEFINE new == NewDocument(r, NewChunks(t, r))
           chunks == NewChunks(t, r)
           edges == Adjacent(r) \o Semantic(t, r)
           D == t.documents \o <<new>>
           C == t.chunks \o chunks
           E == t.edges \o edges
           a == Insert("documents", <<new>>)
           b == Insert("chunks", chunks)
           c == Insert("edges", edges)
           t1 == [t EXCEPT !.documents = D]
           t2 == [t1 EXCEPT !.chunks = C]
           t3 == [t2 EXCEPT !.edges = E]
           w == With(t, r)
<1>1. Replay(t, NewLog(t, r)) = Execute(Execute(Execute(t, a), b), c)
  BY ReplayThree DEF NewLog
<1>2. /\ IsSeq(t.documents) /\ IsSeq(t.chunks) /\ IsSeq(t.edges)
      /\ IsSeq(chunks) /\ IsSeq(Adjacent(r)) /\ IsSeq(Semantic(t, r))
  BY NewChunksAre, AdjacentIs, SemanticIs DEF Shape
<1>3. new.field = r.field
  BY DEF NewDocument
<1>4. /\ Shape(w) /\ w.config = t.config /\ w.documents = Append(t.documents, new)
      /\ w.chunks = t.chunks \o chunks /\ w.edges = (t.edges \o Adjacent(r)) \o Semantic(t, r)
  BY WithIs
<1>5. E = (t.edges \o Adjacent(r)) \o Semantic(t, r)
  <2> DEFINE x == t.edges
             y == Adjacent(r)
             z == Semantic(t, r)
  <2>1. IsSeq(x) /\ IsSeq(y) /\ IsSeq(z)
    BY <1>2
  <2> HIDE DEF x, y, z
  <2>2. x \o (y \o z) = (x \o y) \o z
    BY <2>1, ConcatThree
  <2> QED BY <2>2 DEF x, y, z
<1>6. D = Append(t.documents, new)
  BY <1>2, ConcatOne
<1> HIDE DEF new, chunks, edges, w
<1>7. Execute(t, a) = t1
  <2>1. \A i \in DOMAIN <<new>> : Legible(<<new>>[i].field)
    BY <1>3
  <2> QED BY <2>1, ExecuteInserts
<1> HIDE DEF D
<1>8. t1 = [config |-> t.config, documents |-> D, chunks |-> t.chunks, edges |-> t.edges]
  BY DEF Shape
<1> HIDE DEF t1
<1>9. t1.chunks = t.chunks /\ t1.edges = t.edges
  BY <1>8
<1>10. Execute(t1, b) = t2
  <2>1. Execute(t1, b) = [t1 EXCEPT !.chunks = @ \o chunks]
    BY ExecuteInserts
  <2> QED BY <1>9, <2>1
<1> HIDE DEF C
<1>11. t2 = [config |-> t.config, documents |-> D, chunks |-> C, edges |-> t.edges]
  BY <1>8
<1> HIDE DEF t2
<1>12. Execute(t2, c) = t3
  <2>1. Execute(t2, c) = [t2 EXCEPT !.edges = @ \o edges]
    BY ExecuteInserts
  <2>2. t2.edges = t.edges
    BY <1>11
  <2> QED BY <2>1, <2>2
<1> HIDE DEF E
<1>13. t3 = [config |-> t.config, documents |-> D, chunks |-> C, edges |-> E]
  BY <1>11
<1>14. w = [config |-> t.config, documents |-> D, chunks |-> C, edges |-> E]
  BY <1>4, <1>5, <1>6 DEF Shape, C
<1> QED BY <1>1, <1>7, <1>10, <1>12, <1>13, <1>14 DEF w

LEMMA ApartFromNone == ASSUME NEW s, IsSeq(s) PROVE Apart(s, {}) = s
<1> DEFINE E == {e \in ToSet(s) : ~Touches(e, {})}
<1>1. Apart(s, {}) = Only(s, E)
  BY ApartIs
<1>2. ToSet(s) \subseteq E
  BY DEF Touches
<1> HIDE DEF E
<1> QED BY <1>1, <1>2, OnlyAll

LEMMA RemovalLogMakes ==
    ASSUME NEW t, Shape(t), NEW d
    PROVE  Replay(t, RemovalLog(t, d)) = Without(t, d) /\ IsSeq(RemovalLog(t, d))
<1> DEFINE ids == DocumentChunkIds(t, d)
           a == [op |-> "delete_ends", ids |-> ids]
           b == [op |-> "delete_document", id |-> d]
           E == Apart(t.edges, ids)
           first == IF ids = {} THEN <<>> ELSE <<a>>
           t1 == [t EXCEPT !.edges = E]
           w == Without(t, d)
<1>1. RemovalLog(t, d) = first \o <<b>>
  BY DEF RemovalLog
<1>2. IsSeq(first) /\ IsSeq(<<b>>) /\ IsSeq(first \o <<b>>)
  BY SeqNone, SeqOne, SeqConcat
<1>3. IsSeq(t.edges)
  BY DEF Shape
<1>4. /\ Shape(w) /\ w.config = t.config /\ w.documents = Others(t.documents, d)
      /\ w.chunks = RowsNotOf(t.chunks, d) /\ w.edges = E
  BY WithoutIs
<1> HIDE DEF ids, w
<1>5. Replay(t, first) = t1
  <2>1. CASE ids = {}
    <3>1. Replay(t, first) = t
      BY <2>1, ReplayNone
    <3>2. E = t.edges
      BY <1>3, <2>1, ApartFromNone
    <3> HIDE DEF E
    <3> QED BY <3>1, <3>2 DEF Shape
  <2>2. CASE ids # {}
    <3>1. Replay(t, first) = Execute(t, a)
      BY <2>2, ReplayOne
    <3>2. a.op = "delete_ends" /\ a.ids = ids
      OBVIOUS
    <3> HIDE DEF a
    <3> QED BY <3>1, <3>2 DEF Execute
  <2> QED BY <2>1, <2>2
<1> HIDE DEF E
<1>6. t1 = [config |-> t.config, documents |-> t.documents, chunks |-> t.chunks, edges |-> E]
  BY DEF Shape
<1> HIDE DEF t1
<1>7. t1.chunks = t.chunks /\ t1.documents = t.documents
  BY <1>6
<1>8. Execute(t1, b) =
        [t1 EXCEPT !.chunks = RowsNotOf(t1.chunks, d), !.documents = Others(t1.documents, d)]
  <2>1. b.op = "delete_document" /\ b.id = d
    OBVIOUS
  <2> HIDE DEF b
  <2> QED BY <2>1 DEF Execute
<1> DEFINE C == RowsNotOf(t.chunks, d)
           D == Others(t.documents, d)
<1>9. Execute(t1, b) = [t1 EXCEPT !.chunks = C, !.documents = D]
  BY <1>7, <1>8
<1> HIDE DEF C, D
<1>10. Execute(t1, b) = [config |-> t.config, documents |-> D, chunks |-> C, edges |-> E]
  BY <1>6, <1>9
<1>11. w = [config |-> t.config, documents |-> D, chunks |-> C, edges |-> E]
  BY <1>4 DEF Shape, C, D
<1>12. Replay(t, first \o <<b>>) = Execute(t1, b)
  <2> HIDE DEF first, b
  <2> QED BY <1>2, <1>5, ReplayBoth, ReplayOne
<1> QED BY <1>1, <1>2, <1>10, <1>11, <1>12 DEF w

LEMMA NewLogIsSeq == ASSUME NEW t, NEW r PROVE IsSeq(NewLog(t, r))
<1> DEFINE a == Insert("documents", <<NewDocument(r, NewChunks(t, r))>>)
           b == Insert("chunks", NewChunks(t, r))
           c == Insert("edges", Adjacent(r) \o Semantic(t, r))
<1>1. NewLog(t, r) = <<a, b, c>>
  BY DEF NewLog
<1> HIDE DEF a, b, c
<1>2. <<a, b, c>> \in Seq({a, b, c})
  OBVIOUS
<1> QED BY <1>1, <1>2, SeqIs

\* Two documents of one id are one document.
LEMMA SameRow ==
    ASSUME NEW t, Formed(t), NEW x \in ToSet(t.documents), NEW y \in ToSet(t.documents), x.id = y.id
    PROVE  x = y
BY SeqDomain DEF Formed, Shape, Identified

LEMMA UpdateReplays ==
    ASSUME NEW t, Formed(t), NEW u, Formed(u), u.config = t.config, NEW d, NEW meta, NEW field,
           Exists(t, d), Legible(field), Exchanged(t, u, d, UpdatedRow(t, d, meta, field))
    PROVE  Replay(t, <<[op |-> "update", row |-> UpdatedRow(t, d, meta, field)]>>) = u
<1> DEFINE old == Find(t, d)[1]
           row == UpdatedRow(t, d, meta, field)
           s == [op |-> "update", row |-> row]
           print == Fingerprint(old.body, meta, RowsOf(t.chunks, d))
           changed(x) == IF x.id # row.id THEN x
                         ELSE [x EXCEPT !.meta = row.meta, !.print = row.print, !.field = row.field]
           documents == [i \in DOMAIN t.documents |-> changed(t.documents[i])]
<1>1. /\ old \in ToSet(t.documents) /\ old.id = d /\ DocumentForm(old)
      /\ row = [id |-> d, body |-> old.body, meta |-> meta, field |-> field, print |-> print]
  BY UpdatedRowIs
<1>2. Exchanged(t, u, d, row)
  OBVIOUS
<1>3. Replay(t, <<s>>) = Execute(t, s)
  BY ReplayOne
<1>4. s.op = "update" /\ s.row = row
  OBVIOUS
<1> HIDE DEF old, row, s, print
<1>5. row.id = d /\ row.meta = meta /\ row.field = field /\ row.print = print
  BY <1>1
<1>6. Execute(t, s) = [t EXCEPT !.documents = documents]
  BY <1>4, <1>5 DEF Execute, ExecuteUpdate
<1>7. ASSUME NEW i \in DOMAIN t.documents
      PROVE  changed(t.documents[i]) = IF t.documents[i].id = d THEN row ELSE t.documents[i]
  <2>1. CASE t.documents[i].id = d
    <3>1. t.documents[i] \in ToSet(t.documents)
      BY DEF ToSet
    <3>2. t.documents[i] = old
      BY <1>1, <2>1, <3>1, SameRow
    <3>3. changed(old) = [old EXCEPT !.meta = meta, !.print = print, !.field = field]
      BY <1>1, <1>5
    <3> HIDE DEF changed
    <3>4. changed(old) = [id |-> d, body |-> old.body, meta |-> meta, field |-> field, print |-> print]
      BY <1>1, <3>3 DEF DocumentForm
    <3>5. changed(old) = row
      BY <1>1, <3>4
    <3> QED BY <2>1, <3>2, <3>5
  <2>2. CASE t.documents[i].id # d
    BY <1>5, <2>2
  <2> QED BY <2>1, <2>2
<1>8. documents = u.documents
  <2> HIDE DEF changed
  <2> QED BY <1>2, <1>7 DEF Exchanged
<1> HIDE DEF documents
<1>9. [t EXCEPT !.documents = documents] =
        [config |-> t.config, documents |-> documents, chunks |-> t.chunks, edges |-> t.edges]
  BY DEF Formed, Shape
<1>10. u = [config |-> t.config, documents |-> documents, chunks |-> t.chunks, edges |-> t.edges]
  BY <1>2, <1>8 DEF Formed, Shape, Exchanged
<1> QED BY <1>3, <1>6, <1>9, <1>10 DEF s, row

LEMMA RelationReplays ==
    ASSUME NEW t, Shape(t), NEW kind, NEW from, NEW to
    PROVE  /\ Replay(t, RelationLog(t, kind, from, to)) = RemoveRelation(t, kind, from, to)
           /\ IsSeq(RelationLog(t, kind, from, to))
<1> DEFINE s == [op |-> "delete_relation", relation |-> <<kind, from, to>>]
<1>1. CASE \E i \in DOMAIN t.edges : IsRelation(t.edges[i], kind, from, to)
  <2>1. RelationLog(t, kind, from, to) = <<s>>
    BY <1>1 DEF RelationLog
  <2>2. s.op = "delete_relation" /\ s.relation = <<kind, from, to>>
    OBVIOUS
  <2> HIDE DEF s
  <2> DEFINE keep == [n \in DOMAIN t.edges |->
                        <<t.edges[n].kind, t.edges[n].from, t.edges[n].to>> # s.relation]
             hold == [n \in DOMAIN t.edges |-> ~IsRelation(t.edges[n], kind, from, to)]
  <2>3. keep = hold
    <3>1. \A n \in DOMAIN t.edges :
            (<<t.edges[n].kind, t.edges[n].from, t.edges[n].to>> # s.relation)
              = ~IsRelation(t.edges[n], kind, from, to)
      BY <2>2 DEF IsRelation
    <3> QED BY <3>1
  <2>4. Execute(t, s) = [t EXCEPT !.edges = Kept(t.edges, keep)]
    BY <2>2 DEF Execute, Where
  <2>5. RemoveRelation(t, kind, from, to) = [t EXCEPT !.edges = Kept(t.edges, hold)]
    BY DEF RemoveRelation, Where
  <2> HIDE DEF keep, hold
  <2> QED BY <2>1, <2>3, <2>4, <2>5, ReplayOne, SeqOne
<1>2. CASE ~\E i \in DOMAIN t.edges : IsRelation(t.edges[i], kind, from, to)
  <2>1. RelationLog(t, kind, from, to) = <<>>
    BY <1>2 DEF RelationLog
  <2> DEFINE E == OtherRelations(t, kind, from, to)
  <2>2. RemoveRelation(t, kind, from, to) = [t EXCEPT !.edges = Only(t.edges, E)] /\ IsSeq(t.edges)
    BY RemoveRelationIs DEF Shape
  <2>3. ToSet(t.edges) \subseteq E
    BY <1>2 DEF OtherRelations, ToSet
  <2> HIDE DEF E
  <2>4. Only(t.edges, E) = t.edges
    BY <2>2, <2>3, OnlyAll
  <2>5. RemoveRelation(t, kind, from, to) = t
    BY <2>2, <2>4 DEF Shape
  <2> QED BY <2>1, <2>5, ReplayNone, SeqNone
<1> QED BY <1>1, <1>2

\* No request's column holds i64::MIN, which the SQL text of a row cannot say.
LegibleRequests == \A r \in Requests : Legible(r.field)

LEMMA ReplayStep ==
    ASSUME LegibleRequests, Formed(tables), replica = tables, EngineStep
    PROVE  replica' = tables'
<1>0. Shape(tables)
  BY DEF Formed
<1>1. ASSUME NEW r \in Requests, AppendDocument(r) PROVE replica' = tables'
  <2>1. tables' = With(tables, r) /\ replica' = Replay(tables, NewLog(tables, r))
    BY <1>1, AppendMakes
  <2>2. Legible(r.field)
    BY DEF LegibleRequests
  <2> QED BY <1>0, <2>1, <2>2, NewLogMakes
<1>2. ASSUME NEW r \in Requests, ReplaceDocument(r) PROVE replica' = tables'
  <2> DEFINE u == Without(tables, r.id)
             log == RemovalLog(tables, r.id)
             more == NewLog(u, r)
  <2>1. /\ tables' = With(u, r) /\ Formed(u) /\ replica' = Replay(replica, log \o more)
    BY <1>2, ReplaceMakes
  <2>2. Replay(tables, log) = u /\ IsSeq(log) /\ IsSeq(more)
    BY <1>0, RemovalLogMakes, NewLogIsSeq
  <2>3. Replay(u, more) = With(u, r)
    <3>1. Legible(r.field) /\ Shape(u)
      BY <2>1 DEF LegibleRequests, Formed
    <3> HIDE DEF u
    <3> QED BY <3>1, NewLogMakes
  <2> HIDE DEF u, log, more
  <2>4. Replay(tables, log \o more) = Replay(Replay(tables, log), more)
    BY <2>2, ReplayBoth
  <2> QED BY <2>1, <2>2, <2>3, <2>4
<1>3. ASSUME NEW r \in Requests, UpdateMetadata(r.id, r.meta, r.field) PROVE replica' = tables'
  <2> DEFINE row == UpdatedRow(tables, r.id, r.meta, r.field)
  <2>1. /\ Intact(tables, r.id) /\ Formed(tables') /\ tables'.config = tables.config
        /\ Exchanged(tables, tables', r.id, row)
        /\ replica' = Replay(tables, <<[op |-> "update", row |-> row]>>)
    BY <1>3, UpdateMakes
  <2>2. Exists(tables, r.id) /\ Legible(r.field)
    BY <2>1 DEF Intact, LegibleRequests
  <2> QED BY <2>1, <2>2, UpdateReplays
<1>4. ASSUME NEW d, DeleteDocument(d) PROVE replica' = tables'
  BY <1>0, <1>4, DeleteMakes, RemovalLogMakes
<1>5. ASSUME NEW kind, NEW from, NEW to, NEW weight, UpsertRelationship(kind, from, to, weight)
      PROVE  replica' = tables'
  <2> DEFINE rest == RemoveRelation(tables, kind, from, to)
             e == Edge(from, to, kind, weight)
             log == RelationLog(tables, kind, from, to)
             s == Insert("edges", <<e>>)
  <2>1. /\ Formed(tables') /\ tables'.config = tables.config
        /\ tables'.chunks = tables.chunks /\ tables'.documents = tables.documents
        /\ tables'.edges = Append(rest.edges, e)
        /\ replica' = Replay(tables, log \o <<s>>)
    BY <1>5, UpsertMakes
  <2>2. Replay(tables, log) = rest /\ IsSeq(log)
    BY <1>0, RelationReplays
  <2>3. /\ Shape(rest) /\ rest.config = tables.config
        /\ rest.documents = tables.documents /\ rest.chunks = tables.chunks
    BY <1>0, RemoveRelationElements
  <2>4. Execute(rest, s) = [rest EXCEPT !.edges = rest.edges \o <<e>>]
    <3> HIDE DEF rest, e
    <3> QED BY ExecuteInserts
  <2> HIDE DEF rest, e, log, s
  <2>5. rest.edges \o <<e>> = Append(rest.edges, e) /\ IsSeq(rest.edges)
    BY <2>3, ConcatOne DEF Shape
  <2> DEFINE E == Append(rest.edges, e)
  <2>6. Execute(rest, s) = [rest EXCEPT !.edges = E]
    BY <2>4, <2>5
  <2>7. tables'.edges = E
    BY <2>1
  <2> HIDE DEF E
  <2>8. Execute(rest, s) = [config |-> rest.config, documents |-> rest.documents,
                            chunks |-> rest.chunks, edges |-> E]
    BY <2>3, <2>6 DEF Shape
  <2>9. tables' = [config |-> tables.config, documents |-> tables.documents,
                   chunks |-> tables.chunks, edges |-> E]
    BY <2>1, <2>7 DEF Formed, Shape
  <2>10. Replay(tables, log \o <<s>>) = Execute(rest, s)
    BY <2>2, ReplayBoth, ReplayOne, SeqOne
  <2> QED BY <2>1, <2>3, <2>8, <2>9, <2>10
<1>6. ASSUME NEW kind, NEW from, NEW to, DeleteRelationship(kind, from, to)
      PROVE  replica' = tables'
  BY <1>0, <1>6, DeleteRelationMakes, RelationReplays
<1>7. ASSUME NEW p, CreateCollection(p) PROVE replica' = tables'
  <2> DEFINE s == [op |-> "create", config |-> p]
  <2>1. tables' = Empty(p) /\ replica' = Replay(replica, <<s>>)
    BY <1>7, CreateMakes
  <2>2. s.op = "create" /\ s.config = p
    OBVIOUS
  <2> HIDE DEF s
  <2>3. Execute(replica, s) = Empty(p)
    BY <2>2 DEF Execute
  <2> QED BY <2>1, <2>3, ReplayOne
<1> QED BY <1>1, <1>2, <1>3, <1>4, <1>5, <1>6, <1>7 DEF EngineStep

LEMMA ReplayNextStep ==
    ASSUME LegibleRequests, Reading, Formed(tables), replica = tables, [Next]_vars
    PROVE  replica' = tables'
<1>1. CASE SqlEdit
  <2> DEFINE s == [op |-> "edit", tables |-> tables']
  <2>1. replica' = Replay(replica, <<s>>)
    BY <1>1, EditMakes
  <2>2. s.op = "edit" /\ s.tables = tables'
    OBVIOUS
  <2> HIDE DEF s
  <2>3. Execute(replica, s) = tables'
    BY <2>2 DEF Execute
  <2> QED BY <2>1, <2>3, ReplayOne
<1> QED BY <1>1, ReplayStep, Steps

\* Executing the SQL text of every committed change gives the rows in memory, as
\* long as no document's column holds i64::MIN: the statements that the operations
\* of src/engine/graph.rs log, and Database::recover.
THEOREM ReplaysAgree == ASSUME LegibleRequests PROVE Spec => []ReplayAgrees
<1>1. Init => ReplayAgrees
  BY DEF Init, ReplayAgrees
<1>2. Reading /\ Formed(tables) /\ ReplayAgrees /\ [Next]_vars => ReplayAgrees'
  BY ReplayNextStep DEF ReplayAgrees
<1> QED BY <1>1, <1>2, ReadingAlways, FormedAlways, PTL DEF Spec

-----------------------------------------------------------------------------
(***************************************************************************)
(* A document that passed the checks before embedding is not refused when   *)
(* nothing was written since.  The ids of edges: the engine's name their    *)
(* relation, an edge made with SQL has an id of its own.                    *)
(***************************************************************************)
OwnId(id) == \E i : id = <<"own", i>>
EdgeForm(e) ==
    /\ DOMAIN e = {"id", "from", "to", "kind", "weight"}
    /\ e.id = <<e.kind, e.from, e.to>> \/ OwnId(e.id)

Edged(t) == Identified(t.edges) /\ \A e \in ToSet(t.edges) : EdgeForm(e)

LEMMA TripleIs ==
    ASSUME NEW a, NEW b, NEW c
    PROVE  /\ \A x, y, z : <<a, b, c>> = <<x, y, z>> => a = x /\ b = y /\ c = z
           /\ ~OwnId(<<a, b, c>>)
<1>1. \A x, y, z : <<a, b, c>> = <<x, y, z>> => a = x /\ b = y /\ c = z
  OBVIOUS
<1>2. \A i : <<a, b, c>> # <<"own", i>>
  <2> TAKE i
  <2>1. Len(<<a, b, c>>) = 3 /\ Len(<<"own", i>>) = 2
    OBVIOUS
  <2> QED BY <2>1
<1> QED BY <1>1, <1>2 DEF OwnId

LEMMA EngineEdge ==
    ASSUME NEW from, NEW to, NEW kind, NEW weight
    PROVE  LET e == Edge(from, to, kind, weight)
           IN  /\ EdgeForm(e) /\ e.id = <<kind, from, to>> /\ ~OwnId(e.id)
               /\ e.from = from /\ e.to = to /\ e.kind = kind
BY TripleIs DEF Edge, EdgeForm

\* An edge with the id of one the engine makes is of that relation.
LEMMA SameRelation ==
    ASSUME NEW e, EdgeForm(e), NEW from, NEW to, NEW kind, NEW weight,
           e.id = Edge(from, to, kind, weight).id
    PROVE  e.kind = kind /\ e.from = from /\ e.to = to
<1>1. e.id = <<kind, from, to>> /\ ~OwnId(e.id)
  BY EngineEdge
<1>2. <<kind, from, to>> = <<e.kind, e.from, e.to>>
  BY <1>1 DEF EdgeForm
<1> QED BY <1>2, TripleIs

LEMMA IdentifiedBothWays ==
    ASSUME NEW from, NEW to, from # to, NEW kind, NEW weight
    PROVE  Identified(BothWays(from, to, kind, weight))
<1> DEFINE e == Edge(from, to, kind, weight)
           f == Edge(to, from, kind, weight)
<1>1. e.id # f.id
  <2>1. e.id = <<kind, from, to>> /\ f.id = <<kind, to, from>>
    BY EngineEdge
  <2> QED BY <2>1, TripleIs
<1>2. BothWays(from, to, kind, weight) = <<e, f>>
  BY DEF BothWays
<1> HIDE DEF e, f
<1>3. Identified(<<e, f>>)
  <2> DEFINE s == <<e, f>>
  <2>1. DOMAIN s = {1, 2} /\ s[1] = e /\ s[2] = f
    OBVIOUS
  <2> HIDE DEF s
  <2>2. Identified(s)
    BY <1>1, <2>1 DEF Identified
  <2> QED BY <2>2 DEF s
<1> QED BY <1>2, <1>3

LEMMA IdentifiedAdjacent == ASSUME NEW r \in Requests PROVE Identified(Adjacent(r))
<1> DEFINE k == Len(Pieces[r.body]) - 1
           at(n) == ChunkId(r.id, n)
           pair(n) == BothWays(at(n), at(n + 1), "adjacent", 100)
           ss == [n \in 1 .. k |-> pair(n)]
<1>1. k \in Nat
  BY PiecesAre
<1>2. Adjacent(r) = FlattenSeq(ss)
  BY DEF Adjacent
<1>3. \A n \in 1 .. k : IsSeq(pair(n)) /\ Identified(pair(n))
  <2> TAKE n \in 1 .. k
  <2>1. n # n + 1 /\ at(n)[2] = n /\ at(n + 1)[2] = n + 1
    BY <1>1, ChunkIdIs
  <2>2. at(n) # at(n + 1)
    BY <2>1
  <2> HIDE DEF at
  <2> QED BY <2>2, BothWaysIs, IdentifiedBothWays
<1>4. ASSUME NEW i \in 1 .. k, NEW j \in 1 .. k, i # j PROVE Disjoint(pair(i), pair(j))
  <2>1. /\ \A x \in ToSet(pair(i)) : x.id = <<"adjacent", at(i), at(i + 1)>>
                                     \/ x.id = <<"adjacent", at(i + 1), at(i)>>
        /\ \A x \in ToSet(pair(j)) : x.id = <<"adjacent", at(j), at(j + 1)>>
                                     \/ x.id = <<"adjacent", at(j + 1), at(j)>>
    BY BothWaysIs, EngineEdge
  <2>2. \A m, n : at(m) = at(n) => m = n
    BY ChunkIdIs
  <2> HIDE DEF at, pair
  <2>3. i # j /\ ~(i = j + 1 /\ i + 1 = j)
    BY <1>1, <1>4
  <2> QED BY <2>1, <2>2, <2>3, TripleIs DEF Disjoint
<1> HIDE DEF pair, k, at
<1>5. IsSeq(ss) /\ Len(ss) = k /\ ToSet(ss) = {pair(n) : n \in 1 .. k}
  <2>1. IsSeq(ss) /\ Len(ss) = k
    <3>1. DOMAIN ss = 1 .. k /\ ss = [i \in 1 .. k |-> ss[i]]
      OBVIOUS
    <3> HIDE DEF ss
    <3> QED BY <1>1, <3>1, SeqIsFunction
  <2> QED BY <2>1 DEF ToSet
<1>6. Separate(ss)
  BY <1>4, <1>5 DEF Separate
<1> HIDE DEF ss
<1>7. \A s \in ToSet(ss) : IsSeq(s) /\ Identified(s)
  BY <1>3, <1>5
<1> QED BY <1>2, <1>5, <1>6, <1>7, IdentifiedFlat

\* Stored chunks that are near, each once and none of the document.
LEMMA IdentifiedNeighbors ==
    ASSUME NEW t, Formed(t), NEW r \in Requests, Appendable(t, r), NEW n \in 1 .. Len(Pieces[r.body])
    PROVE  LET near == Neighbors(t.chunks, Pieces[r.body][n])
           IN  /\ IsSeq(near) /\ Identified(near)
               /\ \A row \in ToSet(near) : row.id[1] # r.id
<1> DEFINE piece == Pieces[r.body][n]
           nearest == Nearest(t.chunks, piece)
           m == Min({SemanticNeighbors, Len(t.chunks)})
<1>1. Comparable(t.chunks, piece)
  BY FormedComparable
<1>2. PICK at : NearestAt(t.chunks, piece, at)
  BY <1>1, NearestPlaces
<1>3. m \in Nat
  <2>1. SemanticNeighbors \in Nat /\ Len(t.chunks) \in Nat
    BY GraphStoreAssumption, SeqDomain DEF Formed, Shape
  <2> QED BY <2>1, MinIs
<1>4. Identified(nearest)
  <2> DEFINE chunks == t.chunks
  <2>1. /\ nearest = [k \in 1 .. m |-> chunks[at[k]]]
        /\ \A k \in 1 .. m : at[k] \in 1 .. Len(chunks) /\ \A j \in 1 .. k - 1 : at[j] # at[k]
    BY <1>2 DEF NearestAt
  <2>2. IsSeq(chunks) /\ Identified(chunks)
    BY DEF Formed, Shape
  <2> HIDE DEF chunks, m, nearest
  <2>3. Identified([k \in 1 .. m |-> chunks[at[k]]])
    BY <1>3, <2>1, <2>2, IdentifiedPlaces
  <2> QED BY <2>1, <2>3
<1>5. IsSeq(nearest) /\ ToSet(nearest) \subseteq ToSet(t.chunks)
  BY <1>1, NearestIsSeq, NearestElements DEF Formed, Shape
<1> DEFINE E == {row \in ToSet(nearest) : Similarity[piece][row.piece] >= Threshold}
           near == Neighbors(t.chunks, piece)
<1>6. near = Only(nearest, E)
  BY <1>5, NeighborsAre
<1> HIDE DEF piece, nearest, E, near
<1>7. IsSeq(near) /\ Identified(near) /\ ToSet(near) \subseteq ToSet(t.chunks)
  BY <1>4, <1>5, <1>6, OnlyElements, IdentifiedOnly
<1>8. ASSUME NEW row \in ToSet(near) PROVE row.id[1] # r.id
  <2>1. ChunkForm(row) /\ row.doc # r.id
    BY <1>7, AppendableIs DEF Formed
  <2> QED BY <2>1, ChunkIdIs DEF ChunkForm
<1> QED BY <1>7, <1>8 DEF near, piece

LEMMA IdentifiedLinks ==
    ASSUME NEW t, Formed(t), NEW r \in Requests, Appendable(t, r), NEW n \in 1 .. Len(Pieces[r.body])
    PROVE  Identified(Links(t.chunks, r, n))
<1> DEFINE piece == Pieces[r.body][n]
           near == Neighbors(t.chunks, piece)
           at == ChunkId(r.id, n)
           w(k) == Similarity[piece][near[k].piece]
           pair(k) == BothWays(at, near[k].id, "semantic", w(k))
           ss == [k \in DOMAIN near |-> pair(k)]
<1>1. IsSeq(near) /\ Identified(near) /\ \A row \in ToSet(near) : row.id[1] # r.id
  BY IdentifiedNeighbors
<1>2. Links(t.chunks, r, n) = FlattenSeq(ss)
  BY DEF Links
<1>3. Len(near) \in Nat /\ DOMAIN near = 1 .. Len(near) /\ \A k \in 1 .. Len(near) : near[k] \in ToSet(near)
  BY <1>1, SeqDomain
<1>4. \A k \in 1 .. Len(near) : at # near[k].id
  BY <1>1, <1>3, ChunkIdIs
<1>5. \A k \in 1 .. Len(near) :
        /\ IsSeq(pair(k)) /\ Identified(pair(k))
        /\ \A x \in ToSet(pair(k)) : x.id = <<"semantic", at, near[k].id>>
                                     \/ x.id = <<"semantic", near[k].id, at>>
  BY <1>4, BothWaysIs, IdentifiedBothWays, EngineEdge
<1> HIDE DEF pair, w, near, at
<1>6. ASSUME NEW i \in 1 .. Len(near), NEW j \in 1 .. Len(near), i # j
      PROVE  Disjoint(pair(i), pair(j))
  <2>1. near[i].id # near[j].id /\ at # near[i].id /\ at # near[j].id
    BY <1>1, <1>3, <1>4, <1>6 DEF Identified
  <2> QED BY <1>5, <2>1, TripleIs DEF Disjoint
<1>7. IsSeq(ss) /\ Len(ss) = Len(near) /\ ToSet(ss) = {pair(k) : k \in 1 .. Len(near)}
  <2>1. IsSeq(ss) /\ Len(ss) = Len(near)
    <3>1. DOMAIN ss = 1 .. Len(near) /\ ss = [i \in 1 .. Len(near) |-> ss[i]]
      BY <1>3
    <3> HIDE DEF ss
    <3> QED BY <1>3, <3>1, SeqIsFunction
  <2> QED BY <1>3, <2>1 DEF ToSet
<1>8. Separate(ss)
  BY <1>3, <1>6, <1>7 DEF Separate
<1> HIDE DEF ss
<1>9. \A s \in ToSet(ss) : IsSeq(s) /\ Identified(s)
  BY <1>5, <1>7
<1> QED BY <1>2, <1>7, <1>8, <1>9, IdentifiedFlat

\* An edge between a chunk of the document and a stored chunk.
LEMMA SemanticEdge ==
    ASSUME NEW t, Formed(t), NEW r \in Requests, Appendable(t, r), NEW n \in 1 .. Len(Pieces[r.body]),
           NEW e \in ToSet(Links(t.chunks, r, n))
    PROVE  /\ EdgeForm(e)
           /\ \E id : id[1] # r.id /\ ( \/ e.id = <<"semantic", ChunkId(r.id, n), id>>
                                       \/ e.id = <<"semantic", id, ChunkId(r.id, n)>> )
<1>1. PICK row \in ToSet(Neighbors(t.chunks, Pieces[r.body][n])) : Joins(e, ChunkId(r.id, n), row)
  BY LinksAre DEF Formed, Shape
<1>2. row.id[1] # r.id
  BY IdentifiedNeighbors
<1> DEFINE at == ChunkId(r.id, n)
           id == row.id
<1>3. PICK w : e = Edge(at, id, "semantic", w) \/ e = Edge(id, at, "semantic", w)
  BY <1>1 DEF Joins
<1> HIDE DEF at, id
<1>4. EdgeForm(e) /\ (e.id = <<"semantic", at, id>> \/ e.id = <<"semantic", id, at>>)
  BY <1>3, EngineEdge
<1> QED BY <1>2, <1>4 DEF at, id

LEMMA IdentifiedSemantic ==
    ASSUME NEW t, Formed(t), NEW r \in Requests, Appendable(t, r)
    PROVE  Identified(Semantic(t, r))
<1> DEFINE k == Len(Pieces[r.body])
           ss == [n \in 1 .. k |-> Links(t.chunks, r, n)]
<1>1. k \in Nat /\ DOMAIN Pieces[r.body] = 1 .. k
  BY PiecesAre
<1>2. Semantic(t, r) = FlattenSeq(ss)
  BY <1>1 DEF Semantic
<1>3. \A n \in 1 .. k : IsSeq(Links(t.chunks, r, n)) /\ Identified(Links(t.chunks, r, n))
  BY LinksAre, IdentifiedLinks DEF Formed, Shape
<1>4. ASSUME NEW i \in 1 .. k, NEW j \in 1 .. k, i # j
      PROVE  Disjoint(Links(t.chunks, r, i), Links(t.chunks, r, j))
  <2> SUFFICES ASSUME NEW x \in ToSet(Links(t.chunks, r, i)), NEW y \in ToSet(Links(t.chunks, r, j)),
                      x.id = y.id
               PROVE  FALSE
    BY DEF Disjoint
  <2> DEFINE a == ChunkId(r.id, i)
             b == ChunkId(r.id, j)
  <2>1. a # b /\ a[1] = r.id /\ b[1] = r.id
    BY <1>4, ChunkIdIs
  <2>2. PICK p : p[1] # r.id /\ (x.id = <<"semantic", a, p>> \/ x.id = <<"semantic", p, a>>)
    BY SemanticEdge
  <2>3. PICK q : q[1] # r.id /\ (y.id = <<"semantic", b, q>> \/ y.id = <<"semantic", q, b>>)
    BY SemanticEdge
  <2> HIDE DEF a, b
  <2> QED BY <2>1, <2>2, <2>3, TripleIs
<1> HIDE DEF k
<1>5. IsSeq(ss) /\ Len(ss) = k /\ ToSet(ss) = {Links(t.chunks, r, n) : n \in 1 .. k}
  <2>1. IsSeq(ss) /\ Len(ss) = k
    <3>1. DOMAIN ss = 1 .. k /\ ss = [i \in 1 .. k |-> ss[i]]
      OBVIOUS
    <3> HIDE DEF ss
    <3> QED BY <1>1, <3>1, SeqIsFunction
  <2> QED BY <2>1 DEF ToSet
<1>6. Separate(ss)
  BY <1>4, <1>5 DEF Separate
<1> HIDE DEF ss
<1>7. \A s \in ToSet(ss) : IsSeq(s) /\ Identified(s)
  BY <1>3, <1>5
<1> QED BY <1>2, <1>5, <1>6, <1>7, IdentifiedFlat

LEMMA AdjacentEdge ==
    ASSUME NEW r \in Requests, NEW e \in ToSet(Adjacent(r))
    PROVE  /\ EdgeForm(e)
           /\ \E x, y : x[1] = r.id /\ y[1] = r.id /\ e.id = <<"adjacent", x, y>>
<1>1. PICK n : \/ e = Edge(ChunkId(r.id, n), ChunkId(r.id, n + 1), "adjacent", 100)
               \/ e = Edge(ChunkId(r.id, n + 1), ChunkId(r.id, n), "adjacent", 100)
  BY AdjacentIs
<1> DEFINE a == ChunkId(r.id, n)
           b == ChunkId(r.id, n + 1)
<1>2. a[1] = r.id /\ b[1] = r.id
  BY ChunkIdIs
<1> HIDE DEF a, b
<1>3. e = Edge(a, b, "adjacent", 100) \/ e = Edge(b, a, "adjacent", 100)
  BY <1>1 DEF a, b
<1> QED BY <1>2, <1>3, EngineEdge

LEMMA EdgedWith ==
    ASSUME NEW t, Formed(t), Edged(t), NEW r \in Requests, Appendable(t, r)
    PROVE  Edged(With(t, r))
<1> DEFINE near == Adjacent(r)
           far == Semantic(t, r)
           old == t.edges
<1>1. With(t, r).edges = (old \o near) \o far
  BY WithIs DEF Formed
<1>2. IsSeq(old) /\ Identified(old) /\ \A e \in ToSet(old) : EdgeForm(e) /\ e.from[1] # r.id /\ e.to[1] # r.id
  BY AppendableIs DEF Formed, Shape, Edged
<1>3. /\ IsSeq(near) /\ Identified(near)
      /\ \A e \in ToSet(near) : EdgeForm(e)
            /\ \E x, y : x[1] = r.id /\ y[1] = r.id /\ e.id = <<"adjacent", x, y>>
  BY AdjacentIs, IdentifiedAdjacent, AdjacentEdge
<1>4. IsSeq(far) /\ Identified(far)
  BY SemanticIs, IdentifiedSemantic DEF Formed, Shape
<1>5. ASSUME NEW e \in ToSet(far)
      PROVE  EdgeForm(e) /\ \E x, y : (x[1] = r.id \/ y[1] = r.id) /\ e.id = <<"semantic", x, y>>
  <2>1. PICK n \in 1 .. Len(Pieces[r.body]) : e \in ToSet(Links(t.chunks, r, n))
    BY SemanticIs DEF Formed, Shape
  <2> DEFINE at == ChunkId(r.id, n)
  <2>2. EdgeForm(e) /\ \E id : e.id = <<"semantic", at, id>> \/ e.id = <<"semantic", id, at>>
    BY <2>1, SemanticEdge
  <2>3. at[1] = r.id
    BY ChunkIdIs
  <2> HIDE DEF at
  <2> QED BY <2>2, <2>3
<1> HIDE DEF near, far, old
<1>6. ASSUME NEW e, EdgeForm(e), e.from[1] # r.id, e.to[1] # r.id, NEW kind, NEW x, NEW y,
             x[1] = r.id \/ y[1] = r.id
      PROVE  e.id # <<kind, x, y>>
  <2> SUFFICES ASSUME e.id = <<kind, x, y>> PROVE FALSE
    OBVIOUS
  <2>1. ~OwnId(e.id)
    BY TripleIs
  <2>2. <<kind, x, y>> = <<e.kind, e.from, e.to>>
    BY <1>6, <2>1 DEF EdgeForm
  <2>3. x = e.from /\ y = e.to
    BY <2>2, TripleIs
  <2> QED BY <1>6, <2>3
<1>7. Disjoint(old, near)
  BY <1>2, <1>3, <1>6 DEF Disjoint
<1>8. Disjoint(old, far)
  BY <1>2, <1>5, <1>6 DEF Disjoint
<1>9. Disjoint(near, far)
  BY <1>3, <1>5, TripleIs DEF Disjoint
<1>10. /\ IsSeq(old \o near) /\ ToSet(old \o near) = ToSet(old) \cup ToSet(near)
       /\ Identified(old \o near)
  BY <1>2, <1>3, <1>7, SeqConcat, IdentifiedConcat
<1> DEFINE both == old \o near
<1>11. /\ IsSeq(both) /\ Identified(both) /\ Disjoint(both, far)
       /\ \A e \in ToSet(both) : EdgeForm(e)
  BY <1>2, <1>3, <1>8, <1>9, <1>10 DEF Disjoint
<1>12. With(t, r).edges = both \o far
  BY <1>1
<1> HIDE DEF both
<1>13. Identified(both \o far) /\ \A e \in ToSet(both \o far) : EdgeForm(e)
  BY <1>4, <1>5, <1>11, SeqConcat, IdentifiedConcat
<1> QED BY <1>12, <1>13 DEF Edged

\* Rows with ids of their own have as many ids as rows.
LEMMA IdentifiedIds == ASSUME NEW s, IsSeq(s), Identified(s) PROVE DistinctIds(s)
<1> DEFINE n == Len(s)
           ids == IdsOf(s)
           f == [i \in 1 .. n |-> s[i].id]
<1>1. n \in Nat /\ DOMAIN s = 1 .. n
  BY SeqDomain
<1>2. f \in Surjection(1 .. n, ids) /\ f \in Injection(1 .. n, ids)
  <2>1. ids = {s[i].id : i \in 1 .. n}
    BY <1>1 DEF IdsOf
  <2>2. \A i, j \in 1 .. n : f[i] = f[j] => i = j
    BY <1>1 DEF Identified
  <2>3. f \in [1 .. n -> ids] /\ \A x \in ids : \E i \in 1 .. n : f[i] = x
    BY <2>1
  <2> HIDE DEF f, ids, n
  <2> QED BY <2>2, <2>3 DEF Surjection, Injection, IsInjective
<1>3. IsFiniteSet(1 .. n) /\ Cardinality(1 .. n) = n
  <2> HIDE DEF n
  <2>1. n \in Int /\ 1 \in Int /\ (IF 1 > n THEN 0 ELSE n - 1 + 1) = n
    BY <1>1
  <2> QED BY <2>1, FS_Interval
<1> HIDE DEF f, ids, n
<1>4. Cardinality(ids) = n
  BY <1>2, <1>3, FS_Surjection
<1> QED BY <1>4 DEF DistinctIds, ids, n

LEMMA EdgedEmpty == ASSUME NEW p PROVE Edged(Empty(p))
BY SeqNone, IdentifiedOne DEF Edged, Empty

\* Edges that are taken away.
LEMMA EdgedOnly ==
    ASSUME NEW t, Shape(t), Edged(t), NEW set, NEW u, u.edges = Only(t.edges, set)
    PROVE  Edged(u)
<1>1. /\ Identified(Only(t.edges, set)) /\ ToSet(Only(t.edges, set)) \subseteq ToSet(t.edges)
  BY IdentifiedOnly, OnlyElements DEF Shape, Edged
<1> QED BY <1>1 DEF Edged

LEMMA EdgedWithout == ASSUME NEW t, Shape(t), Edged(t), NEW d PROVE Edged(Without(t, d))
<1> DEFINE ids == DocumentChunkIds(t, d)
           E == {e \in ToSet(t.edges) : ~Touches(e, ids)}
           u == Without(t, d)
<1>1. u.edges = Apart(t.edges, ids)
  BY WithoutIs
<1> HIDE DEF ids, u
<1>2. u.edges = Only(t.edges, E)
  BY <1>1, ApartIs DEF Shape
<1> HIDE DEF E
<1>3. Edged(u)
  BY <1>2, EdgedOnly
<1> QED BY <1>3 DEF u

LEMMA EdgedRemoveRelation ==
    ASSUME NEW t, Shape(t), Edged(t), NEW kind, NEW from, NEW to
    PROVE  Edged(RemoveRelation(t, kind, from, to))
<1> DEFINE E == OtherRelations(t, kind, from, to)
           u == RemoveRelation(t, kind, from, to)
           edges == Only(t.edges, E)
<1>1. u = [t EXCEPT !.edges = edges]
  BY RemoveRelationIs DEF Shape
<1>2. t = [config |-> t.config, documents |-> t.documents, chunks |-> t.chunks, edges |-> t.edges]
  BY DEF Shape
<1> HIDE DEF edges, E, u
<1>3. u.edges = edges
  BY <1>1, <1>2
<1>4. Edged(u)
  BY <1>3, EdgedOnly DEF edges
<1> QED BY <1>4 DEF u

LEMMA EdgedUpsert ==
    ASSUME NEW t, Shape(t), Edged(t), NEW kind, NEW from, NEW to, NEW weight, NEW u,
           u.edges = Append(RemoveRelation(t, kind, from, to).edges, Edge(from, to, kind, weight))
    PROVE  Edged(u)
<1> DEFINE rest == RemoveRelation(t, kind, from, to)
           new == Edge(from, to, kind, weight)
<1>1. Shape(rest) /\ Edged(rest) /\ \A e \in ToSet(rest.edges) : ~IsRelation(e, kind, from, to)
  BY EdgedRemoveRelation, RemoveRelationElements
<1>2. EdgeForm(new)
  BY EngineEdge
<1>3. ASSUME NEW e \in ToSet(rest.edges) PROVE e.id # new.id
  <2> SUFFICES ASSUME e.id = new.id PROVE FALSE
    OBVIOUS
  <2>1. EdgeForm(e)
    BY <1>1 DEF Edged
  <2>2. e.kind = kind /\ e.from = from /\ e.to = to
    BY <2>1, SameRelation
  <2> QED BY <1>1, <2>2 DEF IsRelation
<1>4. u.edges = Append(rest.edges, new)
  OBVIOUS
<1> HIDE DEF rest, new
<1>5. /\ Identified(Append(rest.edges, new))
      /\ ToSet(Append(rest.edges, new)) = ToSet(rest.edges) \cup {new}
  BY <1>1, <1>3, IdentifiedAppend, SeqAppend DEF Shape, Edged
<1> QED BY <1>1, <1>2, <1>4, <1>5 DEF Edged

LEMMA EdgedEdit == ASSUME Formed(tables), Edged(tables), SqlEdit PROVE Edged(tables')
<1>0. tables = [config |-> tables.config, documents |-> tables.documents,
                chunks |-> tables.chunks, edges |-> tables.edges]
  BY DEF Formed, Shape
<1>1. ASSUME NEW t, NEW touched, Edit(t, touched) PROVE tables' = t
  BY <1>1 DEF Edit, Commit
<1>2. CASE tables'.edges = tables.edges
  BY <1>2 DEF Edged
<1>3. CASE EditChunks
  <2>1. \E s : tables' = [tables EXCEPT !.chunks = s]
    BY <1>1, <1>3 DEF EditChunks
  <2>2. tables'.edges = tables.edges
    BY <1>0, <2>1
  <2> QED BY <1>2, <2>2
<1>4. CASE DeleteDocumentRow
  <2>1. \E s, q : tables' = [tables EXCEPT !.documents = s]
                  \/ tables' = [[tables EXCEPT !.documents = s] EXCEPT !.chunks = q]
    BY <1>1, <1>4 DEF DeleteDocumentRow
  <2>2. tables'.edges = tables.edges
    BY <1>0, <2>1
  <2> QED BY <1>2, <2>2
<1>5. CASE DuplicateEdge
  <2> DEFINE new(i) == [tables.edges[i] EXCEPT !.id = <<"own", i>>]
  <2>1. PICK i \in DOMAIN tables.edges :
          /\ <<"own", i>> \notin IdsOf(tables.edges)
          /\ tables' = [tables EXCEPT !.edges = Append(tables.edges, new(i))]
    BY <1>1, <1>5 DEF DuplicateEdge
  <2>2. IsSeq(tables.edges) /\ tables.edges[i] \in ToSet(tables.edges)
    BY SeqDomain DEF Formed, Shape
  <2>3. EdgeForm(tables.edges[i])
    BY <2>2 DEF Edged
  <2>4. EdgeForm(new(i)) /\ new(i).id = <<"own", i>>
    BY <2>3 DEF EdgeForm, OwnId
  <2>5. \A y \in ToSet(tables.edges) : y.id # <<"own", i>>
    BY <2>1, <2>2, IdsAre
  <2> DEFINE x == new(i)
             edges == Append(tables.edges, x)
  <2>6. tables' = [tables EXCEPT !.edges = edges]
    BY <2>1
  <2> HIDE DEF new, x
  <2>7. IsSeq(edges) /\ ToSet(edges) = ToSet(tables.edges) \cup {x} /\ Identified(edges)
    BY <2>2, <2>4, <2>5, SeqAppend, IdentifiedAppend DEF Edged, x
  <2>8. \A y \in ToSet(edges) : EdgeForm(y)
    BY <2>4, <2>7 DEF Edged, x
  <2> HIDE DEF edges
  <2>9. tables'.edges = edges
    BY <1>0, <2>6
  <2> QED BY <2>7, <2>8, <2>9 DEF Edged
<1>6. CASE DropCollection
  BY <1>1, <1>6, EdgedEmpty DEF DropCollection
<1> QED BY <1>3, <1>4, <1>5, <1>6 DEF SqlEdit

LEMMA EdgedNext == ASSUME Reading, Formed(tables), Edged(tables), [Next]_vars PROVE Edged(tables')
<1>1. CASE tables' = tables
  BY <1>1
<1>2. ASSUME NEW r \in Requests, AppendDocument(r) PROVE Edged(tables')
  BY <1>2, AppendMakes, EdgedWith
<1>3. ASSUME NEW r \in Requests, ReplaceDocument(r) PROVE Edged(tables')
  <2> DEFINE u == Without(tables, r.id)
  <2>1. tables' = With(u, r) /\ Formed(u) /\ Appendable(u, r)
    BY <1>3, ReplaceMakes
  <2>2. Edged(u)
    BY EdgedWithout DEF Formed
  <2> HIDE DEF u
  <2> QED BY <2>1, <2>2, EdgedWith
<1>4. ASSUME NEW d, NEW meta, NEW field, UpdateMetadata(d, meta, field) PROVE Edged(tables')
  <2>1. tables'.edges = tables.edges
    BY <1>4, UpdateMakes DEF Exchanged
  <2> QED BY <2>1 DEF Edged
<1>5. ASSUME NEW d, DeleteDocument(d) PROVE Edged(tables')
  BY <1>5, DeleteMakes, EdgedWithout DEF Formed
<1>6. ASSUME NEW kind, NEW from, NEW to, NEW weight, UpsertRelationship(kind, from, to, weight)
      PROVE  Edged(tables')
  <2> DEFINE u == tables'
  <2>1. u.edges = Append(RemoveRelation(tables, kind, from, to).edges, Edge(from, to, kind, weight))
    BY <1>6, UpsertMakes
  <2>2. Shape(tables)
    BY DEF Formed
  <2> HIDE DEF u
  <2>3. Edged(u)
    BY <2>1, <2>2, EdgedUpsert
  <2> QED BY <2>3 DEF u
<1>7. ASSUME NEW kind, NEW from, NEW to, DeleteRelationship(kind, from, to) PROVE Edged(tables')
  BY <1>7, DeleteRelationMakes, EdgedRemoveRelation DEF Formed
<1>8. ASSUME NEW p, CreateCollection(p) PROVE Edged(tables')
  BY <1>8, CreateMakes, EdgedEmpty
<1>9. CASE SqlEdit
  BY <1>9, EdgedEdit
<1> QED BY <1>1, <1>2, <1>3, <1>4, <1>5, <1>6, <1>7, <1>8, <1>9, Steps DEF EngineStep

\* A request that embeds or waits to write has passed the checks, if nothing was
\* written since.
Passing == {"embed", "append", "replace"}
Passed(c) ==
    client[c].at \in Passing /\ client[c].revision = revision
      => CheckCapacity(tables, client[c].request)

\* How a request comes to such a stage.
LEMMA PassingStep ==
    ASSUME Reading, NEW c \in Clients, Request(c), client'[c].at \in Passing
    PROVE  /\ Untouched
           /\ client'[c].request = client[c].request /\ client'[c].revision = client[c].revision
           /\ client[c].at \in Passing \/ CheckCapacity(tables, client[c].request)
<1>1. DOMAIN client = Clients
  BY DEF Reading
<1>2. ~End(c)
  BY <1>1 DEF End, Idle, Passing
<1>3. ASSUME NEW at, Goto(c, at), client[c].at # "idle"
      PROVE  /\ client'[c].at = at
             /\ client'[c].request = client[c].request /\ client'[c].revision = client[c].revision
  <2>1. client'[c] = [client[c] EXCEPT !.at = at]
    BY <1>1, <1>3 DEF Goto
  <2>2. DOMAIN client[c] = Fields
    BY <1>3 DEF Reading, Current
  <2> QED BY <2>1, <2>2 DEF Fields
<1>4. CASE \E r \in Requests : ReadCollection(c, r)
  BY <1>1, <1>4 DEF ReadCollection, Passing
<1>5. CASE ReadDocument(c) \/ Recheck(c) \/ Answer(c) \/ RequestUpdate(c)
  BY <1>2, <1>3, <1>5 DEF ReadDocument, Recheck, Answer, RequestUpdate, OrRefused, Passing
<1>6. CASE CheckRequest(c)
  BY <1>2, <1>3, <1>6 DEF CheckRequest, KeepTables, Untouched
<1>7. CASE \E p \in Profiles : Embed(c, p)
  BY <1>2, <1>3, <1>7 DEF Embed, KeepTables, Untouched, Passing
<1>8. CASE RequestAppend(c)
  BY <1>2, <1>3, <1>8 DEF RequestAppend, OrRefused, KeepTables, Untouched, Passing
<1>9. CASE RequestReplace(c)
  BY <1>2, <1>9 DEF RequestReplace, OrRefused
<1> QED BY <1>4, <1>5, <1>6, <1>7, <1>8, <1>9 DEF Request

LEMMA PassedNext ==
    ASSUME Reading, \A c \in Clients : Passed(c), [Next]_vars
    PROVE  \A c \in Clients : Passed(c)'
<1>1. CASE UNCHANGED vars
  BY <1>1 DEF vars, Passed
<1>2. ASSUME NEW c \in Clients, client'[c] = client[c], Untouched \/ Committed
      PROVE  Passed(c)'
  <2>1. client[c].at \in Passing => client[c].revision \in Nat /\ client[c].revision <= revision
    BY DEF Reading, Current, Passing
  <2>2. CASE Untouched
    BY <1>2, <2>2 DEF Passed, Untouched
  <2>3. CASE Committed
    <3>1. revision \in Nat /\ revision' = revision + 1
      BY <2>3 DEF Reading, Committed
    <3>2. client[c].at \in Passing => client[c].revision # revision'
      BY <2>1, <3>1
    <3> QED BY <1>2, <3>2 DEF Passed
  <2> QED BY <1>2, <2>2, <2>3
<1>3. CASE Engine \/ SqlEdit
  BY <1>2, <1>3, EngineCommits, EditCommits DEF Engine, SqlEdit
<1>4. ASSUME NEW d \in Clients, Request(d), NEW c \in Clients PROVE Passed(c)'
  <2>1. CASE c # d
    <3>1. \/ End(d) \/ (\E r \in Requests : ReadCollection(d, r)) \/ \E at : Goto(d, at)
      BY <1>4, RequestStep DEF Waits
    <3>2. client'[c] = client[c]
      BY <2>1, <3>1 DEF Reading, End, ReadCollection, Goto
    <3>3. Untouched \/ Committed
      BY <1>4, RequestStep DEF Waits
    <3> QED BY <1>2, <3>2, <3>3
  <2>2. CASE c = d
    <3> SUFFICES ASSUME client'[c].at \in Passing, client'[c].revision = revision'
                 PROVE  CheckCapacity(tables', client'[c].request)
      BY DEF Passed
    <3>1. /\ Untouched
          /\ client'[c].request = client[c].request /\ client'[c].revision = client[c].revision
          /\ client[c].at \in Passing \/ CheckCapacity(tables, client[c].request)
      BY <1>4, <2>2, PassingStep
    <3>2. CheckCapacity(tables, client[c].request)
      BY <3>1 DEF Passed, Untouched
    <3> QED BY <3>1, <3>2 DEF Untouched
  <2> QED BY <2>1, <2>2
<1> QED BY <1>1, <1>3, <1>4 DEF Next, SqlEdit

-----------------------------------------------------------------------------
(* What is checked is enough for the rows that are made.                     *)

\* The chunks a document leaves when it goes: by document or by id.
LEMMA ChunksLeft ==
    ASSUME NEW t, Formed(t), NEW d
    PROVE  /\ Len(RowsNotOf(t.chunks, d)) = Len(t.chunks) - Len(RowsOf(t.chunks, d))
           /\ Where(t.chunks, LAMBDA row : row.id \notin DocumentChunkIds(t, d)) = RowsNotOf(t.chunks, d)
           /\ Len(t.chunks) \in Nat /\ Len(RowsOf(t.chunks, d)) \in Nat
           /\ Len(RowsNotOf(t.chunks, d)) \in Nat
<1> DEFINE s == t.chunks
           ids == DocumentChunkIds(t, d)
           E == {row \in ToSet(s) : row.doc = d}
           F == {row \in ToSet(s) : row.doc # d}
           G == {row \in ToSet(s) : row.id \notin ids}
<1>1. IsSeq(s)
  BY DEF Formed, Shape
<1>2. RowsOf(s, d) = Only(s, E) /\ RowsNotOf(s, d) = Only(s, F)
  BY <1>1, RowsOfIs, RowsNotOfIs
<1>3. Where(s, LAMBDA row : row.id \notin ids) = Only(s, G)
  <2>1. s \in Seq(ToSet(s)) /\ DOMAIN s = 1 .. Len(s) /\ \A i \in 1 .. Len(s) : s[i] \in ToSet(s)
    BY <1>1, SeqDomain DEF IsSeq
  <2> DEFINE keep == [n \in DOMAIN s |-> s[n].id \notin ids]
  <2>2. \A n \in 1 .. Len(s) : keep[n] = (s[n] \in G)
    BY <2>1
  <2>3. Where(s, LAMBDA row : row.id \notin ids) = Kept(s, keep)
    BY DEF Where
  <2> HIDE DEF keep, G, s, ids
  <2> QED BY <2>1, <2>2, <2>3, OnlyIs
<1>4. ASSUME NEW row \in ToSet(s) PROVE row.id \in ids <=> row.doc = d
  <2>1. \A x \in ToSet(s) : x.id[1] = x.doc
    BY ChunkIdIs DEF Formed, ChunkForm
  <2>2. row.id \in ids <=> \/ \E x \in ToSet(s) : x.doc = d /\ x.id = row.id
                           \/ row.id[1] = d /\ \E e \in ToSet(t.edges) : row.id = e.from \/ row.id = e.to
    BY RemovedIds
  <2> HIDE DEF ids, s
  <2> QED BY <2>1, <2>2
<1>5. Only(s, G) = Only(s, F)
  <2>1. \A x \in ToSet(s) : x \in G <=> x \in F
    BY <1>4
  <2> HIDE DEF s, F, G
  <2> QED BY <1>1, <2>1, OnlySame
<1>6. Len(Only(s, E)) + Len(Only(s, F)) = Len(s)
  <2>1. \A x \in ToSet(s) : x \in E <=> x \notin F
    OBVIOUS
  <2> HIDE DEF s, E, F
  <2> QED BY <1>1, <2>1, OnlyBoth
<1>7. Len(s) \in Nat /\ Len(RowsOf(s, d)) \in Nat /\ Len(RowsNotOf(s, d)) \in Nat
  BY <1>1, RowsOfElements, SeqDomain
<1> HIDE DEF s, ids, E, F, G
<1> QED BY <1>2, <1>3, <1>5, <1>6, <1>7 DEF s, ids

\* The tables with the document are within the limits that were checked.
LEMMA CapacityFits ==
    ASSUME NEW t, Formed(t), Edged(t), NEW r \in Requests, CheckCapacity(t, r)
    PROVE  Within(With(Without(t, r.id), r))
<1> DEFINE u == Without(t, r.id)
           w == With(u, r)
           ids == DocumentChunkIds(t, r.id)
           p == Len(Pieces[r.body])
           left == Len(RowsNotOf(t.chunks, r.id))
           apart == Len(Apart(t.edges, ids))
           others == Len(Others(t.documents, r.id))
           m == Min({SemanticNeighbors, left})
           old == Len(t.chunks)
           rows == Len(RowsOf(t.chunks, r.id))
<1>1. Formed(u) /\ Appendable(u, r) /\ Edged(u)
  BY FormedWithout, WithoutAppendable, EdgedWithout DEF Formed
<1>2. Formed(w) /\ Edged(w)
  BY <1>1, FormedWith, EdgedWith
<1>3. /\ u.documents = Others(t.documents, r.id) /\ u.chunks = RowsNotOf(t.chunks, r.id)
      /\ u.edges = Apart(t.edges, ids)
  BY WithoutIs DEF Formed
<1>4. left = old - rows /\ old \in Nat /\ rows \in Nat /\ left \in Nat
  BY ChunksLeft
<1>5. p \in Nat \ {0} /\ apart \in Nat /\ others \in Nat /\ m \in Nat /\ SemanticNeighbors \in Nat
  <2>1. apart \in Nat /\ others \in Nat
    BY ApartElements, OthersElements, SeqDomain DEF Formed, Shape
  <2>2. SemanticNeighbors \in Nat
    BY GraphStoreAssumption
  <2> HIDE DEF left
  <2> QED BY <1>4, <2>1, <2>2, PiecesAre, MinIs
<1>6. /\ Len(w.documents) = others + 1 /\ Len(w.chunks) = left + p
      /\ Len(w.edges) <= apart + (p - 1) * 2 + p * (m * 2) /\ Len(w.edges) \in Nat
  <2>1. /\ w.documents = Append(u.documents, NewDocument(r, NewChunks(u, r)))
        /\ w.chunks = u.chunks \o NewChunks(u, r)
        /\ w.edges = (u.edges \o Adjacent(r)) \o Semantic(u, r)
    BY <1>1, WithIs DEF Formed
  <2>2. IsSeq(u.documents) /\ IsSeq(u.chunks) /\ IsSeq(u.edges)
    BY <1>1 DEF Formed, Shape
  <2>3. IsSeq(NewChunks(u, r)) /\ Len(NewChunks(u, r)) = p
    BY NewChunksAre
  <2> DEFINE near == Adjacent(r)
             far == Semantic(u, r)
             both == u.edges \o near
  <2>4. IsSeq(near) /\ Len(near) <= (p - 1) * 2 /\ Len(near) \in Nat
    BY AdjacentIs, SeqDomain
  <2>5. IsSeq(far) /\ Len(far) <= p * (m * 2) /\ Len(far) \in Nat
    BY <1>3, <2>2, SemanticIs, SeqDomain
  <2>6. Len(w.documents) = others + 1
    BY <1>3, <2>1, <2>2, SeqAppend
  <2>7. Len(w.chunks) = left + p
    BY <1>3, <2>1, <2>2, <2>3, SeqConcat
  <2> HIDE DEF u, w, near, far
  <2>8. IsSeq(both) /\ Len(both) = Len(u.edges) + Len(near)
    BY <2>2, <2>4, SeqConcat
  <2> HIDE DEF both
  <2>9. Len(w.edges) = Len(both) + Len(far)
    BY <2>1, <2>5, <2>8, SeqConcat DEF both, near, far
  <2>10. Len(u.edges) = apart
    BY <1>3
  <2> DEFINE q == p * (m * 2)
  <2>11. q \in Nat
    BY <1>5
  <2> HIDE DEF q, p, m, apart, others, left
  <2>12. Len(w.edges) <= apart + (p - 1) * 2 + q /\ Len(w.edges) \in Nat
    BY <1>5, <2>4, <2>5, <2>8, <2>9, <2>10, <2>11 DEF q
  <2> QED BY <2>6, <2>7, <2>12 DEF q
<1> DEFINE most == apart + 2 * (p - 1) + p * m * 2
<1>7. old - rows + p <= MaxChunks /\ most <= MaxEdges /\ others + 1 + left + p + most <= MaxText
  <2>1. Fanout(t, r) = p * m * 2
    BY <1>4 DEF Fanout
  <2>2. Len(Where(t.chunks, LAMBDA row : row.id \notin ids)) = left
    BY ChunksLeft
  <2> QED BY <2>1, <2>2 DEF CheckCapacity
<1>8. p * (m * 2) = p * m * 2 /\ p * m \in Nat
  <2> HIDE DEF p, m
  <2> QED BY <1>5
<1>9. MaxChunks \in Nat /\ MaxEdges \in Nat /\ MaxText \in Nat
  BY GraphStoreAssumption
<1>10. DistinctIds(w.documents) /\ DistinctIds(w.chunks) /\ DistinctIds(w.edges)
  BY <1>2, IdentifiedIds DEF Formed, Shape, Edged
<1> HIDE DEF u, w, ids, p, left, apart, others, m, old, rows
<1> DEFINE pm == p * m
<1>11. Len(w.chunks) <= MaxChunks /\ Len(w.edges) <= MaxEdges /\ Text(w) <= MaxText
  <2>1. /\ pm \in Nat /\ most = apart + 2 * (p - 1) + pm * 2
        /\ Len(w.edges) <= apart + (p - 1) * 2 + pm * 2
    BY <1>6, <1>8
  <2> HIDE DEF pm, most
  <2> DEFINE e == Len(w.edges)
             c == Len(w.chunks)
             d == Len(w.documents)
  <2>2. most \in Nat /\ e \in Nat /\ e <= most
    BY <1>5, <1>6, <2>1
  <2>3. c = left + p /\ d = others + 1 /\ left = old - rows /\ c \in Nat /\ d \in Nat
    BY <1>4, <1>5, <1>6
  <2>4. Text(w) = d + c + e
    BY DEF Text
  <2> HIDE DEF e, c, d
  <2>5. c <= MaxChunks
    BY <1>4, <1>5, <1>7, <2>3
  <2>6. e <= MaxEdges
    BY <1>7, <1>9, <2>2
  <2>7. d + c + e <= MaxText
    BY <1>4, <1>5, <1>7, <1>9, <2>2, <2>3
  <2> QED BY <2>4, <2>5, <2>6, <2>7 DEF e, c, d
<1> QED BY <1>10, <1>11 DEF Within, u, w

\* A document that passed the checks before it was embedded is not refused for
\* its size or its field if nothing was written in between: the bounds that
\* check_capacity computes cover the rows and edges that are made of it.
THEOREM CheckedFits == Spec => []CheckedDocumentFits
<1> DEFINE Inv == Edged(tables) /\ \A c \in Clients : Passed(c)
<1>1. Init => Inv
  BY EdgedEmpty DEF Init, Passed, Idle, Passing
<1>2. Reading /\ Formed(tables) /\ Inv /\ [Next]_vars => Inv'
  BY EdgedNext, PassedNext
<1>3. Formed(tables) /\ Reading /\ Inv => CheckedDocumentFits
  <2> SUFFICES ASSUME Formed(tables), Reading, Inv, NEW c \in Clients, client[c].at \in Passing,
                      client[c].revision = revision
               PROVE  LET r == client[c].request
                      IN  IF Appendable(tables, r) THEN Appends(tables, r) ELSE Replaces(tables, r)
    BY DEF CheckedDocumentFits, Passing
  <2> DEFINE r == client[c].request
  <2>1. r \in Requests /\ CheckCapacity(tables, r)
    BY DEF Reading, Current, Passing, Passed
  <2> HIDE DEF r
  <2>2. Within(With(Without(tables, r.id), r))
    BY <2>1, CapacityFits
  <2>3. Appendable(tables, r) => Without(tables, r.id) = tables
    BY <2>1, NothingRemoved
  <2> QED BY <2>1, <2>2, <2>3 DEF Appends, Replaces, r
<1> HIDE DEF Inv
<1> QED BY <1>1, <1>2, <1>3, ReadingAlways, FormedAlways, PTL DEF Spec
=============================================================================
