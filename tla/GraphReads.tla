----------------------------- MODULE GraphReads ----------------------------
(***************************************************************************)
(* What a collection of documents is asked: to cut a document, to explore  *)
(* and retrieve from its graph, to select a context, to check an answer;   *)
(* and what each of them promises.                                         *)
(***************************************************************************)
EXTENDS Requests, Chunking, HybridRetrieval, Selection, Grounding

CONSTANTS ChunkRequests, NeighborhoodRequests, SearchRequests, RagRequests,
          ContextRequests, GroundingRequests

IsList(s) == s \in Seq(Range(s))

ASSUME RequestsAssumption ==
  /\ \A q \in ChunkRequests : q.kind = "chunk"
  /\ \A q \in NeighborhoodRequests : q.kind = "neighborhood"
  /\ \A q \in SearchRequests : q.kind = "search"
  /\ \A q \in RagRequests : q.kind = "rag"
  /\ \A q \in ContextRequests : q.kind = "context"
  /\ \A q \in GroundingRequests : q.kind = "generated"

ASSUME ChunkingAssumption ==
  \A q \in ChunkRequests :
    /\ IsList(q.document) /\ \A line \in Range(q.document) : IsList(line.letters)
    /\ q.config \in [max_characters : Nat, overlap_characters : Nat, max_chunks : Nat]
    /\ ValidConfig(q.config)

(* Letters, tokens and quotations come in lists, and the schema the        *)
(* provider answers by knows three statuses.                               *)
ASSUME GroundingAssumption ==
  /\ MinimumQuote \in Nat
  /\ \A q \in GroundingRequests :
       LET g == q.generated
       IN  /\ IsList(q.sources) /\ \A source \in Range(q.sources) : IsList(source)
           /\ IsList(g.answer) /\ IsList(g.evidence)
           /\ \A e \in Range(g.evidence) : IsList(e.quote)
           /\ g.status \in {"answered", "insufficient_evidence", "clarification_needed"}

(* The checks finalize begins with; chunk ids name candidates.             *)
ASSUME ContextAssumption ==
  \A q \in ContextRequests :
    LET all == q.snapshot.candidates
    IN  /\ IsFiniteSet(all)
        /\ \A c \in all : /\ c.start \in Nat /\ c.end \in Nat /\ c.start <= c.end
                          /\ c.score \in Int /\ c.direction \in Int /\ c.chunk \in Int
        /\ \A c, d \in all : c.chunk = d.chunk => c = d
        /\ q.options \in [limit : Nat, diversity : 0..One, max_context_bytes : Nat,
                          max_per_document : Nat]
        /\ q.snapshot.truncated \in BOOLEAN

(* A stored graph: its edges join its nodes.  The bounds are those that    *)
(* validate admits (engine/graph_neighborhood.rs).                         *)
ASSUME NeighborhoodAssumption ==
  \A q \in NeighborhoodRequests :
    LET nodes == q.graph.nodes
    IN  /\ nodes \subseteq Int /\ IsFiniteSet(q.graph.edges)
        /\ q.graph.edges \subseteq [from : nodes, to : nodes, kind : Int, weight : Int]
        /\ q.bounds \in [root : nodes, max_hops : Nat, neighbor_limit : Nat,
                         max_nodes : Nat \ {0}, max_edges : Nat,
                         direction : {"outgoing", "incoming", "both"}, kind : Int,
                         min_weight : Int]

(* The bounds graph_search admits; weights are not negative (engine/       *)
(* graph.rs:785).                                                          *)
ASSUME SearchAssumption ==
  \A q \in SearchRequests :
    LET nodes == q.graph.nodes
        r == q.bounds
    IN  /\ nodes \subseteq Int /\ IsFiniteSet(nodes) /\ IsFiniteSet(q.graph.edges)
        /\ q.graph.edges \subseteq [from : nodes, to : nodes, kind : Int, weight : Nat]
        /\ \A n \in nodes : r.similarity[n] \in Int
        /\ {r.seed_limit, r.max_hops, r.neighbor_limit, r.max_results} \subseteq Nat
        /\ r.seed_limit <= r.max_results

GraphInit ==
  /\ answer = Pending
  /\ \/ request \in ChunkRequests
     \/ request \in NeighborhoodRequests
     \/ request \in SearchRequests
     \/ request \in RagRequests
     \/ request \in ContextRequests
     \/ request \in GroundingRequests

Chunk ==
  /\ Asked("chunk")
  /\ answer' = ChunkText(request.document, request.config)

Neighborhood ==
  /\ Asked("neighborhood")
  /\ answer' = GraphNeighborhood(request.graph, request.bounds)

Search ==
  /\ Asked("search")
  /\ answer' = GraphSearch(request.graph, request.bounds)

Retrieve ==
  /\ Asked("rag")
  /\ answer' = GraphRagCandidates(request.graph, request.bounds)

SelectContext ==
  /\ Asked("context")
  /\ answer' = FinalizeContext(request.snapshot, request.options)

Ground ==
  /\ Asked("generated")
  /\ answer' = Finalize(request.generated, request.sources, request.grounding, request.style)

GraphNext == Chunk \/ Neighborhood \/ Search \/ Retrieve \/ SelectContext \/ Ground \/ Answered

GraphSpec == GraphInit /\ [][GraphNext]_vars
-----------------------------------------------------------------------------
(* Chunks cut a document: they advance and leave nothing out, none is too  *)
(* long or crosses a heading, overlap stays within what was asked, half    *)
(* the chunk before and its section, a chunk ends at the best boundary in  *)
(* its reach, a document is refused only for its number of chunks, and     *)
(* what is left without the blank ones is what the graph accepts           *)
(* (chunking.rs:61 to 71, engine/graph.rs:1608).                           *)
ChunksCoverText ==
  IsAnswered("chunk") =>
    LET text == Characters(request.document)
        config == request.config
        chunks == answer.chunks
        headings == HeadingStarts(request.document)
        boundaries == Boundaries(text)
        Reach(c) == Min({c.start + config.max_characters, Len(text)}
                          \cup {h \in headings : h > c.start})
        Follows(c, d) == /\ c.start < d.start /\ d.start <= c.end /\ c.end < d.end
                         /\ c.end - d.start <= config.overlap_characters
                         /\ 2 * (c.end - d.start) <= c.end - c.start
                         /\ c.end \in headings => d.start = c.end
    IN  IF answer = TooManyChunks
        THEN Len(ChunkText(request.document, [config EXCEPT !.max_chunks = Len(text)]).chunks)
               > config.max_chunks
        ELSE /\ text # <<>> => chunks # <<>> /\ chunks[1].start = 0
                                /\ Last(chunks).end = Len(text)
             /\ Len(chunks) <= config.max_chunks
             /\ \A i \in DOMAIN chunks :
                  LET c == chunks[i]
                  IN  /\ c.start < c.end /\ c.end <= Reach(c)
                      /\ c.end # Reach(c) => boundaries[c.end] > 0
                      /\ c.end < Reach(c) /\ Reach(c) \notin headings \cup {Len(text)} =>
                           \A p \in (c.end + 1)..Reach(c) : boundaries[p] < boundaries[c.end]
                      /\ c.heading = Max({h \in headings : h <= c.start} \cup {-1})
                      /\ i > 1 => Follows(chunks[i - 1], c)
             /\ Stored(text, chunks) # <<>> => ValidPreview(text, Stored(text, chunks))
-----------------------------------------------------------------------------
(* Walks over a graph, by definition.                                      *)
Links(graph, r, usable) ==
  UNION {{<<n, s.to>> : s \in {x \in Steps(n, graph, r) : x.to \in usable}} : n \in graph.nodes}

Reached(nodes, links, hops) ==
  LET Beyond(near) == near \cup {l[2] : l \in {x \in links : x[1] \in near}}
  IN  FoldLeft(LAMBDA near, d : Beyond(near), nodes, [d \in 1..hops |-> d])

StrongestRows(edges) ==
  {e \in edges : \A f \in edges : SameLink(e, f) => f.weight <= e.weight}
IncludedEdges(graph, nodes, r) ==
  StrongestRows({e \in Induced(graph, nodes) : Includes(e, r)})

Outgoing == [direction |-> "outgoing", kind |-> AnyKind, min_weight |-> 0]
HitNodes(hits) == {hits[i].node : i \in DOMAIN hits}
Nearby(hits, d) == {hits[i].node : i \in {j \in DOMAIN hits : hits[j].depth <= d}}

(* A neighborhood is what it says: no larger than asked, every node one    *)
(* step from the layer before, its edges the strongest rows of the links   *)
(* among its nodes; without truncated it holds every node within its hops  *)
(* at its distance, none lies beyond, and every link is there              *)
(* (engine/graph_neighborhood.rs:118 to 206).                              *)
NeighborhoodIsExplored ==
  IsAnswered("neighborhood") =>
    LET graph == request.graph
        r == request.bounds
        depth == answer.depth
        included == IncludedEdges(graph, DOMAIN depth, r)
        links == Links(graph, r, graph.nodes)
    IN  /\ Cardinality(DOMAIN depth) <= r.max_nodes
        /\ r.root \in DOMAIN depth /\ depth[r.root] = 0
        /\ \A n \in DOMAIN depth \ {r.root} :
             /\ depth[n] \in 1..r.max_hops
             /\ \E m \in DOMAIN depth : /\ depth[m] = depth[n] - 1
                                        /\ \E s \in Steps(m, graph, r) : s.to = n
        /\ answer.edges \subseteq included
        /\ Cardinality(answer.edges) = Min({r.max_edges, Cardinality(included)})
        /\ \A e \in answer.edges, f \in included \ answer.edges : StrongerEdge(e, f)
        /\ ~answer.truncated =>
             /\ \A d \in 0..(r.max_hops + 1) :
                  Reached({r.root}, links, d) = {n \in DOMAIN depth : depth[n] <= d}
             /\ answer.edges = included

(* A search is breadth first and explains itself: the seeds are the        *)
(* chunks most similar to the query and come first, every other chunk      *)
(* hangs on an edge that is returned, from a chunk returned before, one    *)
(* hop nearer, however many the limits cut; without truncated it returns   *)
(* every chunk within its hops at its distance and the strongest row of    *)
(* every link among them (engine/graph.rs:838 to 957).                     *)
SearchIsExplored ==
  IsAnswered("search") =>
    LET graph == request.graph
        r == request.bounds
        hits == answer.hits
        rows == StrongestRows(Induced(graph, HitNodes(hits)))
        links == Links(graph, Outgoing, graph.nodes)
    IN  /\ Len(hits) <= r.max_results /\ Cardinality(HitNodes(hits)) = Len(hits)
        /\ \A n \in Nearby(hits, 0), m \in graph.nodes \ Nearby(hits, 0) : MoreSimilar(r, n, m)
        /\ answer.edges \subseteq rows
        /\ \A i \in DOMAIN hits :
             /\ hits[i].depth <= r.max_hops
             /\ \A j \in 1..(i - 1) : hits[j].depth <= hits[i].depth
             /\ Cardinality({e \in answer.edges : e.from = hits[i].node}) <= r.neighbor_limit
             /\ hits[i].depth > 0 =>
                  \E e \in answer.edges, j \in 1..(i - 1) :
                    /\ e.to = hits[i].node /\ e.from = hits[j].node
                    /\ hits[j].depth = hits[i].depth - 1
        /\ ~answer.truncated =>
             /\ \A d \in 0..r.max_hops : Reached(Nearby(hits, 0), links, d) = Nearby(hits, d)
             /\ answer.edges = rows

(* Both walks are what they say: bounded, explained, and whole unless they *)
(* say they were truncated (engine/graph_neighborhood.rs, graph_search).   *)
WalksAreExplored == NeighborhoodIsExplored /\ SearchIsExplored
-----------------------------------------------------------------------------
(* A retrieved chunk's path, walked again: where it leads, what strength   *)
(* it has there, and whether the policy allows every step.                 *)
Follow(at, e, fusion, r) ==
  LET to == IF e.from = at.node THEN e.to ELSE e.from
  IN  [node |-> to,
       strength |-> Max({Passed(at.strength, e.weight), OrZero(fusion, to)}),
       allowed |-> /\ at.allowed /\ Includes(e, r) /\ e.weight # 0 /\ to \in r.eligible
                   /\ \/ e.from = at.node /\ r.direction # "incoming"
                      \/ e.to = at.node /\ r.direction # "outgoing"]

PathHolds(c, fusion, r) ==
  LET end == FoldLeft(LAMBDA at, e : Follow(at, e, fusion, r),
                      [node |-> c.seed, strength |-> fusion[c.seed], allowed |-> TRUE], c.path)
  IN  /\ end.allowed /\ end.node = c.node
      /\ c.score = Max({FitOne * OrZero(fusion, c.node), end.strength * Fit(c.node, r)})

(* Seeds are the best ranked chunks that the cap for a document allows.    *)
SeedsAreBest(seeds, fusion, graph, r) ==
  LET Ahead(n) == {s \in seeds : fusion[s] > fusion[n] \/ (fusion[s] = fusion[n] /\ s < n)}
      Siblings(n) == {s \in seeds : graph.document[s] = graph.document[n]}
      capped == r.max_seeds_per_document # NoSeedCap
  IN  /\ Cardinality(seeds) <= r.seed_limit
      /\ \A n \in seeds : capped => Cardinality(Siblings(n)) <= r.max_seeds_per_document
      /\ \A n \in DOMAIN fusion \ seeds :
           \/ Cardinality(Ahead(n)) = r.seed_limit
           \/ capped /\ Cardinality(Ahead(n) \cap Siblings(n)) = r.max_seeds_per_document

(* What a retrieval returns explains itself, within its bounds and policy: *)
(* the path of a chunk leads from a seed to it and earns its score; and    *)
(* without truncated it left nothing out: it has every ranked chunk, every *)
(* chunk within its hops, and every link among them (engine/               *)
(* graph_traversal.rs:152, 287).                                           *)
RetrievalIsExplored ==
  IsAnswered("rag") =>
    LET graph == request.graph
        q == [eligible |-> EligibleChunks(graph, request.bounds.documents)] @@ request.bounds
        fusion == Fused(graph, q)
        nodes == {c.node : c \in answer.candidates}
        walkable == [graph EXCEPT !.edges = {e \in @ : e.weight # 0}]
    IN  /\ Cardinality(answer.candidates) <= q.candidate_limit
        /\ Cardinality(nodes) = Cardinality(answer.candidates)
        /\ answer.seeds \subseteq nodes /\ nodes \subseteq q.eligible
        /\ q.max_hops > 0 => SeedsAreBest(answer.seeds, fusion, graph, q)
        /\ \A c \in answer.candidates :
             IF c.path = <<>> THEN c.node \in DOMAIN fusion
             ELSE /\ Len(c.path) <= q.max_hops /\ c.seed \in answer.seeds
                  /\ PathHolds(c, fusion, q)
        /\ ~answer.truncated =>
             /\ nodes = DOMAIN fusion \cup
                          Reached(answer.seeds, Links(walkable, q, q.eligible), q.max_hops)
             /\ answer.edges = IncludedEdges(graph, nodes, q)
-----------------------------------------------------------------------------
BytesOf(hits) ==
  LET sum[k \in 0..Len(hits)] == IF k = 0 THEN 0 ELSE sum[k - 1] + Bytes(hits[k])
  IN  sum[Len(hits)]

(* A context keeps every budget at once and leaves out only what a budget  *)
(* or a repeated passage forbids; each choice is the most relevant and     *)
(* least redundant of those chosen after it; nothing left out goes without *)
(* truncated (engine/graph_rag.rs:1034 to 1210).                           *)
ContextFits ==
  IsAnswered("context") =>
    LET all == request.snapshot.candidates
        options == request.options
        hits == answer.hits
        OfDocument(d) == {c \in Range(hits) : c.document = d}
        At(c, k) == Marginal(all, c, Max({0} \cup {Redundant(hits[i], c) : i \in 1..(k - 1)}),
                             options.diversity)
        left == all \ Range(hits)
    IN  /\ Len(hits) <= options.limit /\ IsInjective(hits) /\ Range(hits) \subseteq all
        /\ answer.bytes = BytesOf(hits) /\ answer.bytes <= options.max_context_bytes
        /\ \A c \in all : Cardinality(OfDocument(c.document)) <= options.max_per_document
        /\ \A i, j \in DOMAIN hits : i < j =>
             /\ IF i = 1 THEN hits[1].score >= hits[j].score
                ELSE At(hits[i], i) >= At(hits[j], i)
             /\ options.diversity > 0 => ~Repeats(hits[i], hits[j])
        /\ Len(hits) < options.limit =>
             \A c \in left :
               \/ answer.bytes + Bytes(c) > options.max_context_bytes
               \/ Cardinality(OfDocument(c.document)) = options.max_per_document
               \/ options.diversity > 0 /\ \E h \in Range(hits) : Repeats(h, c)
        /\ answer.truncated = (left # {} \/ request.snapshot.truncated)
        /\ \A e \in request.snapshot.edges :
             e \in answer.edges <=> {e.from, e.to} \subseteq {h.chunk : h \in Range(hits)}
-----------------------------------------------------------------------------
Substantial(quote, source) ==
  /\ \E i, j \in DOMAIN source : SubSeq(source, i, j) = quote
  /\ quote # <<>> /\ ~(Range(quote) \subseteq {BlankLetter})
  /\ Len(Trimmed(quote)) >= MinimumQuote \/ Trimmed(quote) = Trimmed(source)

(* A strict answer reaches the client only if each of its labels names a   *)
(* current source and a long enough verbatim quotation supports it, and no *)
(* other quotation does; an abstention carries neither; what is withheld   *)
(* carries nothing.  Speech is read from an accepted answer alone, and     *)
(* says what it says without labels (api/rag_chat_quality.rs:114 to 300).  *)
AcceptedIsGrounded ==
  IsAnswered("generated") =>
    LET sources == request.sources
        strict == request.grounding = "strict"
        labels == {t[2] : t \in {x \in Range(answer.answer) : IsLabel(x)}}
        Quoted(n) == \E i \in DOMAIN answer.evidence :
                       /\ answer.evidence[i].label = n
                       /\ Substantial(answer.evidence[i].quote, sources[n])
        accepted == answer.status \in {"answered", "insufficient_evidence", "clarification_needed"}
    IN  /\ strict /\ answer.status = "answered" =>
             /\ labels # {} /\ labels = answer.cited
             /\ labels \subseteq DOMAIN sources /\ Torn \notin Range(answer.answer)
             /\ \A n \in labels : Quoted(n)
             /\ \A i \in DOMAIN answer.evidence :
                  /\ answer.evidence[i].label \in labels
                  /\ Substantial(answer.evidence[i].quote, sources[answer.evidence[i].label])
        /\ strict /\ answer.status # "answered" =>
             labels = {} /\ answer.cited = {} /\ answer.evidence = <<>>
        /\ strict /\ ~accepted => answer.answer = NoAnswer
        /\ answer.citations = "valid_labels" =>
             labels # {} /\ labels \subseteq DOMAIN sources
        /\ request.generated.refused \/ request.generated.incomplete => ~accepted
        /\ answer.speech # NoAnswer =>
             /\ request.style = "voice" /\ accepted
             /\ answer.citations \in {"valid_labels", "not_applicable"}
             /\ ~\E t \in Range(answer.speech) : IsLabel(t) \/ t \in {Torn, Markup}
             /\ answer.speech = Where(answer.answer, LAMBDA t : ~IsLabel(t))
=============================================================================
