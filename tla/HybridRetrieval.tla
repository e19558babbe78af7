-------------------------- MODULE HybridRetrieval --------------------------
(***************************************************************************)
(* Hybrid retrieval: engine/graph_rag.rs fuses a vector ranking and a      *)
(* lexical one by reciprocal ranks, engine/graph_traversal.rs expands the  *)
(* best chunks along the graph with a beam, and the candidates leave with  *)
(* the edges among them.                                                   *)
(*                                                                         *)
(* The beam holds evidence [node, score, strength, seed, path]: a chunk,   *)
(* what it earns, what it passes on, and the walk that led to it.  The fit *)
(* of a chunk to the query is counted in quarters.                         *)
(***************************************************************************)
EXTENDS Retrieval

FitOne == 4

(* LexicalIndex::score ranks the chunks that match at all.                 *)
LexicalRanks(nodes, limit, r) ==
  LET More(a, b) == r.lexical[a] > r.lexical[b] \/ (r.lexical[a] = r.lexical[b] /\ a < b)
  IN  InOrder(Foremost({n \in nodes : r.lexical[n] > 0}, limit, More), More)

ReciprocalRank(ranks, n, weight) ==
  IF n \in Range(ranks)
  THEN weight * (RrfScale \div (RrfOffset + SelectInSeq(ranks, LAMBDA x : x = n)))
  ELSE 0

Fused(graph, r) ==
  LET vector  == IF r.vector_weight = 0 THEN <<>>
                 ELSE VectorRanks(r.eligible, r.candidate_limit, r)
      lexical == IF r.lexical_weight = 0 THEN <<>>
                 ELSE LexicalRanks(r.eligible, r.candidate_limit, r)
  IN  [n \in Range(vector) \cup Range(lexical) |->
         ReciprocalRank(vector, n, r.vector_weight)
           + ReciprocalRank(lexical, n, r.lexical_weight)]

FusedOrder(fusion) ==
  InOrder(DOMAIN fusion, LAMBDA a, b : \/ fusion[a] > fusion[b]
                                       \/ fusion[a] = fusion[b] /\ a < b)
OrZero(f, n) == IF n \in DOMAIN f THEN f[n] ELSE 0

(* Chunks of one document take at most max_seeds_per_document seeds.       *)
NoSeedCap == 0
SelectSeeds(ranked, graph, r) ==
  LET capped == r.max_seeds_per_document # NoSeedCap /\ r.max_hops > 0
      Taken(seeds, n) ==
        Cardinality({i \in DOMAIN seeds : graph.document[seeds[i]] = graph.document[n]})
      Add(seeds, n) == IF \/ Len(seeds) = r.seed_limit
                          \/ capped /\ Taken(seeds, n) >= r.max_seeds_per_document
                       THEN seeds ELSE Append(seeds, n)
  IN  FoldLeft(Add, <<>>, ranked)

(* Every seed has a place; the best of the others fill what is left of the *)
(* three quarters direct matches may take.                                 *)
DirectLimit(seeds, r) ==
  IF r.max_hops = 0 THEN r.candidate_limit
  ELSE LET quarter == Max({r.candidate_limit \div 4, 1})
       IN  Max({Len(seeds), r.candidate_limit - quarter, 0})

FillUp(chosen, ranked, limit) ==
  FoldLeft(LAMBDA nodes, n : IF n \in nodes \/ Cardinality(nodes) = limit THEN nodes
                             ELSE nodes \cup {n}, chosen, ranked)
-----------------------------------------------------------------------------
(* How well a chunk fits the query, in both channels' own measure, with    *)
(* the larger of the two weights as the unit.                              *)
Fit(n, r) ==
  LET scale == Max({r.vector_weight, r.lexical_weight})
      most  == Max({0} \cup {r.lexical[x] : x \in r.eligible})
      vector  == Max({r.similarity[n], 0})
      lexical == IF most = 0 \/ r.lexical_weight = 0 THEN 0
                 ELSE (2 * r.lexical[n]) \div most
  IN  Max({(2 * vector * r.vector_weight) \div scale,
           (2 * lexical * r.lexical_weight) \div scale})

Passed(strength, weight) == (strength * weight) \div (2 * WeightOne)

Evidence(n, strength, seed, path, fusion, r) ==
  [node |-> n, strength |-> strength, seed |-> seed, path |-> path,
   score |-> Max({OrZero(fusion, n) * FitOne, strength * Fit(n, r)})]

Seeded(n, fusion) ==
  [node |-> n, strength |-> fusion[n], seed |-> n, path |-> <<>>,
   score |-> fusion[n] * FitOne]

AheadOf(a, b) ==
  \/ a.score > b.score
  \/ a.score = b.score /\ a.strength > b.strength
  \/ a.score = b.score /\ a.strength = b.strength /\ a.node < b.node

(* Between two walks to one chunk: the stronger, the shorter, the one from *)
(* the earlier seed, the one over earlier edges.                           *)
Preferred(a, b) ==
  \/ a.strength > b.strength
  \/ /\ a.strength = b.strength
     /\ \/ Len(a.path) < Len(b.path)
        \/ /\ Len(a.path) = Len(b.path)
           /\ \/ a.seed < b.seed
              \/ /\ a.seed = b.seed
                 /\ \E i \in DOMAIN a.path :
                      /\ EdgeOrder(a.path[i], b.path[i])
                      /\ \A j \in 1..(i - 1) : SameLink(a.path[j], b.path[j])
BestWalks(evidence) ==
  {a \in evidence : \A b \in evidence : b.node = a.node => ~Preferred(b, a)}

(* What one beam entry proposes: for each chunk it can step to, the walk   *)
(* over the best edge, if it brings more strength than any walk so far.    *)
Proposals(source, state, graph, fusion, r) ==
  LET steps == {s \in Steps(source.node, graph, r) :
                  s.edge.weight # 0 /\ s.to \in r.eligible}
      best == {s \in steps : \A t \in steps : t.to = s.to => ~StrongerEdge(t.edge, s.edge)}
      Strength(s) == Max({Passed(source.strength, s.edge.weight), OrZero(fusion, s.to)})
  IN  {Evidence(s.to, Strength(s), source.seed, Append(source.path, s.edge), fusion, r) :
         s \in {x \in best : Strength(x) > OrZero(state.best, x.to)}}

Hop(state, graph, fusion, r) ==
  LET Proposed(source) == Proposals(source, state, graph, fusion, r)
      merged == BestWalks(UNION {Foremost(Proposed(s), r.neighbor_limit, AheadOf) :
                                   s \in state.frontier})
      next == Foremost(merged, r.candidate_limit, AheadOf)
      Found(n) == CHOOSE e \in next : e.node = n
      reached == {e.node : e \in next}
  IN  [frontier |-> next,
       best |-> [n \in reached |-> Found(n).strength] @@ state.best,
       direct |-> [n \in DOMAIN state.direct |->
                     IF n \in reached THEN Max({state.direct[n], Found(n).score})
                     ELSE state.direct[n]],
       context |-> BestWalks(state.context \cup {e \in next : e.node \notin DOMAIN state.direct}),
       truncated |-> \/ state.truncated \/ Cardinality(merged) > r.candidate_limit
                     \/ \E s \in state.frontier : Cardinality(Proposed(s)) > r.neighbor_limit]
-----------------------------------------------------------------------------
Direct(n, score) == [node |-> n, score |-> score, seed |-> n, path |-> <<>>]
InContext(e) == [node |-> e.node, score |-> e.score, seed |-> e.seed, path |-> e.path]

(* GraphTraversal::expand.                                                 *)
Expand(ranked, graph, fusion, r) ==
  LET seeds == SelectSeeds(ranked, graph, r)
      direct == FillUp(Range(seeds), ranked, DirectLimit(seeds, r))
      start == [frontier |-> {Seeded(n, fusion) : n \in Range(seeds)},
                best |-> [n \in Range(seeds) |-> fusion[n]],
                direct |-> [n \in direct |-> fusion[n] * FitOne],
                context |-> {}, truncated |-> FALSE]
      end == FoldLeft(LAMBDA state, h : Hop(state, graph, fusion, r), start,
                      [h \in 1..r.max_hops |-> h])
      remaining == Max({r.candidate_limit - Cardinality(direct), 0})
      context == {InContext(e) : e \in Foremost(end.context, remaining, AheadOf)}
      admitted == {Direct(n, end.direct[n]) : n \in direct} \cup context
      taken == direct \cup {e.node : e \in context}
      all == FillUp(taken, ranked, r.candidate_limit)
  IN  IF r.max_hops = 0
      THEN [candidates |-> admitted, seeds |-> {},
            truncated |-> Len(ranked) > r.candidate_limit]
      ELSE [candidates |-> admitted \cup {Direct(n, fusion[n] * FitOne) : n \in all \ taken},
            seeds |-> Range(seeds),
            truncated |-> \/ end.truncated \/ Cardinality(end.context) > remaining
                          \/ Range(ranked) \ all # {}]

(* induced_edges keeps the first links in their order, the strongest row   *)
(* of each.                                                                *)
InsertFirstRow(kept, e, limit) ==
  LET first == IF \E f \in kept.edges : SameLink(f, e) THEN kept.edges ELSE kept.edges \cup {e}
  IN  [edges |-> Foremost(first, limit, EdgeOrder),
       truncated |-> kept.truncated \/ Cardinality(first) > limit]

InsertFirst(kept, e, limit) ==
  LET same == {f \in kept.edges : SameLink(f, e)}
      strongest == IF \E f \in same : f.weight >= e.weight THEN kept.edges
                   ELSE (kept.edges \ same) \cup {e}
  IN  [edges |-> Foremost(strongest, limit, EdgeOrder),
       truncated |-> kept.truncated \/ Cardinality(strongest) > limit]

InducedEdges(graph, nodes, limit, r) ==
  LET ByRow(e, f) == EdgeOrder(e, f) \/ (SameLink(e, f) /\ e.weight < f.weight)
  IN  FoldLeft(LAMBDA kept, e : InsertFirst(kept, e, limit), NoEdges,
               InOrder({e \in Induced(graph, nodes) : Includes(e, r)}, ByRow))

(* The chunks of the documents that pass the filters of a request.         *)
EligibleChunks(graph, documents) == {n \in graph.nodes : graph.document[n] \in documents}

WithEdges(found, graph, r) ==
  LET kept == InducedEdges(graph, {c.node : c \in found.candidates},
                           r.candidate_limit * r.neighbor_limit, r)
  IN  [candidates |-> found.candidates, seeds |-> found.seeds, edges |-> kept.edges,
       truncated |-> found.truncated \/ kept.truncated]

GraphRagCandidates(graph, request) ==
  LET r == [eligible |-> EligibleChunks(graph, request.documents)] @@ request
      Explored(fusion) == Expand(FusedOrder(fusion), graph, fusion, r)
  IN  IF r.eligible = {}
      THEN [candidates |-> {}, seeds |-> {}, edges |-> {}, truncated |-> FALSE]
      ELSE WithEdges(Explored(Fused(graph, r)), graph, r)
=============================================================================
