----------------------------- MODULE Retrieval -----------------------------
(***************************************************************************)
(* The three bounded explorations of a collection's graph: the focused     *)
(* neighborhood of a chunk (engine/graph_neighborhood.rs), the search that *)
(* expands vector seeds (engine/graph.rs, graph_search), and the hybrid    *)
(* retrieval that expands fused seeds under a policy (engine/graph_rag.rs, *)
(* engine/graph_traversal.rs).                                             *)
(*                                                                         *)
(* A graph is [nodes, document, edges].  Nodes are integers in the order   *)
(* of chunk identifiers and of rows; edges are [from, to, kind, weight],   *)
(* kinds integers in their order and weights shares of WeightOne.  How far *)
(* the query is from a chunk and how often it names its words are given    *)
(* with a request, as similarity and lexical.                              *)
(***************************************************************************)
EXTENDS Integers, SequencesExt

CONSTANTS WeightOne,      \* the weight 1.0
          RrfOffset,
          RrfScale,       \* fusion scores are multiples of 1 / RrfScale
          Adjacent        \* the kind of the edges ingestion makes

ASSUME RetrievalAssumption ==
  WeightOne \in Nat \ {0} /\ RrfOffset \in Nat /\ RrfScale \in Nat \ {0}

AnyKind == -1

KeyOfEdge(e) == <<e.from, e.to, e.kind>>
SameLink(e, f) == KeyOfEdge(e) = KeyOfEdge(f)
EdgeOrder(e, f) ==
  \/ e.from < f.from
  \/ e.from = f.from /\ e.to < f.to
  \/ e.from = f.from /\ e.to = f.to /\ e.kind < f.kind

(* The first limit elements of a set in a strict order, and all of them in *)
(* a list (a concatenation, for TLC to compute its elements once).         *)
Foremost(S, limit, Ahead(_, _)) ==
  {x \in S : Cardinality({y \in S : Ahead(y, x)}) < limit}
InOrder(S, Ahead(_, _)) ==
  <<>> \o [i \in 1..Cardinality(S) |->
            CHOOSE x \in S : Cardinality({y \in S : Ahead(y, x)}) = i - 1]

Includes(e, r) == (r.kind = AnyKind \/ e.kind = r.kind) /\ e.weight >= r.min_weight

(* The edges of a node the direction of a request allows to walk, each     *)
(* with the node it leads to.                                              *)
Steps(n, graph, r) ==
  {[edge |-> e, to |-> e.to] :
     e \in {x \in graph.edges : x.from = n /\ r.direction # "incoming" /\ Includes(x, r)}}
  \cup
  {[edge |-> e, to |-> e.from] :
     e \in {x \in graph.edges : x.to = n /\ r.direction # "outgoing" /\ Includes(x, r)}}

Induced(graph, nodes) == {e \in graph.edges : e.from \in nodes /\ e.to \in nodes}
-----------------------------------------------------------------------------
(* Neighborhood.                                                           *)
Offer(n, weight) == [node |-> n, weight |-> weight]
StrongerOffer(a, b) == a.weight > b.weight \/ (a.weight = b.weight /\ a.node < b.node)
StrongestOffers(offers) ==
  {o \in offers : \A p \in offers : p.node = o.node => p.weight <= o.weight}

(* What a node offers a layer: its steps to nodes not yet visited.         *)
OffersAnywhere(n, visited, graph, r) ==
  StrongestOffers({Offer(s.to, s.edge.weight) : s \in Steps(n, graph, r)})

OffersAhead(n, visited, graph, r) ==
  StrongestOffers({Offer(s.to, s.edge.weight) :
                     s \in {x \in Steps(n, graph, r) : x.to \notin visited}})

(* One layer of breadth: the offers of every parent are cut to its limit,  *)
(* merged, and cut again to the room that is left.                         *)
Layer(state, depth, graph, r) ==
  LET visited == DOMAIN state.depth
      Offers(n) == OffersAhead(n, visited, graph, r)
      next == StrongestOffers(UNION {Foremost(Offers(n), r.neighbor_limit, StrongerOffer) :
                                       n \in state.frontier})
      room == r.max_nodes - Cardinality(visited)
      admitted == {o.node : o \in Foremost(next, room, StrongerOffer)}
      cut == \E n \in state.frontier : Cardinality(Offers(n)) > r.neighbor_limit
  IN  IF depth = r.max_hops
      THEN [depth |-> state.depth, frontier |-> {},
            truncated |-> state.truncated \/ cut \/ next # {}]
      ELSE [depth |-> [n \in admitted \cup visited |->
                         IF n \in admitted THEN depth + 1 ELSE state.depth[n]],
            frontier |-> admitted,
            truncated |-> state.truncated \/ cut \/ Cardinality(next) > room]

(* BoundedEdges keeps the strongest links of a stream of rows, one row for *)
(* each link.                                                              *)
StrongerEdge(e, f) == e.weight > f.weight \/ (e.weight = f.weight /\ EdgeOrder(e, f))

InsertEdge(kept, e, limit) ==
  IF \E f \in kept.edges : SameLink(f, e) /\ f.weight >= e.weight THEN kept
  ELSE LET more == {f \in kept.edges : ~SameLink(f, e)} \cup {e}
       IN  [edges |-> Foremost(more, limit, StrongerEdge),
            truncated |-> kept.truncated \/ Cardinality(more) > limit]

NoEdges == [edges |-> {}, truncated |-> FALSE]

GraphNeighborhood(graph, r) ==
  LET start == [depth |-> [n \in {r.root} |-> 0], frontier |-> {r.root}, truncated |-> FALSE]
      found == FoldLeft(LAMBDA state, d : Layer(state, d, graph, r), start,
                        [i \in 1..(r.max_hops + 1) |-> i - 1])
      stream == {e \in Induced(graph, DOMAIN found.depth) : Includes(e, r)}
      kept == FoldSet(LAMBDA e, k : InsertEdge(k, e, r.max_edges), NoEdges, stream)
  IN  [depth |-> found.depth, edges |-> kept.edges,
       truncated |-> found.truncated \/ kept.truncated]
-----------------------------------------------------------------------------
(* Vector search and the search that expands its seeds along outgoing      *)
(* edges, adjacent ones first.                                             *)
MoreSimilar(r, a, b) == r.similarity[a] > r.similarity[b] \/
                   (r.similarity[a] = r.similarity[b] /\ a < b)
VectorRanks(nodes, limit, r) ==
  InOrder(Foremost(nodes, limit, LAMBDA a, b : MoreSimilar(r, a, b)), LAMBDA a, b : MoreSimilar(r, a, b))

DiscoveryOrder(e, f) ==
  LET Rank(x) == IF x.kind = Adjacent THEN 0 ELSE 1
  IN  \/ Rank(e) < Rank(f)
      \/ Rank(e) = Rank(f) /\ e.weight > f.weight
      \/ Rank(e) = Rank(f) /\ e.weight = f.weight /\ e.to < f.to
      \/ Rank(e) = Rank(f) /\ e.weight = f.weight /\ e.to = f.to /\ e.kind < f.kind

AdmitNeighbor(state, e, depth, r) ==
  IF e.to \in state.visited THEN state
  ELSE IF state.admitted = r.neighbor_limit \/ Cardinality(state.visited) = r.max_results
  THEN [state EXCEPT !.truncated = TRUE]
  ELSE [state EXCEPT !.admitted = @ + 1, !.visited = @ \cup {e.to},
                     !.pending = Append(@, [node |-> e.to, depth |-> depth + 1]),
                     !.discovery = @ \cup {KeyOfEdge(e)}]

VisitNext(state, graph, r) ==
  LET at == Head(state.pending)
      seen == [state EXCEPT !.hits = Append(@, at), !.pending = Tail(@), !.admitted = 0]
      links == InOrder({e \in graph.edges : e.from = at.node}, DiscoveryOrder)
  IN  IF state.pending = <<>> THEN state
      ELSE IF at.depth >= r.max_hops THEN seen
      ELSE FoldLeft(LAMBDA s, e : AdmitNeighbor(s, e, at.depth, r), seen, links)

(* Until nothing is pending: no chunk is pending twice.                    *)
Explore(state, graph, r) ==
  FoldLeft(LAMBDA s, i : VisitNext(s, graph, r), state,
           [i \in 1..Cardinality(graph.nodes) |-> i])

(* The edges a hit is returned with: those it discovered others by come    *)
(* first, so that the limit cuts none of them.                             *)
ReturnedByWeight(n, found, graph, r) ==
  LET links == {e \in graph.edges : e.from = n /\ e.to \in found.visited}
      once == {e \in links : \A f \in links : SameLink(f, e) => f.weight <= e.weight}
  IN  [edges |-> Foremost(once, r.neighbor_limit, DiscoveryOrder),
       truncated |-> Cardinality(once) > r.neighbor_limit]

ReturnedEdges(n, found, graph, r) ==
  LET ByUse(e, f) == LET used == KeyOfEdge(e) \in found.discovery
                     IN  IF used = (KeyOfEdge(f) \in found.discovery)
                         THEN DiscoveryOrder(e, f) ELSE used
      links == {e \in graph.edges : e.from = n /\ e.to \in found.visited}
      once == {e \in links : \A f \in links : SameLink(f, e) => ~ByUse(f, e)}
  IN  [edges |-> Foremost(once, r.neighbor_limit, ByUse),
       truncated |-> Cardinality(once) > r.neighbor_limit]

GraphSearch(graph, r) ==
  LET seeds == VectorRanks(graph.nodes, r.seed_limit, r)
      found == Explore([hits |-> <<>>, visited |-> Range(seeds), admitted |-> 0,
                        pending |-> [i \in DOMAIN seeds |-> [node |-> seeds[i], depth |-> 0]],
                        discovery |-> {}, truncated |-> FALSE], graph, r)
      returned == {ReturnedEdges(n, found, graph, r) : n \in found.visited}
  IN  [hits |-> found.hits, edges |-> UNION {x.edges : x \in returned},
       truncated |-> found.truncated \/ \E x \in returned : x.truncated]
=============================================================================
