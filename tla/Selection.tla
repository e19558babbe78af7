----------------------------- MODULE Selection -----------------------------
(***************************************************************************)
(* GraphRagSnapshot::finalize (engine/graph_rag.rs): which candidates of a *)
(* retrieval become the context of an answer.  One after the other, by     *)
(* relevance less redundancy (maximal marginal relevance), within budgets  *)
(* for bytes, documents and results.                                       *)
(*                                                                         *)
(* A candidate is [chunk, document, start, end, text, direction, score]:   *)
(* text names its words, direction its embedding.  Redundancy and          *)
(* diversity are counted in halves, relevance in shares of the distance    *)
(* between the lowest and the highest score.  options are                  *)
(* [limit, diversity, max_context_bytes, max_per_document].                *)
(***************************************************************************)
EXTENDS Integers, SequencesExt, FiniteSetsExt

One == 2                      \* redundancy and diversity 1.0

Bytes(c) == c.end - c.start

(* The share of the shorter passage that two passages of one document have *)
(* in common, rounded down.                                                *)
Common(c, d) == Max({0, Min({c.end, d.end}) - Max({c.start, d.start})})
Shorter(c, d) == Min({Bytes(c), Bytes(d)})

SourceOverlap(c, d) ==
  IF c.document # d.document \/ Shorter(c, d) = 0 THEN 0
  ELSE (One * Common(c, d)) \div Shorter(c, d)

(* Embeddings here stand at right angles, or halfway.                      *)
Cosine(c, d) == Max({0, One - Max({c.direction - d.direction, d.direction - c.direction})})

Repeats(c, d) ==
  \/ c.text = d.text
  \/ /\ c.document = d.document /\ Shorter(c, d) # 0
     /\ 5 * Common(c, d) >= 4 * Shorter(c, d)
Redundant(c, d) == Max({Cosine(c, d), SourceOverlap(c, d)})

Scores(candidates) == {d.score : d \in candidates}
Alike(candidates) == Max(Scores(candidates)) = Min(Scores(candidates))
Spread(candidates) ==
  IF Alike(candidates) THEN 1 ELSE Max(Scores(candidates)) - Min(Scores(candidates))
Relevance(candidates, c) ==
  IF Alike(candidates) THEN 1 ELSE c.score - Min(Scores(candidates))

FitsAlone(c, state, options) ==
  /\ Bytes(c) <= options.max_context_bytes
  /\ Cardinality({i \in DOMAIN state.chosen : state.chosen[i].document = c.document})
       < options.max_per_document

Fits(c, state, options) ==
  /\ Bytes(c) <= options.max_context_bytes - state.bytes
  /\ Cardinality({i \in DOMAIN state.chosen : state.chosen[i].document = c.document})
       < options.max_per_document

(* Relevance less redundancy, for a share of diversity.                    *)
Marginal(candidates, c, redundancy, diversity) ==
  One * (One - diversity) * Relevance(candidates, c)
    - Spread(candidates) * diversity * redundancy

MarginalScore(c, state, candidates, options) ==
  IF state.chosen = <<>> THEN Relevance(candidates, c)
  ELSE Marginal(candidates, c, state.redundancy[c], options.diversity)

(* One round: what no longer fits is out for good, the best of the rest is *)
(* chosen, and what repeats it is out too.                                 *)
Choose(state, candidates, options) ==
  LET fitting == {c \in state.available : Fits(c, state, options)}
      Score(c) == MarginalScore(c, state, candidates, options)
      Better(c, d) == \/ Score(c) > Score(d)
                      \/ Score(c) = Score(d) /\ c.chunk < d.chunk
      best == CHOOSE c \in fitting : \A d \in fitting \ {c} : Better(c, d)
      others == fitting \ {best}
      kept == IF options.diversity = 0 THEN others
              ELSE {c \in others : ~Repeats(best, c)}
  IN  IF fitting = {}
      THEN [state EXCEPT !.available = {}, !.truncated = @ \/ state.available # {}]
      ELSE [chosen |-> Append(state.chosen, best),
            bytes |-> state.bytes + Bytes(best),
            available |-> kept,
            redundancy |-> [c \in DOMAIN state.redundancy |->
                              IF c \in kept /\ options.diversity > 0
                              THEN Max({state.redundancy[c], Redundant(best, c)})
                              ELSE state.redundancy[c]],
            truncated |-> \/ state.truncated
                          \/ fitting # state.available \/ kept # others]

ContextOf(state, snapshot) ==
  LET chunks == {c.chunk : c \in Range(state.chosen)}
  IN  [hits |-> state.chosen, bytes |-> state.bytes,
       edges |-> {e \in snapshot.edges : e.from \in chunks /\ e.to \in chunks},
       truncated |-> state.truncated
                       \/ Len(state.chosen) < Cardinality(snapshot.candidates)]

FinalizeContext(snapshot, options) ==
  LET round[k \in 0..options.limit] ==
        IF k = 0
        THEN [chosen |-> <<>>, bytes |-> 0, available |-> snapshot.candidates,
              redundancy |-> [c \in snapshot.candidates |-> 0],
              truncated |-> snapshot.truncated]
        ELSE Choose(round[k - 1], snapshot.candidates, options)
  IN  ContextOf(round[options.limit], snapshot)
=============================================================================
