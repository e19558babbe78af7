---------------------------- MODULE MCGraphReads ----------------------------
(***************************************************************************)
(* Requests about documents and their graph for TLC: five chunks of three  *)
(* documents, weights and similarities in halves.                          *)
(***************************************************************************)
EXTENDS GraphReads

(* Documents of at most three lines, the last with or without a newline,   *)
(* cut by every small configuration.                                       *)
Line(kind, letters) == [kind |-> kind, letters |-> letters]
Lines == {Line("text", <<"w", "w", "w", "n">>),
          Line("text", <<"w", ".", ")", "s", "w", "n">>),
          Line("text", <<"w", "W", "w", "s", "s", "w", "n">>),
          Line("text", <<"s", "n">>),
          Line("atx", <<"w", "s", "w", "n">>),
          Line("setext", <<"w", "n">>),
          Line("fence", <<"w", "n">>)}

LastLines == {Line("text", <<"w", "w", "s", "w", ".">>), Line("atx", <<"w">>)}

MCChunkRequests ==
  [kind : {"chunk"},
   document : {lines \o last : lines \in UNION {[1..n -> Lines] : n \in 0..2},
                               last \in {<<>>} \cup {<<l>> : l \in Lines \cup LastLines}},
   config : {c \in [max_characters : 1..5, overlap_characters : 0..3, max_chunks : {3, 9, 20}] :
               ValidConfig(c)}]
-----------------------------------------------------------------------------
(* Graphs over five chunks: an adjacent pair, a chain, a link stored twice *)
(* with different weights, a cycle and an edge of weight 0.                *)
Arc(from, to, kind, weight) == [from |-> from, to |-> to, kind |-> kind, weight |-> weight]
Chain == {Arc(2, 3, 1, 2), Arc(3, 4, 1, 1)}
Others == {Arc(1, 2, 0, 2), Arc(2, 1, 0, 2), Arc(2, 3, 1, 1), Arc(4, 5, 1, 2),
           Arc(2, 5, 2, 1), Arc(5, 3, 2, 0), Arc(4, 1, 2, 2)}
MCGraphs ==
  [nodes : {1..5}, document : {<<1, 1, 2, 2, 3>>},
   edges : {Chain \cup more : more \in {S \in SUBSET Others : Cardinality(S) <= 3}}]

MCNeighborhoodRequests ==
  [kind : {"neighborhood"}, graph : MCGraphs,
   bounds : [root : {2, 3}, max_hops : {0, 1, 3}, neighbor_limit : 1..2, max_nodes : {3, 5},
             max_edges : {1, 5}, direction : {"outgoing", "both"},
             kind : {AnyKind, 1}, min_weight : {0}]
           \cup [root : {4}, max_hops : {2}, neighbor_limit : {2}, max_nodes : {4},
                max_edges : {0, 2}, direction : {"incoming"},
                kind : {AnyKind}, min_weight : 0..2]]

Similarities == {<<2, 1, 1, 0, -2>>, <<0, 2, 2, -1, 1>>}

MCSearchRequests ==
  [kind : {"search"}, graph : MCGraphs,
   bounds : [similarity : Similarities, seed_limit : 1..2, max_hops : 0..2,
             neighbor_limit : 1..2, max_results : {2, 3, 5}]]

(* Graphs for retrieval have the edge from 2 to 1, so that expansion can   *)
(* come back to a chunk that is ranked.                                    *)
MCRagRequests ==
  [kind : {"rag"}, graph : {g \in MCGraphs : Arc(2, 1, 0, 2) \in g.edges},
   bounds :
     UNION {[similarity : Similarities, lexical : {<<0, 0, 0, 0, 0>>, <<0, 2, 0, 0, 1>>},
             vector_weight : {w[1]}, lexical_weight : {w[2]},
             candidate_limit : {c[1]}, seed_limit : {c[2]}, max_hops : {0, 1, 3},
             neighbor_limit : 1..2, direction : {"outgoing", "both"}, kind : {AnyKind, 1},
             min_weight : {0}, max_seeds_per_document : {s[1]}, documents : {s[2]}] :
              w \in {<<1, 0>>, <<0, 2>>, <<1, 1>>, <<2, 1>>}, c \in {<<2, 1>>, <<4, 2>>},
              s \in {<<NoSeedCap, 1..3>>, <<1, 1..2>>}}]
-----------------------------------------------------------------------------
(* Passages: two that overlap, one that repeats another's words, one at a  *)
(* right angle, in two documents.                                          *)
Passage(chunk, document, start, end, text, direction) ==
  [chunk |-> chunk, document |-> document, start |-> start, end |-> end, text |-> text,
   direction |-> direction]
Passages == {Passage(1, 1, 0, 2, "t", 0), Passage(2, 1, 1, 3, "u", 1),
             Passage(3, 2, 0, 2, "t", 0), Passage(4, 2, 2, 3, "v", 2),
             Passage(5, 1, 0, 3, "w", 2)}

MCContextRequests ==
  [kind : {"context"},
   snapshot :
     UNION {{[candidates |-> {[score |-> score[p]] @@ p : p \in S},
              edges |-> {Arc(1, 2, 0, 2), Arc(2, 3, 1, 1)}, truncated |-> FALSE] :
               score \in [S -> 0..2]} : S \in kSubset(3, Passages) \cup kSubset(2, Passages)},
   options : [limit : 1..3, diversity : 0..2, max_context_bytes : {2, 5, 9},
              max_per_document : 1..2]]
-----------------------------------------------------------------------------
(* Answers of at most two tokens about two sources, the second a single    *)
(* letter; quotations that are short, blank, invented or of the other one. *)
Tokens == {AWord, Question, Markup, Label(1), Label(2), Label(3), Torn}
Texts == UNION {[1..n -> Tokens] : n \in 0..2} \cup {<<Label(1), AWord, Label(2)>>}
Quotes == {[label |-> 1, quote |-> <<"a", "b">>], [label |-> 1, quote |-> <<"b", "-">>],
           [label |-> 1, quote |-> <<"x", "b">>], [label |-> 2, quote |-> <<"c">>],
           [label |-> 2, quote |-> <<"a", "b">>], [label |-> 3, quote |-> <<"c">>]}
EvidenceLists == UNION {[1..n -> Quotes] : n \in 0..2}
                   \cup {<<q, q, q>> : q \in {[label |-> 1, quote |-> <<"a", "b">>]}}

GeneratedTexts(statuses, evidence, refused, incomplete, wellformed) ==
  [refused : refused, incomplete : incomplete, wellformed : wellformed, status : statuses,
   answer : Texts, evidence : evidence]

MCGroundingRequests ==
  [kind : {"generated"}, sources : {<<<<"a", "b", "-">>, <<"c">>>>}, style : {"text", "voice"},
   grounding : {"strict"},
   generated : GeneratedTexts({"answered", "insufficient_evidence", "clarification_needed"},
                              EvidenceLists, {FALSE}, {FALSE}, {TRUE})]
  \cup
  [kind : {"generated"}, sources : {<<<<"a", "b", "-">>, <<"c">>>>}, style : {"text", "voice"},
   grounding : {"strict", "standard"},
   generated : GeneratedTexts({"answered"}, {<<>>}, BOOLEAN, BOOLEAN, BOOLEAN)]
=============================================================================
