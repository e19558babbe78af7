---------------------------- MODULE MCProviders ----------------------------
(* Instances of Providers for TLC. *)
EXTENDS Providers

CONSTANTS Small, V4

\* OpenAI's model has two lengths, and Voyage's the length of one of them.
ModelsOf == [p \in {Openai, Voyage} |-> IF p = Openai THEN <<Small>> ELSE <<V4>>]
DimensionsOf == [m \in {Small, V4} |-> IF m = Small THEN <<2, 1>> ELSE <<2>>]

Defaults == [w \in Services |->
    [profile |-> IF w = "embedding" THEN [provider |-> Openai, model |-> Small, dimensions |-> 2]
                                    ELSE [provider |-> Voyage, model |-> V4, dimensions |-> 2],
     limit |-> 2]]
Keys == [w \in Services |-> IF w = "embedding" THEN {Openai} ELSE {Voyage}]

NoChange == [provider |-> Nothing, model |-> Nothing, dimensions |-> Nothing, limit |-> Nothing, key |-> "keep"]
Embed(n, expected) == [kind |-> "embed", inputs |-> n, expected |-> expected]
Chat(answer, rewrite, rerank, vector) ==
    [kind |-> "chat", answer |-> answer, rewrite |-> rewrite, rerank |-> rerank, vector |-> vector]
Retrieve(rerank) == [Chat(FALSE, FALSE, rerank, TRUE) EXCEPT !.kind = "retrieve"]

\* Settings files, and updates that are refused, fail or are overtaken by an
\* end of the process.
Files ==
    [slots |-> {"s1"}, requests |-> {Chat(FALSE, FALSE, FALSE, FALSE)}, maxUpdates |-> 2, maxRestarts |-> 2, maxChanges |-> 0,
     updates |-> {<<"embedding", [NoChange EXCEPT !.provider = Voyage, !.key = "set"]>>,
                  <<"embedding", [NoChange EXCEPT !.provider = Openai, !.dimensions = 1]>>,
                  <<"embedding", [NoChange EXCEPT !.provider = Voyage, !.dimensions = 1]>>,
                  <<"reranking", [NoChange EXCEPT !.limit = 1, !.key = "clear"]>>,
                  <<"reranking", [NoChange EXCEPT !.limit = 1, !.key = "both"]>>}]

\* The embedding service changes its space while texts and queries are embedded.
Spaces ==
    [slots |-> {"s1", "s2"}, maxUpdates |-> 1, maxRestarts |-> 0, maxChanges |-> 1,
     requests |-> {Embed(3, Nothing), Embed(1, Defaults["embedding"].profile), Retrieve(FALSE)},
     updates |-> {<<"embedding", [NoChange EXCEPT !.provider = Voyage, !.key = "set", !.limit = 1]>>}]

\* A chat with every stage, while keys come and go.
Chats ==
    [slots |-> {"s1"}, maxUpdates |-> 2, maxRestarts |-> 0, maxChanges |-> 1,
     requests |-> {Chat(a, w, r, v) : a, w, r, v \in BOOLEAN} \cup {Retrieve(TRUE)},
     updates |-> {<<"embedding", [NoChange EXCEPT !.key = "clear"]>>,
                  <<"embedding", [NoChange EXCEPT !.provider = Voyage, !.key = "set"]>>,
                  <<"reranking", [NoChange EXCEPT !.key = "clear"]>>,
                  <<"reranking", [NoChange EXCEPT !.key = "set"]>>}]

\* Chats that compete for their permits.
Crowd ==
    [slots |-> {"s1", "s2"}, maxUpdates |-> 0, maxRestarts |-> 1, maxChanges |-> 0,
     requests |-> {Chat(TRUE, FALSE, TRUE, FALSE), Chat(FALSE, TRUE, TRUE, FALSE), Chat(FALSE, FALSE, TRUE, FALSE)},
     updates |-> {}]

Four == {Files, Spaces, Chats, Crowd}
=============================================================================
