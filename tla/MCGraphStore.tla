---------------------------- MODULE MCGraphStore ----------------------------
(* Instances of GraphStore for TLC. *)
EXTENDS GraphStore

CONSTANTS d1, d2,   \* document ids
          b1, b2,   \* bodies, of one and of two chunks
          p, q,     \* pieces of text
          m1, m2,   \* free metadata
          F         \* a number

BodyPieces == [b \in {b1, b2} |-> IF b = b1 THEN <<p>> ELSE <<p, q>>]
PieceSimilarity == [x \in {p, q} |-> [y \in {p, q} |-> IF x = y THEN 100 ELSE 70]]

\* One document with either body, two metadata and a number; another with the number.
GraphRequests ==
    {[id |-> d1, body |-> b, meta |-> m1, field |-> Null] : b \in {b1, b2}}
        \cup {[id |-> d1, body |-> b2, meta |-> m2, field |-> F],
              [id |-> d2, body |-> b2, meta |-> m1, field |-> F]}

\* A number whose magnitude is no i64.
LowestInteger == {[id |-> d1, body |-> b1, meta |-> m1, field |-> MinInt]}
=============================================================================
