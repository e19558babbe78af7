---------------------------- MODULE MCTableStore ----------------------------
(* Instances of TableStore for TLC. *)
EXTENDS TableStore

CONSTANTS id, u, s, v,      \* columns
          One, Two, Three, Four, Five,  \* identifiers
          A                 \* a scalar, or a vector

\* Two unique columns; the second is a float with both zeros and NaN.
KeysDomain == [c \in {id, u} |-> IF c = id THEN {One, Two, Three, Four} ELSE {Zero, NegZero, NaN, A}]

\* A key, a scalar that may have an index, and a vector.
MixedDomain == [c \in {id, s, v} |-> CASE c = id -> {One, Two, Three}
                                       [] c = s -> {A}
                                       [] c = v -> {Zero, NegZero}]

\* A key and a vector, with enough rows for several slabs and blocks.
SlabsDomain == [c \in {id, v} |-> IF c = id THEN {One, Two, Three, Four, Five} ELSE {A}]

\* Identifiers are interchangeable.
KeysSymmetry == Permutations({One, Two, Three, Four})
MixedSymmetry == Permutations({One, Two, Three})
SlabsSymmetry == Permutations({One, Two, Three, Four, Five})
=============================================================================
