--------------------------- MODULE MCDurableStore ---------------------------
(* Instances of DurableStore for TLC. *)
EXTENDS DurableStore, TLC

\* Threads and mutations are interchangeable.
Symmetry == Permutations(Threads) \cup Permutations(Ops)
=============================================================================
