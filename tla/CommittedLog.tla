---------------------------- MODULE CommittedLog ----------------------------
(***************************************************************************)
(* What a durable database promises its clients, with no file in sight: the *)
(* catalog is one sequence of committed mutations, extended by one client   *)
(* at a time and never shortened or reordered.  When the process or the     *)
(* machine stops, at most the one mutation in flight, whose client saw no   *)
(* answer or an error, may turn up at the end of the sequence.              *)
(***************************************************************************)
EXTENDS Sequences

CONSTANT Ops   \* the mutations

VARIABLES log,  \* the mutations the catalog holds, oldest first
          up    \* is the database open

vars == <<log, up>>

Init == log = << >> /\ up = FALSE

Extended == \E op \in Ops : log' = Append(log, op)

Commit == up /\ up' = up /\ Extended

Stop == up' = FALSE /\ (log' = log \/ Extended)

Restart == ~up /\ up' = TRUE /\ log' = log

Next == Commit \/ Stop \/ Restart

Spec == Init /\ [][Next]_vars
=============================================================================
