------------------------------ MODULE MCServer ------------------------------
(* Instances of Server for TLC. *)
EXTENDS Server

\* Stops and saves under plain writes, and every request in a server that goes on.
ThreeLives ==
    {[autosave |-> TRUE, limit |-> 1, stops |-> TRUE, kinds |-> {"write"}],
     [autosave |-> FALSE, limit |-> 1, stops |-> TRUE, kinds |-> {"write"}],
     [autosave |-> FALSE, limit |-> 2, stops |-> FALSE, kinds |-> Kinds]}
=============================================================================
