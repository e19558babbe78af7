------------------------------- MODULE Reads -------------------------------
(***************************************************************************)
(* The read path of src/src: one request of any kind, and its answer.      *)
(***************************************************************************)
EXTENDS SqlReads, GraphReads

Init == SqlInit \/ GraphInit

Next ==
  \/ EvaluateExpression \/ Select \/ SelectJoin
  \/ GraphNext

Spec == Init /\ [][Next]_vars
=============================================================================
