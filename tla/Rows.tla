-------------------------------- MODULE Rows --------------------------------
(***************************************************************************)
(* Rows kept from a sequence of rows, in their order: Vec::retain and the   *)
(* filters of src/engine.  SelectSeq says the same, but it is built in and  *)
(* its definition is not there for a proof to unfold.                       *)
(***************************************************************************)
EXTENDS Integers, SequencesExt

Kept(rows, keep) ==
    LET kept[n \in 0 .. Len(rows)] ==
          IF n = 0 THEN <<>>
          ELSE IF keep[n] THEN Append(kept[n - 1], rows[n])
          ELSE kept[n - 1]
    IN  kept[Len(rows)]

Where(rows, Test(_)) == Kept(rows, [n \in DOMAIN rows |-> Test(rows[n])])
=============================================================================
