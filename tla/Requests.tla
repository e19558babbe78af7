------------------------------ MODULE Requests -----------------------------
(***************************************************************************)
(* A request for reading waits until the action of its kind has computed   *)
(* an answer.  Nothing is written, so one request at a time shows all      *)
(* there is.                                                               *)
(***************************************************************************)
VARIABLES request, answer
vars == <<request, answer>>

Pending == [kind |-> "pending"]
Asked(kind) == answer = Pending /\ request.kind = kind /\ UNCHANGED request
Answered == answer # Pending /\ UNCHANGED vars
IsAnswered(kind) == answer # Pending /\ request.kind = kind
=============================================================================
