--------------------------- MODULE MCTaskObjects ---------------------------
(* Small instances of TaskObjects: every upload writes the same result. *)
EXTENDS TaskObjects

CONSTANT TheResult

MCResultOf == [u \in Uploads |-> TheResult]

=============================================================================
