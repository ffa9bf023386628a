--------------------------- MODULE MCTaskDispatch ---------------------------
(* Small instances of TaskDispatch: every task is addressed to one agent. *)
EXTENDS TaskDispatch, TLC

CONSTANT TheAgent

MCAgentOf == [t \in Tasks |-> TheAgent]

\* The replicas are interchangeable.
WorkerSymmetry == Permutations(Workers)
=============================================================================
