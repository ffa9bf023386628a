--------------------------- MODULE MCAgentInbound ---------------------------
(* Small instances of AgentInbound: all posts have the same body. *)
EXTENDS AgentInbound

CONSTANT TheBody

MCBodyOf == [h \in Hooks |-> TheBody]
=============================================================================
