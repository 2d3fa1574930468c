--------------------------- MODULE MCAgentStream ---------------------------
(* TLC instance of AgentStream. *)
EXTENDS AgentStream
=============================================================================
