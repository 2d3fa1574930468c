---------------------------- MODULE MCToolAgent ----------------------------
(* TLC instance of ToolAgent. *)
EXTENDS ToolAgent
=============================================================================
