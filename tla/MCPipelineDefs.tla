--------------------------- MODULE MCPipelineDefs ---------------------------
(* Instances of PipelineDefs for TLC. *)
EXTENDS PipelineDefs
=============================================================================
