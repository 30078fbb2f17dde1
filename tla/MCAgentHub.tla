----------------------------- MODULE MCAgentHub -----------------------------
(* Instances of AgentHub for TLC. *)
EXTENDS AgentHub

=============================================================================
