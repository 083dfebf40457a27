----------------------------- MODULE MCAgentNode -----------------------------
(* Instances of AgentNode for TLC. *)
EXTENDS AgentNode
\* Both processes run elsewhere, or both belong to the machine.
MCMachines == {{}, Procs}
=============================================================================
