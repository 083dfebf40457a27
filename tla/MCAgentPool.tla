---------------------------- MODULE MCAgentPool -----------------------------
(***************************************************************************)
(* The instance of AgentPool for TLC.                                      *)
(***************************************************************************)
EXTENDS AgentPool

CONSTANTS w1, w2, w3

ThreeWorkers == {w1, w2, w3}
=============================================================================
