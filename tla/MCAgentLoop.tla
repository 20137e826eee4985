----------------------------- MODULE MCAgentLoop -----------------------------
(* AgentLoop on a budget small enough to run out in the middle of a batch.  *)
EXTENDS AgentLoop

BothArms == {"baseline", "advanced"}
=============================================================================
