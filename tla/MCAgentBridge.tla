--------------------------- MODULE MCAgentBridge ---------------------------
(* A hub, two tabs and a few calls, for TLC.                               *)
EXTENDS AgentBridge
=============================================================================
