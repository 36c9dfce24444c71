-------------------------- MODULE MCAgentReadiness --------------------------
(***************************************************************************)
(* TLC instances of AgentReadiness.                                        *)
(***************************************************************************)
EXTENDS AgentReadiness

CONSTANTS a1, a2, alice, bob

ReadyOnly == {"ready"}
BusyOrReady == {"processing", "ready"}
=============================================================================
