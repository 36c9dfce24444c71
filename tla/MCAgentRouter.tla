--------------------------- MODULE MCAgentRouter ---------------------------
(***************************************************************************)
(* TLC instances of AgentRouter.                                           *)
(***************************************************************************)
EXTENDS AgentRouter, TLC

CONSTANTS alice, bob, talk, help

Calls == {"direct", "join"}
Tasks == {"query", "join"}
=============================================================================
