------------------------------ MODULE MCFileLane ------------------------------
(***************************************************************************)
(* TLC instances of FileLane.                                              *)
(***************************************************************************)
EXTENDS FileLane

CONSTANTS alice, bob
=============================================================================
