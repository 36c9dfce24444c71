---------------------------- MODULE MCRoomClient ----------------------------
(***************************************************************************)
(* TLC instances of RoomClient.                                            *)
(***************************************************************************)
EXTENDS RoomClient

CONSTANTS alice, bob
=============================================================================
