---------------------------- MODULE MCFrameRing ----------------------------
(***************************************************************************)
(* TLC instances of FrameRing.                                             *)
(***************************************************************************)
EXTENDS FrameRing, TLC

CONSTANTS c1, c2, alice, bob, cam1, cam2

\* Two processes of one connector: before and after a restart.
OneId == [c \in Conns |-> "hub-a"]
OneIdSet == {"hub-a"}

\* Two connectors side by side.
TwoIds == [c \in Conns |-> IF c = c1 THEN "hub-a" ELSE "hub-b"]
TwoIdSet == {"hub-a", "hub-b"}

Symmetry == Permutations(Pids) \cup Permutations(Tracks)
=============================================================================
