----------------------------- MODULE LatestFrame -----------------------------
(***************************************************************************)
(* What the hub promises the readers of a video track (FRAME_REQUEST, the  *)
(* on_frame callbacks): a register per track that is empty or shows one    *)
(* frame of that track, is overwritten only by a newer one of the track,   *)
(* and changes under a reader for no other reason than being emptied.      *)
(* FrameRing implements it with a ring in shared memory, signals, holds    *)
(* and releases.                                                           *)
(***************************************************************************)
EXTENDS Naturals

CONSTANTS Keys, Frames, None

VARIABLE shown   \* the frame each track shows, or None

Init == shown = [k \in Keys |-> None]

\* The track moves on to a newer frame.
Show(k, f) ==
  /\ shown[k] = None \/ shown[k].frame < f
  /\ shown' = [shown EXCEPT ![k] = [frame |-> f, key |-> k]]

\* The participant leaves, or the ring its frames are in is replaced.
Drop(K) == shown' = [k \in Keys |-> IF k \in K THEN None ELSE shown[k]]

Next ==
  \/ \E k \in Keys, f \in Frames : Show(k, f)
  \/ \E K \in SUBSET Keys : Drop(K)

Spec == Init /\ [][Next]_shown
=============================================================================
