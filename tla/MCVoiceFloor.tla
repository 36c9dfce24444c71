---------------------------- MODULE MCVoiceFloor ----------------------------
(* Two requests, the first with a streamed and a finite reply, the second with a       *)
(* streamed one; urgent and ordinary updates of two producers.  Any MaxItems of the    *)
(* items come in, in every order.                                                      *)
EXTENDS VoiceFloor

MCRequestOf == [i \in Replies |-> IF i \in {1, 2} THEN "q1" ELSE "q2"]
MCSourceOf == [i \in Urgents \cup Updates |-> IF i % 2 = 1 THEN "guide" ELSE "timer"]
=============================================================================
