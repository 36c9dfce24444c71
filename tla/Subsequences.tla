------------------------------ MODULE Subsequences ------------------------------
(***************************************************************************)
(* The filter of the code's list comprehensions and queue sweeps.          *)
(*                                                                         *)
(* It takes the set of the elements to keep, where SelectSeq takes a test, *)
(* because what depends on an operator cannot be proved about; its         *)
(* properties are proved in Subsequences_proofs.                           *)
(***************************************************************************)
EXTENDS Naturals, Sequences

\* The subsequence of the elements of q that are in S.
Only(q, S) ==
  LET upTo[n \in 0 .. Len(q)] ==
        IF n = 0 THEN <<>>
        ELSE IF q[n] \in S THEN Append(upTo[n - 1], q[n]) ELSE upTo[n - 1]
  IN upTo[Len(q)]
=============================================================================
