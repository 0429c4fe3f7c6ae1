-------------------------------- MODULE Loops --------------------------------
(***************************************************************************)
(* What the loops of the worker make of a slice.                           *)
(***************************************************************************)
EXTENDS Integers, Sequences

(* The elements of s that are in T, in their order: a loop that appends or *)
(* continues.                                                              *)
Only(s, T) ==
  LET upTo[i \in 0..Len(s)] ==
        IF i = 0 THEN <<>>
        ELSE IF s[i] \in T THEN Append(upTo[i - 1], s[i]) ELSE upTo[i - 1]
  IN  upTo[Len(s)]
=============================================================================
