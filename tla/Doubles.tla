------------------------------- MODULE Doubles -------------------------------
(***************************************************************************)
(* What encoding/json makes of an integer it decodes into an `any`: the    *)
(* nearest double.  Above MaxExact, up to twice that, doubles are the even *)
(* integers, ties going to the multiple of four.                           *)
(***************************************************************************)
EXTENDS Integers

CONSTANT MaxExact    \* 2^53: the integers up to here are exact in a double
ASSUME MaxExactAssumption == MaxExact \in Nat

NearestEven(m) == IF m % 4 = 1 THEN m - 1 ELSE IF m % 4 = 3 THEN m + 1 ELSE m
Exact(v) == -MaxExact <= v /\ v <= MaxExact
Float64(v) == IF Exact(v) THEN v ELSE IF v > 0 THEN NearestEven(v) ELSE -NearestEven(-v)
=============================================================================
