---------------------------- MODULE MCObjectStore ----------------------------
(***************************************************************************)
(* ObjectStore for TLC: two objects and one that is too large, two calls   *)
(* at a time.                                                              *)
(***************************************************************************)
EXTENDS ObjectStore, TLC

CONSTANTS a, b, large

MCSize == [o \in Objects |-> IF o = large THEN 3 ELSE 2]
CallerSymmetry == Permutations(Callers)
=============================================================================
