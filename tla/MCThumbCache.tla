---------------------------- MODULE MCThumbCache ----------------------------
(***************************************************************************)
(* Instances of ThumbCache: two sizes, of which the larger alone exceeds   *)
(* 0.8 of the quota, so that each get of a missing thumbnail may collect   *)
(* the other one.                                                          *)
(***************************************************************************)
EXTENDS ThumbCache, TLC

MCCost == [k \in 1 .. 2 |-> k]

ReaderSymmetry == Permutations(Readers)
=============================================================================
