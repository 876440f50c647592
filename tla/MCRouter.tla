------------------------------ MODULE MCRouter ------------------------------
(* The instance of Router.  Shard ids are told apart only by their weights,   *)
(* which are permuted with them.                                              *)
EXTENDS Router, TLC

Symmetry == Permutations(Shards)
=============================================================================
