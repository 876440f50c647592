-------------------------- MODULE MCShardMigration --------------------------
(* ShardMigration for TLC. *)
EXTENDS ShardMigration, TLC

\* Nodes and migration ids are interchangeable.
Symmetry == Permutations(Nodes) \cup Permutations(Migs)
=============================================================================
