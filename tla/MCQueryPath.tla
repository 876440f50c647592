---------------------------- MODULE MCQueryPath -----------------------------
(* The instance of QueryPath: two queries, two shards. *)
EXTENDS QueryPath, TLC

Symmetry == Permutations(Clients) \cup Permutations(Shards)
=============================================================================
