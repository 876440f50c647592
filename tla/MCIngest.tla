------------------------------ MODULE MCIngest ------------------------------
(* The instances of Ingest: a shard without replicas, and one with two. *)
EXTENDS Ingest, TLC

CONSTANTS va, vb, m1, m2, n0, n1, n2

\* Two records that differ in vector and metadata.
TwoRecords == {[vec |-> va, md |-> m1], [vec |-> vb, md |-> m2]}

\* Two records of one vector, and one of another.
ThreeRecords == {[vec |-> va, md |-> m1], [vec |-> va, md |-> m2], [vec |-> vb, md |-> m1]}
NoReplicas == <<>>
TwoReplicas == <<n1, n2>>

Symmetry == Permutations(Ids)
=============================================================================
