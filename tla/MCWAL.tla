------------------------------- MODULE MCWAL --------------------------------
(* WAL for TLC. *)
EXTENDS WAL, TLC

\* Entries are interchangeable: their order is the order of append.
Symmetry == Permutations(Entries)
=============================================================================
