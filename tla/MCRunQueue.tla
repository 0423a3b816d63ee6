----------------------------- MODULE MCRunQueue ------------------------------
(* Small instances of RunQueue for TLC. *)
EXTENDS RunQueue

Symmetry == Permutations(Threads)
=============================================================================
