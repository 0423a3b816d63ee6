----------------------------- MODULE MCClassInit -----------------------------
(* Small instances of ClassInit for TLC. *)
EXTENDS ClassInit

CONSTANTS A, B

\* the static initializer of the superclass uses the subclass
MCSuper == (A :> NoClass) @@ (B :> A)
MCUses == (A :> {B}) @@ (B :> {})
Symmetry == Permutations(Threads)
=============================================================================
