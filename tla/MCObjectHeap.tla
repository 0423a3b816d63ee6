---- MODULE MCObjectHeap ----
(* Instances of ObjectHeap. *)
EXTENDS ObjectHeap

CONSTANTS a, b, w1, w2

MCObjects == {a, b, w1, w2}
MCWeaks == {w1, w2}
MCFieldCount == (a :> 1) @@ (b :> 0) @@ (w1 :> 0) @@ (w2 :> 0)
Symmetry == Permutations(MCWeaks)
====
