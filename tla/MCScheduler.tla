----------------------------- MODULE MCScheduler -----------------------------
(* Small instances of Scheduler for TLC. *)
EXTENDS Scheduler

CONSTANTS t1, o1

\* no thread is joined: all threads, and all objects, are interchangeable
NoJoins == [t \in Threads |-> NoObject]

\* t1 can be joined: o1 is its Thread object
JoinT1 == [t \in Threads |-> IF t = t1 THEN o1 ELSE NoObject]

\* bounds: one thread at a time has an interrupt pending or is blocked in native
\* code, and an interrupt is pending only in the first millisecond
FewAtOnce ==
    LET pending == {t \in Threads : pendingInterrupt[t]}
    IN  /\ Cardinality(async) + Cardinality(pending) <= 1
        /\ clock > 1 => pending = {}

Symmetry == Permutations(Threads) \union Permutations(Objects)
JoinSymmetry == Permutations(Threads \ {t1})
=============================================================================
