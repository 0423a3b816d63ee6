----------------------------- MODULE JavaObjects -----------------------------
(***************************************************************************)
(* What the object heap promises to Java code, without addresses,          *)
(* generations, bit vectors or a marking stack: objects that refer to each *)
(* other, the local variables of a thread, weak references, and a          *)
(* collector of which a program sees only what it takes away.              *)
(*                                                                         *)
(* The collector takes only objects that the program cannot reach, clears  *)
(* a weak reference only when its referent can no longer be reached, and   *)
(* finalizes an unreachable object once, after the weak references to it   *)
(* have been cleared and before it is taken away.                          *)
(*                                                                         *)
(* Module ObjectHeap implements this specification.                        *)
(***************************************************************************)
EXTENDS Functions, Integers

CONSTANTS
    Objects,      \* the objects a program creates
    Weaks,        \* those of them that are WeakReferences; they have a finalizer
    FieldCount,   \* per object, how many fields it has
    LocalCount,   \* how many local variables the thread has
    NoObject      \* null

VARIABLES
    fields,       \* per object that exists, what its fields refer to
    locals,       \* what the local variables refer to
    referent,     \* per WeakReference that exists, what it refers to
    unfinalized   \* the objects whose finalizer has yet to run

vars == <<fields, locals, referent, unfinalized>>

Exists == DOMAIN fields
Blank(o) == [f \in 1..FieldCount[o] |-> NoObject]

Held == Range(locals) \ {NoObject}

\* the objects that can be reached from the local variables: those in every
\* set that has what is held and all that its members refer to
Reachable ==
    {o \in Exists :
        \A X \in SUBSET Exists :
            /\ Held \subseteq X
            /\ \A p \in X : Range(fields[p]) \subseteq X \union {NoObject}
            => o \in X}

Init ==
    \E o \in Objects \ Weaks :
        /\ fields = [p \in {o} |-> Blank(o)]
        /\ locals = [l \in 1..LocalCount |-> IF l = 1 THEN o ELSE NoObject]
        /\ referent = [w \in {} |-> NoObject]
        /\ unfinalized = {}

New(o, l) ==
    /\ o \notin Exists
    /\ fields' = [p \in Exists \union {o} |-> IF p = o THEN Blank(o) ELSE fields[p]]
    /\ locals' = [locals EXCEPT ![l] = o]
    /\ referent' = [w \in DOMAIN referent \union ({o} \intersect Weaks) |->
                       IF w = o THEN NoObject ELSE referent[w]]
    /\ unfinalized' = unfinalized \union ({o} \intersect Weaks)

Put(o, f, v) ==
    /\ o \in Held
    /\ v \in Range(locals) \union {NoObject}
    /\ fields' = [fields EXCEPT ![o][f] = v]
    /\ UNCHANGED <<locals, referent, unfinalized>>

\* a variable is cleared, or gets what an object in hand refers to
Get(l, v) ==
    /\ v \in {NoObject} \union (UNION {Range(fields[o]) : o \in Held})
                        \union {referent[w] : w \in Held \intersect Weaks}
    /\ locals' = [locals EXCEPT ![l] = v]
    /\ UNCHANGED <<fields, referent, unfinalized>>

\* the program makes w refer to an object it holds, or to none
Refer(w, v) ==
    /\ w \in Held \intersect Weaks
    /\ v \in Range(locals) \union {NoObject}
    /\ referent' = [referent EXCEPT ![w] = v]
    /\ UNCHANGED <<fields, locals, unfinalized>>

\* the collector clears some weak references to objects out of reach
Clear ==
    /\ DOMAIN referent' = DOMAIN referent
    /\ \A w \in DOMAIN referent :
          \/ referent'[w] = referent[w]
          \/ referent'[w] = NoObject /\ referent[w] \notin Reachable
    /\ UNCHANGED <<fields, locals, unfinalized>>

\* the collector takes objects that nothing left behind refers to
Reclaim ==
    /\ Exists' \subseteq Exists
    /\ fields' = Restrict(fields, Exists')
    /\ referent' = Restrict(referent, Weaks \intersect Exists')
    /\ Reachable \union unfinalized \subseteq Exists'
    /\ (UNION {Range(fields'[o]) : o \in Exists'}) \union Range(referent')
          \subseteq Exists' \union {NoObject}
    /\ UNCHANGED <<locals, unfinalized>>

\* the finalizer of o runs: the WeakReference gives up its referent
Finalize(o) ==
    /\ o \in unfinalized \ Reachable
    /\ \A w \in DOMAIN referent : referent[w] # o
    /\ unfinalized' = unfinalized \ {o}
    /\ referent' = [referent EXCEPT ![o] = NoObject]
    /\ UNCHANGED <<fields, locals>>

Next ==
    \/ \E l \in 1..LocalCount :
          \/ \E o \in Objects : New(o, l)
          \/ \E v \in Exists \union {NoObject} : Get(l, v)
    \/ \E o \in Held, v \in Held \union {NoObject} :
          \E f \in 1..FieldCount[o] : Put(o, f, v)
    \/ \E w \in Held \intersect Weaks, v \in Held \union {NoObject} : Refer(w, v)
    \/ Clear
    \/ Reclaim
    \/ \E o \in unfinalized : Finalize(o)

Spec == Init /\ [][Next]_vars

=============================================================================
