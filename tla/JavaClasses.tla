------------------------------ MODULE JavaClasses ------------------------------
(***************************************************************************)
(* What the initialization of classes promises to Java code, without locks *)
(* and status bits: one thread at a time initializes a class, its          *)
(* superclass first, its static initializer runs at most once, and what    *)
(* became of it never changes.                                             *)
(*                                                                         *)
(* Module ClassInit implements this specification.                         *)
(***************************************************************************)
CONSTANTS Threads, Classes, Super, NoThread, NoClass

VARIABLES
    state,   \* per class: "linked", "begun", "running" its static initializer,
             \* "failing", and in the end "initialized" or "erroneous"
    by       \* per class, the thread that initializes it

vars == <<state, by>>

Init ==
    /\ state = [c \in Classes |-> "linked"]
    /\ by = [c \in Classes |-> NoThread]

Begin(t, c) ==
    /\ state[c] = "linked"
    /\ state' = [state EXCEPT ![c] = "begun"]
    /\ by' = [by EXCEPT ![c] = t]

\* t finds c initialized, or is itself initializing it
Ready(t, c) == state[c] = "initialized" \/ by[c] = t

Run(t, c) ==
    /\ state[c] = "begun" /\ by[c] = t
    /\ Super[c] = NoClass \/ Ready(t, Super[c])
    /\ state' = [state EXCEPT ![c] = "running"]
    /\ UNCHANGED by

Complete(t, c) ==
    /\ state[c] = "running" /\ by[c] = t
    /\ state' = [state EXCEPT ![c] = "initialized"]
    /\ by' = [by EXCEPT ![c] = NoThread]

Throw(t, c) ==
    /\ state[c] \in {"begun", "running"} /\ by[c] = t
    /\ state' = [state EXCEPT ![c] = "failing"]
    /\ UNCHANGED by

Fail(t, c) ==
    /\ state[c] = "failing" /\ by[c] = t
    /\ state' = [state EXCEPT ![c] = "erroneous"]
    /\ by' = [by EXCEPT ![c] = NoThread]

Next ==
    \E t \in Threads, c \in Classes :
        Begin(t, c) \/ Run(t, c) \/ Complete(t, c) \/ Throw(t, c) \/ Fail(t, c)

Spec == Init /\ [][Next]_vars

===============================================================================
