----------------------------- MODULE JavaMonitors -----------------------------
(***************************************************************************)
(* What the virtual machine promises about monitors, without lists, stack  *)
(* locks, timeouts or a scheduler: an object has at most one owner, the    *)
(* threads that contend for it, and the threads that wait on it.           *)
(*                                                                         *)
(* A released object is handed to a contender at once.  A thread leaves a  *)
(* wait set, for whatever reason, only to own the object again, with as    *)
(* many locks on it as before, or to contend for it.                       *)
(*                                                                         *)
(* Module Scheduler implements this specification.                         *)
(***************************************************************************)
EXTENDS Naturals

CONSTANTS Threads, Objects, NoThread, MaxDepth

VARIABLES
    owner,     \* per object, the thread that owns it
    entrySet,  \* per object, the threads that contend for it
    waitSet,   \* per object, the threads that wait on it
    depth      \* per thread and object, the locks it has or will have again

vars == <<owner, entrySet, waitSet, depth>>

Init ==
    /\ owner = [o \in Objects |-> NoThread]
    /\ entrySet = [o \in Objects |-> {}]
    /\ waitSet = [o \in Objects |-> {}]
    /\ depth = [t \in Threads |-> [o \in Objects |-> 0]]

\* t can run: it neither contends nor waits
Free(t) == \A o \in Objects : t \notin entrySet[o] /\ t \notin waitSet[o]

\* o is given up; when somebody contends for it, one contender gets it
HandOver(o) ==
    \/ /\ entrySet[o] = {}
       /\ owner' = [owner EXCEPT ![o] = NoThread]
       /\ UNCHANGED entrySet
    \/ \E u \in entrySet[o] :
          /\ owner' = [owner EXCEPT ![o] = u]
          /\ entrySet' = [entrySet EXCEPT ![o] = @ \ {u}]

Enter(t, o) ==
    /\ Free(t)
    /\ depth[t][o] < MaxDepth
    /\ owner[o] \in {NoThread, t}
    /\ owner' = [owner EXCEPT ![o] = t]
    /\ depth' = [depth EXCEPT ![t][o] = @ + 1]
    /\ UNCHANGED <<entrySet, waitSet>>

Contend(t, o) ==
    /\ Free(t)
    /\ owner[o] \notin {NoThread, t}
    /\ entrySet' = [entrySet EXCEPT ![o] = @ \union {t}]
    /\ depth' = [depth EXCEPT ![t][o] = @ + 1]
    /\ UNCHANGED <<owner, waitSet>>

Exit(t, o) ==
    /\ Free(t)
    /\ owner[o] = t
    /\ depth' = [depth EXCEPT ![t][o] = @ - 1]
    /\ IF depth[t][o] > 1 THEN UNCHANGED <<owner, entrySet>> ELSE HandOver(o)
    /\ UNCHANGED waitSet

WaitOn(t, o) ==
    /\ Free(t)
    /\ owner[o] = t
    /\ waitSet' = [waitSet EXCEPT ![o] = @ \union {t}]
    /\ HandOver(o)
    /\ UNCHANGED depth

\* threads W stop waiting on o, by a notify, a timeout or an interrupt, or
\* because the thread they join has ended
StopWaiting(o, W) ==
    /\ waitSet' = [waitSet EXCEPT ![o] = @ \ W]
    /\ \/ /\ owner[o] # NoThread
          /\ entrySet' = [entrySet EXCEPT ![o] = @ \union W]
          /\ UNCHANGED owner
       \/ /\ owner[o] = NoThread
          /\ \E u \in W :
               /\ owner' = [owner EXCEPT ![o] = u]
               /\ entrySet' = [entrySet EXCEPT ![o] = @ \union (W \ {u})]
    /\ UNCHANGED depth

Next ==
    \E o \in Objects :
        \/ \E t \in Threads : \/ Enter(t, o)
                             \/ Contend(t, o)
                             \/ Exit(t, o)
                             \/ WaitOn(t, o)
        \/ \E W \in SUBSET waitSet[o] : StopWaiting(o, W)

Spec == Init /\ [][Next]_vars

-----------------------------------------------------------------------------
\* Types of the variables.
TypeOK ==
    /\ owner \in [Objects -> Threads \union {NoThread}]
    /\ entrySet \in [Objects -> SUBSET Threads]
    /\ waitSet \in [Objects -> SUBSET Threads]
    /\ depth \in [Threads -> [Objects -> 0..MaxDepth]]

\* An owner is not stuck on its own object, nobody contends for an object that
\* nobody owns, and locks are held, or will be held again, by exactly the
\* threads that own, contend or wait.
Exclusion ==
    \A o \in Objects :
        /\ entrySet[o] # {} => owner[o] # NoThread
        /\ entrySet[o] \intersect waitSet[o] = {}
        /\ owner[o] \notin entrySet[o] \union waitSet[o]
        /\ \A t \in Threads :
             depth[t][o] > 0 <=> t \in {owner[o]} \union entrySet[o] \union waitSet[o]

=============================================================================
