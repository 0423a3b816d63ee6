------------------------------- MODULE RunQueue -------------------------------
(***************************************************************************)
(* The active queues of the scheduler: which active thread runs next.      *)
(* share/runtime/Scheduler.cpp (adjust_priority_list, set_priority,        *)
(* get_next_runnable_thread, terminate_all) and the masks of Scheduler.hpp.*)
(*                                                                         *)
(* A priority has a circular list of active threads, here a sequence that  *)
(* starts at the list head.  _priority_queue_valid is the set of the       *)
(* priorities whose bit is set.  Why a thread becomes active or leaves is  *)
(* the subject of module Scheduler; here any thread may.                   *)
(***************************************************************************)
EXTENDS Integers, Sequences, FiniteSets, SequencesExt

CONSTANTS
    Threads,     \* live java.lang.Thread instances
    NoThread,    \* a null Thread pointer
    Priorities,  \* priorities the program uses, of the slots 1..10
    Slots,       \* ThreadObj::NUM_PRIORITY_SLOTS
    Normal       \* ThreadObj::PRIORITY_NORMAL, the priority of a new thread

ASSUME ThreadsAssumption == NoThread \notin Threads
ASSUME PrioritiesAssumption ==
    /\ Slots \in Nat \ {0}
    /\ Priorities \subseteq 1..Slots
    /\ Normal \in Priorities

VARIABLES
    current,    \* Thread::current()
    phase,      \* "java"; "yield" and "idle" inside yield; "native" after terminate_all
    priority,   \* ThreadObj priority
    queue,      \* scheduler_priority_queues
    valid,      \* _priority_queue_valid
    lastQueue,  \* _last_priority_queue
    executed,   \* _thread_execute_counts
    next        \* _next_runnable_thread

vars == <<current, phase, priority, queue, valid, lastQueue, executed, next>>

-----------------------------------------------------------------------------
Active == UNION {ToSet(queue[p]) : p \in Priorities}

First(s) == IF s = <<>> THEN NoThread ELSE Head(s)

Position(s, x) == CHOOSE i \in DOMAIN s : s[i] = x

\* the circular list s seen from its element x
From(s, x) ==
    LET i == Position(s, x) IN SubSeq(s, i, Len(s)) \o SubSeq(s, 1, i - 1)

\* (An operator whose name extends that of the one after it, as
\* CandidateUnrotated does that of Candidate, is a wrong version of it, which
\* the properties are tested on; the specification does not use it.)

\* adding a thread to a list, and removing it; the head changes only when the
\* list was empty or the thread was the head
Added(q, t, p)   == [q EXCEPT ![p] = Append(@, t)]
Removed(q, t, p) == [q EXCEPT ![p] = RemoveAt(@, Position(@, t))]

\* the cache after t has been removed and the lists are q: it moves to the new
\* head of t's list
CacheWithoutReset(t, q) == next
CacheWithout(t, q) == IF next = t THEN First(q[priority[t]]) ELSE next

\* the bit that clear_priority_valid clears
Drained(q, p) == IF q[p] = <<>> THEN {p} ELSE {}

-----------------------------------------------------------------------------
(* get_next_runnable_thread on the lists q with the bits v.                 *)

\* no bit above the last queue is set: the search starts at that queue, and at
\* the highest slot otherwise
NoHigherInverted(v) == v # {} /\ \A p \in v : p >= lastQueue
NoHigher(v)   == v # {} /\ \A p \in v : p <= lastQueue
Scanned(q, v) == {p \in Priorities : q[p] # <<>> /\ (NoHigher(v) => p <= lastQueue)}

WithinQuota(p) == executed[p] <= p * 2
Allowed(S) == {p \in S : WithinQuota(p)}
Highest(S) == CHOOSE p \in S : \A r \in S : r <= p

\* when every queue has used its quota the counts are reset and the search is
\* repeated
ChosenQueue(S) == Highest(IF Allowed(S) = {} THEN S ELSE Allowed(S))
CountsLowered(S) ==
    IF Allowed(S) = {} THEN [p \in Priorities |-> executed[p] - p * 2 - 1] ELSE executed
Counts(S) == IF Allowed(S) = {} THEN [p \in Priorities |-> 0] ELSE executed

\* the head of the chosen list, or the thread after it when the head is the one
\* that yields
CandidateUnrotated(s, from) == Head(s)
Candidate(s, from) == IF Head(s) = from /\ Len(s) > 1 THEN s[2] ELSE Head(s)

\* "from" is starting_thread, NoThread when nobody yields
Pick(q, v, from) ==
    LET S == Scanned(q, v) IN
    IF v = {} \/ S = {}
    THEN next' = NoThread /\ queue' = q /\ UNCHANGED <<lastQueue, executed>>
    ELSE LET p == ChosenQueue(S)
             t == Candidate(q[p], from)
         IN  /\ next' = t
             /\ lastQueue' = p
             /\ queue' = [q EXCEPT ![p] = From(@, t)]
             /\ executed' = [Counts(S) EXCEPT ![p] = @ + 1]

\* switch_thread at the end of a call into the VM: the cached thread, which is
\* the running one unless nothing has been picked yet
SwitchThread(q, v) ==
    /\ IF next # NoThread
       THEN queue' = q /\ UNCHANGED <<next, lastQueue, executed>>
       ELSE Pick(q, v, NoThread)
    /\ valid' = v
    /\ current' = next'

-----------------------------------------------------------------------------
Init ==
    /\ current \in Threads
    /\ phase = "java"
    /\ priority = [t \in Threads |-> Normal]
    /\ queue = [p \in Priorities |-> IF p = Normal THEN <<current>> ELSE <<>>]
    /\ valid = {Normal}
    /\ lastQueue = 0
    /\ executed = [p \in Priorities |-> 0]
    /\ next = NoThread

Running(t) == phase = "java" /\ current = t

\* the current thread starts, notifies, interrupts, or hands a lock to, t
MakeActive(t) ==
    /\ phase = "java"
    /\ t \notin Active
    /\ SwitchThread(Added(queue, t, priority[t]), valid \union {priority[t]})
    /\ UNCHANGED <<phase, priority>>

\* Thread.setPriority of an active thread: it goes to the end of its new list
MoveToPriority(t, p) ==
    /\ phase = "java"
    /\ t \in Active
    /\ priority' = [priority EXCEPT ![t] = p]
    /\ LET q == Removed(queue, t, priority[t])
       IN  SwitchThread(Added(q, t, p), (valid \ Drained(q, priority[t])) \union {p})
    /\ UNCHANGED phase

\* Thread.setPriority of any other thread, for the next time it becomes active
SetPriority(t, p) ==
    /\ phase = "java"
    /\ t \notin Active
    /\ priority' = [priority EXCEPT ![t] = p]
    /\ SwitchThread(queue, valid)
    /\ UNCHANGED phase

\* Thread.yield, or a timer tick
Yield(t) ==
    /\ Running(t)
    /\ phase' = "yield"
    /\ UNCHANGED <<current, priority, queue, valid, lastQueue, executed, next>>

\* the current thread sleeps, waits, queues on a lock, blocks in a native method
\* or ends, and yields
Leave(t) ==
    /\ Running(t)
    /\ LET q == Removed(queue, t, priority[t])
       IN  /\ queue' = q
           /\ valid' = valid \ Drained(q, priority[t])
           /\ next' = CacheWithout(t, q)
    /\ phase' = "yield"
    /\ UNCHANGED <<current, priority, lastQueue, executed>>

\* inside yield a thread times out, or its event arrives
WakeUp(t) ==
    /\ phase \in {"yield", "idle"}
    /\ t \notin Active
    /\ queue' = Added(queue, t, priority[t])
    /\ valid' = valid \union {priority[t]}
    /\ UNCHANGED <<current, phase, priority, lastQueue, executed, next>>

\* yield picks the next thread and switch_thread makes it the current one
Dispatch ==
    /\ phase = "yield"
    /\ Pick(queue, valid, current)
    /\ IF next' = NoThread
       THEN phase' = "idle" /\ UNCHANGED current
       ELSE phase' = "java" /\ current' = next'
    /\ UNCHANGED <<priority, valid>>

\* the loop of a yield that has found nothing, after its wait
DispatchIdle ==
    /\ phase = "idle"
    /\ valid # {}
    /\ SwitchThread(queue, valid)
    /\ phase' = "java"
    /\ UNCHANGED priority

\* System.exit: only the current thread stays on the queues, and native code
\* runs on it
TerminateAll(t) ==
    /\ Running(t)
    /\ valid' = {priority[t]}
    /\ Pick([p \in Priorities |-> IF p = priority[t] THEN <<t>> ELSE <<>>],
            {priority[t]}, NoThread)
    /\ phase' = "native"
    /\ UNCHANGED <<current, priority>>

Stopped == phase = "native" /\ UNCHANGED vars

Next ==
    \/ \E t \in Threads : \/ MakeActive(t)
                         \/ \E p \in Priorities : \/ MoveToPriority(t, p)
                                                 \/ SetPriority(t, p)
                         \/ Yield(t)
                         \/ Leave(t)
                         \/ WakeUp(t)
                         \/ TerminateAll(t)
    \/ Dispatch
    \/ DispatchIdle
    \/ Stopped

Spec == Init /\ [][Next]_vars

\* A yield that was begun ends, and a timer tick makes every running thread
\* yield: nothing is assumed about who is woken or leaves.
Fairness == /\ \A t \in Threads : WF_vars(Yield(t))
            /\ WF_vars(Dispatch)
            /\ WF_vars(DispatchIdle)

FairSpec == Spec /\ Fairness

-----------------------------------------------------------------------------
(* Properties.                                                              *)

\* Types of the variables; the counts stay in an unsigned char, at most one
\* above the quota.
TypeOK ==
    /\ current \in Threads
    /\ phase \in {"java", "yield", "idle", "native"}
    /\ priority \in [Threads -> Priorities]
    /\ queue \in [Priorities -> Seq(Threads)]
    /\ valid \in SUBSET Priorities
    /\ lastQueue \in Priorities \union {0}
    /\ executed \in [Priorities -> Nat]
    /\ \A p \in Priorities : executed[p] <= p * 2 + 1
    /\ next \in Threads \union {NoThread}

\* "Threads in queue, but bit is clear", "No threads in queue, but bit is set":
\* the bit mask that the product build trusts agrees with the lists, through
\* removals, priority changes and exits; and an active thread is on one list,
\* once, the list of its priority, where remove_from_active will look for it.
\* The cached thread can always be run: it is active, it is the running thread
\* while Java code runs, so that the switch at the end of any call into the VM
\* does not take the processor from it, and it is only null while nothing has
\* been picked or nothing is active.
QueuesConsistent ==
    /\ valid = {p \in Priorities : queue[p] # <<>>}
    /\ \A p \in Priorities :
         /\ IsInjective(queue[p])
         /\ \A t \in ToSet(queue[p]) : priority[t] = p
    /\ next # NoThread => next \in Active
    /\ phase \in {"java", "native"} => current \in Active
    /\ phase \in {"java", "native"} /\ lastQueue # 0 => next = current
    /\ phase = "idle" => next = NoThread

\* The search finds a thread whenever one is active, although it starts at the
\* last queue and although quotas make it skip queues ("Thread disappeared",
\* "No active threads").
SearchComplete ==
    [][(phase = "yield" /\ phase' = "idle") => Active = {}]_vars

\* A yield passes the processor to a thread of lower priority than an active
\* one only when every higher queue has used up its quota, and to another
\* thread of its own priority when there is one.
PriorityRespected ==
    [][Dispatch /\ next' # NoThread =>
          /\ \A p \in Priorities : queue[p] # <<>> /\ p > priority[next'] =>
               ~WithinQuota(p)
          /\ next' = current => queue[priority[current]] = <<current>>]_vars

\* Quotas and rotation: once threads only yield, each active one of whatever
\* priority runs again and again.
YieldersShare ==
    <>[][\E t \in Threads : Yield(t) \/ Dispatch]_vars =>
        \A t \in Threads : []<>(t \in Active => current = t)

=============================================================================
