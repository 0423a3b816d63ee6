------------------------------- MODULE ClassInit -------------------------------
(***************************************************************************)
(* The initialization of classes: Class.initialize, "the 11 step program   *)
(* detailed in Java Language Specification 12.4.2", the test for it in the *)
(* bytecodes that use static members, and InstanceClass::initialize, which *)
(* calls it.                                                               *)
(*                                                                         *)
(* It runs on the monitors of module JavaMonitors, which the scheduler     *)
(* implements.  A thread may be switched at every method call, so a step   *)
(* here goes from one call to the next.  Module JavaClasses says what it   *)
(* is for.                                                                 *)
(*                                                                         *)
(* (An operator whose name extends that of the one after it, as            *)
(* NotifyAllOnce does that of NotifyAll, is a wrong version of it, which   *)
(* the properties are tested on; the specification does not use it.)       *)
(***************************************************************************)
EXTENDS Naturals, Sequences, FiniteSets, SequencesExt

CONSTANTS
    Threads, NoThread,
    Classes, NoClass,
    Super,     \* per class, its superclass
    Uses       \* per class, the classes its static initializer uses

ASSUME ClassAssumption ==
    /\ NoThread \notin Threads /\ NoClass \notin Classes
    /\ Super \in [Classes -> Classes \union {NoClass}]
    /\ Uses \in [Classes -> SUBSET Classes]

VARIABLES
    status,    \* Class.status, as the set of its bits
    thread,    \* Class.thread
    calls,     \* per thread, the calls of initialize it is in, innermost last
    owner, entrySet, waitSet, depth   \* the monitors, see JavaMonitors

monitors == <<owner, entrySet, waitSet, depth>>
vars == <<status, thread, calls, monitors>>

Monitor == INSTANCE JavaMonitors WITH Objects <- Classes, MaxDepth <- 1

Call(c) == [class |-> c, at |-> "lock", error |-> FALSE]

Init ==
    /\ status = [c \in Classes |-> {}]
    /\ thread = [c \in Classes |-> NoThread]
    /\ calls = [t \in Threads |-> <<>>]
    /\ Monitor!Init

\* is_initialized_class, InstanceClass::initialize and initialize_internal: no
\* call is needed when c is initialized, or being initialized by t
Initialized(t, c) ==
    \/ "INITIALIZED" \in status[c]
    \/ "IN_PROGRESS" \in status[c] /\ thread[c] = t

\* t runs its innermost call of initialize, for class c, at this place
At(t, c, place) ==
    /\ calls[t] # <<>>
    /\ Last(calls[t]).at = place /\ Last(calls[t]).class = c
    /\ Monitor!Free(t)

Goes(t, place) == calls' = [calls EXCEPT ![t][Len(calls[t])].at = place]

\* so does it, to end with an exception
Fails(t, place) ==
    calls' = [calls EXCEPT ![t][Len(calls[t])] = [@ EXCEPT !.at = place, !.error = TRUE]]

\* the call ends: the exception, if any, reaches the caller's catch
Returned(stack) ==
    LET caller == Front(stack)
    IN  IF caller # <<>> /\ Last(stack).error
        THEN [caller EXCEPT ![Len(caller)].at = "catch"]
        ELSE caller

Lock(t, c, place) ==
    /\ Monitor!Enter(t, c) \/ Monitor!Contend(t, c)
    /\ Goes(t, place)
    /\ UNCHANGED <<status, thread>>

-----------------------------------------------------------------------------
\* a static member of c is used, by a method or by a static initializer
Use(t, c) ==
    /\ Monitor!Free(t)
    /\ calls[t] = <<>> \/ \E d \in Classes : At(t, d, "clinit") /\ c \in Uses[d]
    /\ ~Initialized(t, c)
    /\ calls' = [calls EXCEPT ![t] = Append(@, Call(c))]
    /\ UNCHANGED <<status, thread, monitors>>

Step1(t, c) == At(t, c, "lock") /\ Lock(t, c, "test")

\* whether t has to wait for the initialization of c
Busy(t, c) == "IN_PROGRESS" \in status[c] /\ thread[c] # t

Step2(t, c) ==
    /\ At(t, c, "test")
    /\ Busy(t, c)
    /\ Goes(t, "wait")
    /\ UNCHANGED <<status, thread, monitors>>

\* wait(), after which the test is repeated
Wait(t, c) ==
    /\ At(t, c, "wait")
    /\ Monitor!WaitOn(t, c)
    /\ Goes(t, "test")
    /\ UNCHANGED <<status, thread>>

\* a mistake: the error of an earlier attempt is not reported
Steps3To5Silent(t, c) ==
    /\ At(t, c, "test")
    /\ ~Busy(t, c)
    /\ Initialized(t, c) \/ status[c] = {"ERROR"}
    /\ Goes(t, "leave")
    /\ UNCHANGED <<status, thread, monitors>>

\* steps 3 to 5: t is initializing c, or somebody has, or could not
Steps3To5(t, c) ==
    /\ At(t, c, "test")
    /\ ~Busy(t, c)
    /\ \/ Initialized(t, c) /\ Goes(t, "leave")
       \/ /\ ~Initialized(t, c)
          /\ status[c] = {"ERROR"}
          /\ Fails(t, "leave")
    /\ UNCHANGED <<status, thread, monitors>>

Step6(t, c) ==
    /\ At(t, c, "test")
    /\ ~Busy(t, c) /\ ~Initialized(t, c) /\ status[c] # {"ERROR"}
    /\ status' = [status EXCEPT ![c] = @ \union {"IN_PROGRESS"}]
    /\ Goes(t, "claim")
    /\ UNCHANGED <<thread, monitors>>

Claim(t, c) ==
    /\ At(t, c, "claim")
    /\ thread' = [thread EXCEPT ![c] = t]
    /\ Monitor!Exit(t, c)
    /\ Goes(t, "verify")
    /\ UNCHANGED status

Verify(t, c) ==
    /\ At(t, c, "verify")
    /\ status' = [status EXCEPT ![c] = @ \union {"VERIFIED"}]
    /\ Goes(t, "super")
    /\ UNCHANGED <<thread, monitors>>

\* the superclass is initialized, by a call on top of this one
Step7(t, c) ==
    /\ At(t, c, "super")
    /\ LET s  == Super[c]
           on == [calls[t] EXCEPT ![Len(calls[t])].at = "invoke"]
       IN  calls' = [calls EXCEPT ![t] =
               IF s = NoClass \/ (s # NoClass /\ "INITIALIZED" \in status[s])
               THEN on ELSE Append(on, Call(s))]
    /\ UNCHANGED <<status, thread, monitors>>

Step8(t, c) ==
    /\ At(t, c, "invoke")
    /\ Goes(t, "clinit")
    /\ UNCHANGED <<status, thread, monitors>>

Step9(t, c) == At(t, c, "clinit") /\ Lock(t, c, "done")

Done(t, c) ==
    /\ At(t, c, "done")
    /\ status' = [status EXCEPT ![c] = (@ \ {"IN_PROGRESS"}) \union {"INITIALIZED"}]
    /\ thread' = [thread EXCEPT ![c] = NoThread]
    /\ Goes(t, "notify")
    /\ UNCHANGED monitors

\* the class cannot be verified, or its static initializer throws
Throw(t, c) ==
    /\ At(t, c, "verify") \/ At(t, c, "clinit")
    /\ Goes(t, "catch")
    /\ UNCHANGED <<status, thread, monitors>>

\* a mistake: the waiting threads are notified without the lock
Step10Unlocked(t, c) ==
    /\ At(t, c, "catch")
    /\ status' = [status EXCEPT ![c] = {"ERROR"}]
    /\ thread' = [thread EXCEPT ![c] = NoThread]
    /\ IF waitSet[c] = {} THEN UNCHANGED monitors ELSE Monitor!StopWaiting(c, waitSet[c])
    /\ calls' = [calls EXCEPT ![t] = Returned([@ EXCEPT ![Len(@)].error = TRUE])]

\* a mistake: the bit is set, as VERIFIED is
Step10AddsBit(t, c) ==
    /\ At(t, c, "catch")
    /\ status' = [status EXCEPT ![c] = (@ \ {"IN_PROGRESS"}) \union {"ERROR"}]
    /\ thread' = [thread EXCEPT ![c] = NoThread]
    /\ Fails(t, "relock")
    /\ UNCHANGED monitors

\* step 10: the status is set without the lock
Step10(t, c) ==
    /\ At(t, c, "catch")
    /\ status' = [status EXCEPT ![c] = {"ERROR"}]
    /\ thread' = [thread EXCEPT ![c] = NoThread]
    /\ Fails(t, "relock")
    /\ UNCHANGED monitors

Step11(t, c) == At(t, c, "relock") /\ Lock(t, c, "notify")

\* a mistake: notify instead of notifyAll
NotifyAllOnce(t, c) ==
    /\ At(t, c, "notify")
    /\ IF waitSet[c] = {} THEN UNCHANGED monitors
       ELSE \E u \in waitSet[c] : Monitor!StopWaiting(c, {u})
    /\ Goes(t, "leave")
    /\ UNCHANGED <<status, thread>>

NotifyAll(t, c) ==
    /\ At(t, c, "notify")
    /\ IF waitSet[c] = {} THEN UNCHANGED monitors ELSE Monitor!StopWaiting(c, waitSet[c])
    /\ Goes(t, "leave")
    /\ UNCHANGED <<status, thread>>

Leave(t, c) ==
    /\ At(t, c, "leave")
    /\ Monitor!Exit(t, c)
    /\ calls' = [calls EXCEPT ![t] = Returned(@)]
    /\ UNCHANGED <<status, thread>>

\* an interrupted thread goes on waiting after one more test
Interrupt(t, c) ==
    /\ t \in waitSet[c]
    /\ Monitor!StopWaiting(c, {t})
    /\ UNCHANGED <<status, thread, calls>>

Initialize(t, c) ==
    \/ Step1(t, c) \/ Step2(t, c) \/ Wait(t, c) \/ Steps3To5(t, c)
    \/ Step6(t, c) \/ Claim(t, c) \/ Verify(t, c) \/ Step7(t, c)
    \/ Step8(t, c) \/ Step9(t, c) \/ Done(t, c) \/ Throw(t, c)
    \/ Step10(t, c) \/ Step11(t, c) \/ NotifyAll(t, c) \/ Leave(t, c)

Next == \E t \in Threads, c \in Classes : Use(t, c) \/ Initialize(t, c) \/ Interrupt(t, c)

\* t contends for a lock and gets it from the thread that gives it up
GetsLock(t) ==
    \E c \in Classes :
        /\ t \in entrySet[c]
        /\ \E u \in Threads : Claim(u, c) \/ Wait(u, c) \/ Leave(u, c)
        /\ owner'[c] = t

\* every thread runs on, a static initializer ends, and of the threads that
\* contend for a lock each gets it (LockGranted and LockHandOff of Scheduler)
Fairness ==
    \A t \in Threads :
        /\ WF_vars(calls[t] # <<>> /\ Initialize(t, Last(calls[t]).class))
        /\ SF_vars(GetsLock(t))

Spec == Init /\ [][Next]_vars
FairSpec == Spec /\ Fairness

-----------------------------------------------------------------------------
(* Properties.                                                             *)

Places == {"lock", "test", "wait", "claim", "verify", "super", "invoke", "clinit", "catch",
           "done", "relock", "notify", "leave"}
LockPlaces == {"test", "wait", "claim", "done", "notify", "leave"}

Calls == [class : Classes, at : Places, error : BOOLEAN]

\* Types of the variables, with the combinations of bits that step 5 counts on.
TypeOK ==
    /\ status \in [Classes -> {{}, {"IN_PROGRESS"}, {"IN_PROGRESS", "VERIFIED"},
                             {"VERIFIED", "INITIALIZED"}, {"ERROR"}}]
    /\ thread \in [Classes -> Threads \union {NoThread}]
    /\ calls \in [Threads -> Seq(Calls)]
    /\ Monitor!TypeOK

\* No wake-up is lost: as long as a thread waits for a class, or is about to,
\* another one is initializing it or has yet to notify, also when the status
\* is set without the lock (steps 2, 9 to 11).
WaitersRemembered ==
    \A c \in Classes :
        (waitSet[c] # {} \/ \E t \in Threads : At(t, c, "wait")) =>
            \/ "IN_PROGRESS" \in status[c]
            \/ \E t \in Threads : \E i \in DOMAIN calls[t] :
                  calls[t][i].class = c /\ calls[t][i].at \in {"relock", "notify"}

\* the lock of a class concerns the threads whose innermost call is in a region
\* synchronized on it, and belongs to those that are about to release it
LocksHeld ==
    \A t \in Threads :
        /\ \A c \in Classes :
              t \in {owner[c]} \union entrySet[c] \union waitSet[c] <=>
                  /\ calls[t] # <<>>
                  /\ Last(calls[t]).class = c /\ Last(calls[t]).at \in LockPlaces
        /\ (calls[t] # <<>> /\ Last(calls[t]).at \in {"wait", "claim", "leave"})
              => owner[Last(calls[t]).class] = t

\* the call has the initialization of its class in hand: so does its thread,
\* once it is written in the class
Initializing(k) == k.at \in {"verify", "super", "invoke", "clinit", "catch", "done"}
InProgress(k) == k.at = "claim" \/ Initializing(k)

\* a call k of t, and the status s and thread h of its class, go together
InStep(t, k, s, h) ==
    /\ k.at = "claim" => s = {"IN_PROGRESS"} /\ h = NoThread
    /\ k.at = "verify" => s = {"IN_PROGRESS"}
    /\ k.at \in {"super", "invoke", "clinit", "done"} => s = {"IN_PROGRESS", "VERIFIED"}
    /\ k.at = "catch" => s \in {{"IN_PROGRESS"}, {"IN_PROGRESS", "VERIFIED"}}
    /\ Initializing(k) => h = t
    /\ k.error => k.at \in {"relock", "notify", "leave"}
    /\ k.at = "relock" => k.error

CallsInStep ==
    \A t \in Threads : \A i \in DOMAIN calls[t] :
        LET k == calls[t][i] IN InStep(t, k, status[k.class], thread[k.class])

\* a class is initialized by one call, and thread says whose
OneInitializer ==
    /\ \A t, u \in Threads : \A i \in DOMAIN calls[t], j \in DOMAIN calls[u] :
          (calls[t][i].class = calls[u][j].class
              /\ InProgress(calls[t][i]) /\ InProgress(calls[u][j])) => t = u /\ i = j
    /\ \A c \in Classes : thread[c] # NoThread =>
          \E i \in DOMAIN calls[thread[c]] :
              calls[thread[c]][i].class = c /\ Initializing(calls[thread[c]][i])

\* a call that is not the innermost one waits for its superclass or its static
\* initializer; when the former has been initialized it goes on
CallsNested ==
    \A t \in Threads : \A i \in DOMAIN calls[t] :
        LET k == calls[t][i]
            s == Super[k.class]
        IN  /\ i < Len(calls[t]) => k.at \in {"invoke", "clinit"}
            /\ k.at = "invoke" /\ s # NoClass =>
                  IF i < Len(calls[t]) THEN calls[t][i + 1].class = s ELSE Initialized(t, s)

\* a call that is about to return without an exception may
ReadyToReturn ==
    \A t \in Threads :
        (calls[t] # <<>> /\ Last(calls[t]).at \in {"notify", "leave"} /\ ~Last(calls[t]).error)
            => Initialized(t, Last(calls[t]).class)

\* The invariant of the proofs: the locks, the calls and the classes agree, a
\* class is initialized by one call, nobody who waits is forgotten, nobody
\* returns too early (Class.initialize).
Consistent ==
    /\ TypeOK /\ Monitor!Exclusion /\ LocksHeld
    /\ CallsInStep /\ OneInitializer /\ CallsNested
    /\ ReadyToReturn /\ WaitersRemembered

\* the thread that t has to wait for to use the class it asks for
Blocker(t) ==
    LET c == Last(calls[t]).class
    IN  IF calls[t] # <<>> /\ Last(calls[t]).at \in {"lock", "test", "wait"} /\ Busy(t, c)
        THEN thread[c] ELSE NoThread

\* that thread has to wait too, and so on round a circle: initializers that
\* need each other were begun by different threads
Deadlocked(t) ==
    LET after[n \in 0..Cardinality(Threads)] ==
          IF n = 0 THEN t
          ELSE IF after[n - 1] = NoThread THEN NoThread ELSE Blocker(after[n - 1])
    IN  after[Cardinality(Threads)] # NoThread

\* A call that returns without an exception leaves the thread with a class
\* that it may use: initialized, or being initialized by itself (steps 3 to 5).
ReturnsInitialized ==
    [][\A t \in Threads, c \in Classes :
          (Len(calls'[t]) < Len(calls[t]) /\ Last(calls[t]).class = c /\ ~Last(calls[t]).error)
              => Initialized(t, c)']_vars

\* the initialization of c has got to one of these places
Reached(c, places) ==
    \E i \in DOMAIN calls[thread[c]] :
        calls[thread[c]][i].class = c /\ calls[thread[c]][i].at \in places

Stage(c) ==
    IF "INITIALIZED" \in status[c] THEN "initialized"
    ELSE IF "ERROR" \in status[c] THEN "erroneous"
    ELSE IF thread[c] = NoThread THEN "linked"
    ELSE IF Reached(c, {"catch"}) THEN "failing"
    ELSE IF Reached(c, {"clinit", "done"}) THEN "running"
    ELSE "begun"

stages == [c \in Classes |-> Stage(c)]

JavaClass == INSTANCE JavaClasses WITH state <- stages, by <- thread

\* A class is initialized by one thread, after its superclass, and once: what
\* became of it is final (Class.initialize).
ImplementsJavaClasses == JavaClass!Spec

\* Every use of a class comes to its end, unless initializers that need each
\* other were begun by different threads (wait, notifyAll).
EveryCallEnds ==
    \A t \in Threads : calls[t] # <<>> ~> (calls[t] = <<>> \/ Deadlocked(t))

===============================================================================
