------------------------------ MODULE Scheduler ------------------------------
(***************************************************************************)
(* Green-thread scheduling and Java monitors of the virtual machine:       *)
(* share/runtime/Scheduler.cpp, Synchronizer.cpp and the parts of          *)
(* Thread.cpp, Natives.cpp and the C interpreter that call them.           *)
(*                                                                         *)
(* The VM runs every Java thread on one native stack.  Java code of the    *)
(* current thread runs until an operation calls Scheduler::yield; yield    *)
(* wakes the threads whose timeout has expired, walking the waiting lists  *)
(* step by step, and then names the thread to run next.  Waking a thread   *)
(* that was in Object.wait makes it re-enter its monitor, and when that    *)
(* thread is the current one and the monitor is taken, re-entering calls   *)
(* yield again: the walk nests.  The stack of walks is "frames"; while it  *)
(* is empty, "current" executes Java code.                                 *)
(*                                                                         *)
(* The order of the active threads (priority queues, quotas, the cached    *)
(* next thread) is the subject of module RunQueue; here the next thread is *)
(* any active one.                                                         *)
(*                                                                         *)
(* (An operator whose name extends that of the one after it, as            *)
(* NewOwnerLast does that of NewOwner, is a wrong version of it, which the *)
(* properties are tested on; the specification does not use it.)           *)
(***************************************************************************)
EXTENDS Integers, Sequences, FiniteSets, SequencesExt

CONSTANTS
    Threads,      \* java.lang.Thread instances, started or not
    Objects,      \* objects that are used as monitors
    NoThread,     \* a null Thread pointer
    NoObject,     \* a null object pointer
    ThreadObj,    \* the monitor that is a thread's own Thread object
    Millis,       \* timeouts passed to Object.wait and Thread.sleep
    MaxClock,     \* bound: the last value of the millisecond clock
    MaxDepth      \* bound: nested monitorenters of a thread on an object

ASSUME ThreadsAssumption == NoThread \notin Threads
ASSUME ObjectsAssumption == NoObject \notin Objects
ASSUME ThreadObjAssumption == ThreadObj \in [Threads -> Objects \union {NoObject}]
ASSUME BoundsAssumption ==
    /\ Millis \subseteq Nat \ {0}
    /\ MaxClock \in Nat \ {0}
    /\ MaxDepth \in Nat \ {0}

VARIABLES
    clock,             \* Os::monotonic_time_millis
    status,            \* ThreadObj status: "unstarted", "alive", "dead"
    current,           \* Thread::current()
    active,            \* threads in some priority queue
    sleepers,          \* list that hangs from scheduler_waiting->_next
    waitChain,         \* objects in the order of scheduler_waiting->_next_waiting
    waitList,          \* per object, the threads inside Object.wait on it
    owner,             \* per object, StackLock::_thread, NoThread when unlocked
    lockWaiters,       \* per object, the list StackLock::_waiters
    waitObj,           \* Thread::wait_obj
    wakeupTime,        \* Thread::wakeup_time, 0 for never
    depth,             \* stack locks of a thread's frames that are for an object
    async,             \* threads blocked by SNI_BlockThread
    pendingInterrupt,  \* Thread::is_pending_interrupt
    frames,            \* activations of yield, the innermost first
    halted             \* "no", or how the VM stopped

lockVars   == <<owner, lockWaiters, depth>>
waitVars   == <<sleepers, waitChain, waitList>>
threadVars == <<status, waitObj, wakeupTime, pendingInterrupt>>
vars == <<clock, current, active, async, frames, halted,
          lockVars, waitVars, threadVars>>

-----------------------------------------------------------------------------
(* Lists.  A list of the code is a sequence, a list node is a thread.       *)

First(s) == IF s = <<>> THEN NoThread ELSE Head(s)

Position(s, x) == CHOOSE i \in DOMAIN s : s[i] = x

After(s, x) ==
    LET i == Position(s, x) IN IF i = Len(s) THEN NoThread ELSE s[i + 1]

Without(s, x) == RemoveAt(s, Position(s, x))

-----------------------------------------------------------------------------
(* One activation of wake_up_timed_out_sleepers inside yield.  "poll" is    *)
(* the call of check_blocked_threads before the clock is sampled.  th is    *)
(* this_thread, nw is next_waiting: both are read before the thread in      *)
(* hand is woken, and kept across that call.                                *)

Frame == [stage : {"poll", "scan"}, time : 0..MaxClock,
          th : Threads \union {NoThread}, nw : Threads \union {NoThread}]

NewFrame == [stage |-> "poll", time |-> 0, th |-> NoThread, nw |-> NoThread]

Running(t) == halted = "no" /\ frames = <<>> /\ current = t
InYield    == halted = "no" /\ frames # <<>>

InWait(t)   == waitObj[t] # NoObject /\ t \in ToSet(waitList[waitObj[t]])
InSleep(t)  == t \in ToSet(sleepers)
Waiting(t)  == InSleep(t) \/ InWait(t)

\* next_waiting of the list head: the head of the following wait list; of a
\* thread queued on a lock, the thread queued behind it
NextWaiting(t) ==
    LET o == waitObj[t] IN
    IF o = NoObject THEN NoThread
    ELSE IF t \in ToSet(lockWaiters[o]) THEN After(lockWaiters[o], t)
    ELSE IF t # First(waitList[o]) \/ o = Last(waitChain) THEN NoThread
    ELSE Head(waitList[waitChain[Position(waitChain, o) + 1]])

NextOf(t) ==
    IF InSleep(t) THEN After(sleepers, t)
    ELSE IF InWait(t) THEN After(waitList[waitObj[t]], t)
    ELSE NoThread

ChainHeadNone == NoThread
ChainHead == IF waitChain = <<>> THEN NoThread
             ELSE Head(waitList[Head(waitChain)])

ExpiredAlways(t, time) == time >= wakeupTime[t]
Expired(t, time) == wakeupTime[t] # 0 /\ time >= wakeupTime[t]

-----------------------------------------------------------------------------
Init ==
    /\ clock = 1
    /\ current \in Threads
    /\ status = [t \in Threads |-> IF t = current THEN "alive" ELSE "unstarted"]
    /\ active = {current}
    /\ sleepers = <<>>
    /\ waitChain = <<>>
    /\ waitList = [o \in Objects |-> <<>>]
    /\ owner = [o \in Objects |-> NoThread]
    /\ lockWaiters = [o \in Objects |-> <<>>]
    /\ waitObj = [t \in Threads |-> NoObject]
    /\ wakeupTime = [t \in Threads |-> 0]
    /\ depth = [t \in Threads |-> [o \in Objects |-> 0]]
    /\ async = {}
    /\ pendingInterrupt = [t \in Threads |-> FALSE]
    /\ frames = <<>>
    /\ halted = "no"

-----------------------------------------------------------------------------
(* Pieces shared by the operations.                                         *)

\* Threads ws leave Object.wait on o one after the other and try to lock o
\* again (notify_wakeup and Synchronizer::enter): the first one gets a free
\* lock, every other one is queued on it without a timeout.
Granted(o, ws) == IF owner[o] = NoThread THEN {Head(ws)} ELSE {}
Queued(o, ws)  == IF owner[o] = NoThread THEN Tail(ws) ELSE ws

\* Synchronizer::enter waits for the lock without a timeout
WithoutTimeoutKept(ts) == wakeupTime
WithoutTimeout(ts) == [t \in Threads |-> IF t \in ts THEN 0 ELSE wakeupTime[t]]

Reenter(o, ws) ==
    /\ owner' = IF owner[o] = NoThread THEN [owner EXCEPT ![o] = Head(ws)] ELSE owner
    /\ lockWaiters' = [lockWaiters EXCEPT ![o] = @ \o Queued(o, ws)]
    /\ waitObj' = [t \in Threads |->
                     IF t \in Granted(o, ws) THEN NoObject ELSE waitObj[t]]
    /\ wakeupTime' = WithoutTimeout(ToSet(Queued(o, ws)))

\* the wait lists after threads of o's list are gone and s is what is left
ChainAfterKept(o, s) == waitChain
ChainAfter(o, s) == IF s = <<>> THEN Without(waitChain, o) ELSE waitChain

LeaveWaitList(o, s) ==
    /\ waitList' = [waitList EXCEPT ![o] = s]
    /\ waitChain' = ChainAfter(o, s)
    /\ UNCHANGED sleepers

\* unlocking o hands it to the first queued thread (signal_waiters)
NewOwnerLast(o) == IF lockWaiters[o] = <<>> THEN NoThread ELSE Last(lockWaiters[o])
NewOwnerNone(o) == NoThread
NewOwner(o)     == First(lockWaiters[o])

HandedToNobody(o) == {}
HandedTo(o)       == IF lockWaiters[o] = <<>> THEN {} ELSE {Head(lockWaiters[o])}

Unlock(o) ==
    /\ owner' = [owner EXCEPT ![o] = NewOwner(o)]
    /\ lockWaiters' = [lockWaiters EXCEPT ![o] = IF @ = <<>> THEN @ ELSE Tail(@)]

Deadline(ms) == IF ms = 0 THEN 0 ELSE clock + ms
Yielding == frames' = <<NewFrame>>

\* Synchronizer::is_locked_by, without which the operation throws
\* IllegalMonitorStateException
OwnsUnchecked(t, o) == TRUE
Owns(t, o) == owner[o] = t

-----------------------------------------------------------------------------
(* Operations of the current thread t.                                      *)

\* monitorenter or a synchronized method: a free lock is taken, one that is
\* already t's own is only counted
EnterMonitor(t, o) ==
    /\ Running(t)
    /\ depth[t][o] < MaxDepth
    /\ owner[o] \in {NoThread, t}
    /\ owner' = [owner EXCEPT ![o] = t]
    /\ depth' = [depth EXCEPT ![t][o] = @ + 1]
    /\ UNCHANGED <<clock, current, active, async, frames, halted, lockWaiters,
                   waitVars, threadVars>>

\* a lock of another thread: t is queued on it and yields
BlockOnMonitor(t, o) ==
    /\ Running(t)
    /\ owner[o] \notin {NoThread, t}
    /\ depth' = [depth EXCEPT ![t][o] = @ + 1]
    /\ active' = active \ {t}
    /\ lockWaiters' = [lockWaiters EXCEPT ![o] = Append(@, t)]
    /\ waitObj' = [waitObj EXCEPT ![t] = o]
    /\ wakeupTime' = [wakeupTime EXCEPT ![t] = 0]
    /\ Yielding
    /\ UNCHANGED <<clock, current, async, halted, owner, waitVars, status,
                   pendingInterrupt>>

\* monitorexit or return from a synchronized method: an inner stack lock is
\* dropped, the outermost one unlocks the object
ExitMonitor(t, o) ==
    /\ Running(t)
    /\ Owns(t, o)
    /\ depth' = [depth EXCEPT ![t][o] = @ - 1]
    /\ IF depth[t][o] > 1
       THEN UNCHANGED <<owner, lockWaiters, active, waitObj>>
       ELSE /\ Unlock(o)
            /\ active' = active \union HandedTo(o)
            /\ waitObj' = [u \in Threads |->
                             IF u \in HandedTo(o) THEN NoObject ELSE waitObj[u]]
    /\ UNCHANGED <<clock, current, async, frames, halted, waitVars, status,
                   wakeupTime, pendingInterrupt>>

\* Object.wait(ms) of the owner, 0 for no timeout
Wait(t, o, ms) ==
    /\ Running(t)
    /\ Owns(t, o)
    /\ ~pendingInterrupt[t]
    /\ Deadline(ms) <= MaxClock
    /\ Unlock(o)
    /\ active' = (active \union HandedTo(o)) \ {t}
    /\ waitObj' = [u \in Threads |-> IF u = t THEN o
                                     ELSE IF u \in HandedTo(o) THEN NoObject
                                     ELSE waitObj[u]]
    /\ waitList' = [waitList EXCEPT ![o] = Append(@, t)]
    /\ waitChain' = IF waitList[o] = <<>> THEN Append(waitChain, o) ELSE waitChain
    /\ wakeupTime' = [wakeupTime EXCEPT ![t] = Deadline(ms)]
    /\ Yielding
    /\ UNCHANGED <<clock, current, async, halted, depth, sleepers, status,
                   pendingInterrupt>>

\* Thread.sleep(ms)
Sleep(t, ms) ==
    /\ Running(t)
    /\ ~pendingInterrupt[t]
    /\ clock + ms <= MaxClock
    /\ active' = active \ {t}
    /\ wakeupTime' = [wakeupTime EXCEPT ![t] = clock + ms]
    /\ sleepers' = Append(sleepers, t)
    /\ Yielding
    /\ UNCHANGED <<clock, current, async, halted, lockVars, waitChain, waitList,
                   status, waitObj, pendingInterrupt>>

\* wait or sleep of a thread whose interrupt is pending: InterruptedException
\* at once, the monitor is kept
HandlePendingInterrupt(t) ==
    /\ Running(t)
    /\ pendingInterrupt[t]
    /\ pendingInterrupt' = [pendingInterrupt EXCEPT ![t] = FALSE]
    /\ UNCHANGED <<clock, current, active, async, frames, halted, lockVars,
                   waitVars, status, waitObj, wakeupTime>>

\* Object.notify and notifyAll of the owner: the woken threads queue on the lock
Notify(t, o, all) ==
    /\ Running(t)
    /\ Owns(t, o)
    /\ waitList[o] # <<>>
    /\ LET woken == IF all THEN waitList[o] ELSE <<Head(waitList[o])>>
           rest  == IF all THEN <<>> ELSE Tail(waitList[o])
       IN  Reenter(o, woken) /\ LeaveWaitList(o, rest)
    /\ UNCHANGED <<clock, current, active, async, frames, halted, depth, status,
                   pendingInterrupt>>

\* Thread.yield, and the yield of a timer tick
Yield(t) ==
    /\ Running(t)
    /\ Yielding
    /\ UNCHANGED <<clock, current, active, async, halted, lockVars, waitVars,
                   threadVars>>

\* Thread.interrupt(u) of a thread that sleeps
InterruptSleep(t, u) ==
    /\ Running(t)
    /\ InSleep(u)
    /\ sleepers' = Without(sleepers, u)
    /\ active' = active \union {u}
    /\ UNCHANGED <<clock, current, async, frames, halted, lockVars, waitChain,
                   waitList, threadVars>>

\* Thread.interrupt(u) of a thread in Object.wait
InterruptWait(t, u) ==
    /\ Running(t)
    /\ InWait(u)
    /\ LET o == waitObj[u]
       IN  /\ LeaveWaitList(o, Without(waitList[o], u))
           /\ Reenter(o, <<u>>)
           /\ active' = active \union Granted(o, <<u>>)
    /\ UNCHANGED <<clock, current, async, frames, halted, depth, status,
                   pendingInterrupt>>

\* Thread.interrupt(u) of any other live thread, or of a waiting one when no
\* InterruptedException can be allocated: only remembered
InterruptPending(t, u) ==
    /\ Running(t)
    /\ status[u] = "alive"
    /\ pendingInterrupt' = [pendingInterrupt EXCEPT ![u] = TRUE]
    /\ UNCHANGED <<clock, current, active, async, frames, halted, lockVars,
                   waitVars, status, waitObj, wakeupTime>>

\* Thread.start
Start(t, u) ==
    /\ Running(t)
    /\ status[u] = "unstarted"
    /\ status' = [status EXCEPT ![u] = "alive"]
    /\ active' = active \union {u}
    /\ UNCHANGED <<clock, current, async, frames, halted, lockVars, waitVars,
                   waitObj, wakeupTime, pendingInterrupt>>

\* run() has returned: the threads that wait on the Thread object are woken,
\* whoever owns it, and the thread leaves the scheduler and yields
Finish(t) ==
    /\ Running(t)
    /\ \A o \in Objects : depth[t][o] = 0
    /\ status' = [status EXCEPT ![t] = "dead"]
    /\ LET o == ThreadObj[t]
       IN  IF o # NoObject /\ waitList[o] # <<>>
           THEN /\ Reenter(o, waitList[o])
                /\ LeaveWaitList(o, <<>>)
                /\ active' = (active \union Granted(o, waitList[o])) \ {t}
           ELSE /\ active' = active \ {t}
                /\ UNCHANGED <<owner, lockWaiters, waitObj, wakeupTime, waitVars>>
    /\ Yielding
    /\ UNCHANGED <<clock, current, async, halted, depth, pendingInterrupt>>

\* SNI_BlockThread in a native method, and the yield of the thread switch
BlockAsync(t) ==
    /\ Running(t)
    /\ active' = active \ {t}
    /\ async' = async \union {t}
    /\ Yielding
    /\ UNCHANGED <<clock, current, halted, lockVars, waitVars, threadVars>>

-----------------------------------------------------------------------------
(* Steps of yield.                                                          *)

Top == Head(frames)
SetTop(f) == frames' = <<f>> \o Tail(frames)

UnblockVars == <<clock, current, halted, lockVars, waitVars, threadVars>>

\* check_blocked_threads(0): an event makes u runnable again
Poll(u) ==
    /\ InYield
    /\ Top.stage = "poll"
    /\ u \in async
    /\ async' = async \ {u}
    /\ active' = active \union {u}
    /\ UNCHANGED <<frames, UnblockVars>>

\* the clock is sampled and the walk starts at the sleep list
BeginScan ==
    /\ InYield
    /\ Top.stage = "poll"
    /\ SetTop([stage |-> "scan", time |-> clock, th |-> First(sleepers),
               nw |-> ChainHead])
    /\ UNCHANGED <<clock, current, active, async, halted, lockVars, waitVars,
                   threadVars>>

Scanning == InYield /\ Top.stage = "scan"
ScanDone == Scanning /\ Top.th = NoThread /\ Top.nw = NoThread

NextList ==
    /\ Scanning
    /\ Top.th = NoThread
    /\ Top.nw # NoThread
    /\ SetTop([Top EXCEPT !.th = Top.nw, !.nw = NextWaiting(Top.nw)])
    /\ UNCHANGED <<clock, current, active, async, halted, lockVars, waitVars,
                   threadVars>>

Visiting(t) == Scanning /\ Top.th = t /\ t # NoThread

StepOver(t) ==
    /\ Visiting(t)
    /\ ~Expired(t, Top.time)
    /\ t \notin active
    /\ SetTop([Top EXCEPT !.th = NextOf(t)])
    /\ UNCHANGED <<clock, current, active, async, halted, lockVars, waitVars,
                   threadVars>>

\* a thread that a nested walk has woken, with a deadline after this walk's time:
\* its next leads into the circular list of its priority, in which this walk goes
\* round for ever or comes to a thread that it takes for a timed-out one
WalkStrays(t) ==
    /\ Visiting(t)
    /\ ~Expired(t, Top.time)
    /\ t \in active
    /\ \/ halted' = "endless"
       \/ /\ \E u \in active : Expired(u, Top.time)
          /\ halted' = "fault"
    /\ UNCHANGED <<clock, current, active, async, frames, lockVars, waitVars,
                   threadVars>>

WakeSleeper(t) ==
    /\ Visiting(t)
    /\ Expired(t, Top.time)
    /\ InSleep(t)
    /\ sleepers' = Without(sleepers, t)
    /\ active' = active \union {t}
    /\ SetTop([Top EXCEPT !.th = NextOf(t)])
    /\ UNCHANGED <<clock, current, async, halted, lockVars, waitChain, waitList,
                   threadVars>>

\* the current thread yields from inside this walk when it has to queue for its
\* monitor (wait_for); other threads are only queued
YieldsAgainAnyThread(t, o) == Queued(o, <<t>>) # <<>>
YieldsAgain(t, o) == t = current /\ Queued(o, <<t>>) # <<>>

\* a timed-out wait: the thread re-enters its monitor
WakeWaiter(t) ==
    /\ Visiting(t)
    /\ Expired(t, Top.time)
    /\ InWait(t)
    /\ LET o    == waitObj[t]
           rest == <<[Top EXCEPT !.th = NextOf(t)]>> \o Tail(frames)
       IN  /\ LeaveWaitList(o, Without(waitList[o], t))
           /\ Reenter(o, <<t>>)
           /\ active' = active \union Granted(o, <<t>>)
           /\ frames' = IF YieldsAgain(t, o) THEN <<NewFrame>> \o rest ELSE rest
    /\ UNCHANGED <<clock, current, async, halted, depth, status,
                   pendingInterrupt>>

\* remove_waiting_thread on a thread that is in none of the lists it searches:
\* GUARANTEE "Waiting thread not in list"
WaitingThreadNotInList(t) ==
    /\ Visiting(t)
    /\ Expired(t, Top.time)
    /\ ~Waiting(t)
    /\ halted' = "fault"
    /\ UNCHANGED <<clock, current, active, async, frames, lockVars, waitVars,
                   threadVars>>

Timed == {t \in Threads : Waiting(t) /\ wakeupTime[t] # 0}
NothingComes == active = {} /\ Timed = {} /\ async = {}

\* a nested yield is over: the walk that caused it goes on
ReturnToScan ==
    /\ ScanDone
    /\ active # {} \/ NothingComes
    /\ Len(frames) > 1
    /\ frames' = Tail(frames)
    /\ UNCHANGED <<clock, current, active, async, halted, lockVars, waitVars,
                   threadVars>>

\* the outermost yield is over: switch_thread
Switch(u) ==
    /\ ScanDone
    /\ u \in active
    /\ Len(frames) = 1
    /\ current' = u
    /\ frames' = <<>>
    /\ UNCHANGED <<clock, active, async, halted, lockVars, waitVars, threadVars>>

\* nothing runs: the VM sleeps until the first timeout
SleepOver ==
    /\ ScanDone
    /\ active = {}
    /\ \E t \in Timed : clock >= wakeupTime[t]
    /\ SetTop(NewFrame)
    /\ UNCHANGED <<clock, current, active, async, halted, lockVars, waitVars,
                   threadVars>>

\* nothing runs: an event of a blocked thread arrives before the timeout
EventArrives(u) ==
    /\ ScanDone
    /\ active = {}
    /\ u \in async
    /\ async' = async \ {u}
    /\ active' = {u}
    /\ SetTop(NewFrame)
    /\ UNCHANGED UnblockVars

\* nothing can ever run: the VM exits when this was the yield of a thread that
\* ended, and sleeps forever otherwise
NoMoreThreads ==
    /\ ScanDone
    /\ NothingComes
    /\ Len(frames) = 1
    /\ halted' = IF status[current] = "dead" THEN "exited" ELSE "asleep"
    /\ UNCHANGED <<clock, current, active, async, frames, lockVars, waitVars,
                   threadVars>>

Tick ==
    /\ halted = "no"
    /\ clock < MaxClock
    /\ clock' = clock + 1
    /\ UNCHANGED <<current, active, async, frames, halted, lockVars, waitVars,
                   threadVars>>

Stopped == halted # "no" /\ UNCHANGED vars

-----------------------------------------------------------------------------
JavaStep(t) ==
    \/ \E o \in Objects : \/ EnterMonitor(t, o)
                         \/ BlockOnMonitor(t, o)
                         \/ ExitMonitor(t, o)
                         \/ \E ms \in Millis \union {0} : Wait(t, o, ms)
                         \/ \E all \in BOOLEAN : Notify(t, o, all)
    \/ \E ms \in Millis \union {0} : Sleep(t, ms)
    \/ HandlePendingInterrupt(t)
    \/ Yield(t)
    \/ \E u \in Threads : \/ InterruptSleep(t, u)
                         \/ InterruptWait(t, u)
                         \/ InterruptPending(t, u)
                         \/ Start(t, u)
    \/ Finish(t)
    \/ BlockAsync(t)

YieldStep ==
    \/ BeginScan
    \/ NextList
    \/ \E t \in Threads : \/ StepOver(t)
                         \/ WalkStrays(t)
                         \/ WakeSleeper(t)
                         \/ WakeWaiter(t)
                         \/ WaitingThreadNotInList(t)
                         \/ Poll(t)
                         \/ EventArrives(t)
                         \/ Switch(t)
    \/ ReturnToScan
    \/ SleepOver
    \/ NoMoreThreads

Next ==
    \/ \E t \in Threads : JavaStep(t)
    \/ YieldStep
    \/ Tick
    \/ Stopped

Spec == Init /\ [][Next]_vars

\* Time passes, a yield that was begun goes on, a timer tick makes the running
\* thread yield, an active thread is chosen again and again, and a program
\* leaves the synchronized regions it has entered, in the end the outermost one.
Fairness ==
    /\ WF_vars(Tick)
    /\ WF_vars(YieldStep)
    /\ \A t \in Threads :
         /\ WF_vars(Yield(t))
         /\ SF_vars(Switch(t))
         /\ \A o \in Objects :
              /\ SF_vars(ExitMonitor(t, o))
              /\ SF_vars(ExitMonitor(t, o) /\ depth[t][o] = 1)

FairSpec == Spec /\ Fairness

-----------------------------------------------------------------------------
(* The monitors that Java code sees: lists become sets.                     *)

entrySet == [o \in Objects |-> ToSet(lockWaiters[o])]
waitSet  == [o \in Objects |-> ToSet(waitList[o])]

Monitors == INSTANCE JavaMonitors WITH
    owner <- owner, entrySet <- entrySet, waitSet <- waitSet, depth <- depth

\* The scheduler implements JavaMonitors: whichever way a thread leaves
\* Object.wait, and whatever happens while a walk of the timed-out threads is
\* suspended, it owns its monitor again before it runs, and locks change hands
\* only by hand-over.
ImplementsMonitors == Monitors!Spec

-----------------------------------------------------------------------------
(* Properties.                                                              *)

\* Types of the variables: every list of the scheduler is a list of threads,
\* every lock queue belongs to an object.
TypeOK ==
    /\ clock \in 1..MaxClock
    /\ status \in [Threads -> {"unstarted", "alive", "dead"}]
    /\ current \in Threads
    /\ active \in SUBSET Threads
    /\ sleepers \in Seq(Threads)
    /\ waitChain \in Seq(Objects)
    /\ waitList \in [Objects -> Seq(Threads)]
    /\ owner \in [Objects -> Threads \union {NoThread}]
    /\ lockWaiters \in [Objects -> Seq(Threads)]
    /\ waitObj \in [Threads -> Objects \union {NoObject}]
    /\ wakeupTime \in [Threads -> 0..MaxClock]
    /\ depth \in [Threads -> [Objects -> 0..MaxDepth]]
    /\ async \in SUBSET Threads
    /\ pendingInterrupt \in [Threads -> BOOLEAN]
    /\ frames \in Seq(Frame)
    /\ halted \in {"no", "exited", "asleep", "fault", "endless"}

InWaitLists(t) == \E o \in Objects : t \in ToSet(waitList[o])
InLockQueue(t) == \E o \in Objects : t \in ToSet(lockWaiters[o])

\* A live thread is on exactly one list of the scheduler and on it once, a
\* thread that is not alive is on none: add_to_list, remove_from_list,
\* add_waiting_thread, add_sync_thread and their removals keep the lists
\* partitioned through hand-offs, timeouts and interrupts.
OnePlace ==
    /\ \A t \in Threads :
         status[t] = "alive" <=> \/ t \in active \union async \union ToSet(sleepers)
                                \/ InWaitLists(t)
                                \/ InLockQueue(t)
    /\ active \intersect async = {}
    /\ (active \union async) \intersect ToSet(sleepers) = {}
    /\ \A t \in active \union async \union ToSet(sleepers) :
         ~InWaitLists(t) /\ ~InLockQueue(t)
    /\ \A o, p \in Objects :
         /\ ToSet(waitList[o]) \intersect ToSet(lockWaiters[p]) = {}
         /\ o # p => /\ ToSet(waitList[o]) \intersect ToSet(waitList[p]) = {}
                     /\ ToSet(lockWaiters[o]) \intersect ToSet(lockWaiters[p]) = {}
    /\ IsInjective(sleepers)
    /\ \A o \in Objects : IsInjective(waitList[o]) /\ IsInjective(lockWaiters[o])

\* A thread that is inside a synchronized region of o, and is neither in
\* Object.wait on o nor queued for its lock, owns o's lock, and nobody else
\* does: wait gives the lock up at every nesting depth and has it back before
\* the thread runs again, however the wait ended.
MonitorHeld ==
    \A t \in Threads, o \in Objects :
        (owner[o] = t) <=> (depth[t][o] > 0 /\ waitObj[t] # o)

\* A thread is never left queued on a lock that nobody owns, and a queued
\* thread has no timeout left that could take it off the queue: unlocking
\* hands the object over, and Synchronizer::enter clears the wakeup time.
LockQueueServed ==
    \A o \in Objects :
        /\ lockWaiters[o] # <<>> => owner[o] # NoThread
        /\ \A t \in ToSet(lockWaiters[o]) : wakeupTime[t] = 0

\* The chain of wait lists names exactly the objects somebody waits on, each
\* once, and a thread's wait_obj says which list it is on: removing the head
\* of a list relinks the chain of add_waiting_thread correctly.
WaitChainExact ==
    /\ IsInjective(waitChain)
    /\ ToSet(waitChain) = {o \in Objects : waitList[o] # <<>>}
    /\ \A t \in Threads, o \in Objects :
         waitObj[t] = o <=> t \in ToSet(waitList[o]) \union ToSet(lockWaiters[o])

\* OnePlace in terms of wait_obj, with which it is inductive.
Places ==
    /\ \A t \in Threads :
         status[t] = "alive" <=> \/ t \in active \union async \union ToSet(sleepers)
                                \/ waitObj[t] # NoObject
    /\ active \intersect async = {}
    /\ (active \union async) \intersect ToSet(sleepers) = {}
    /\ \A t \in active \union async \union ToSet(sleepers) : waitObj[t] = NoObject
    /\ \A o \in Objects : ToSet(waitList[o]) \intersect ToSet(lockWaiters[o]) = {}
    /\ IsInjective(sleepers)
    /\ \A o \in Objects : IsInjective(waitList[o]) /\ IsInjective(lockWaiters[o])

\* A thread that waits for an object, or for its lock, has locks to get back.
HeldWhileWaiting ==
    \A t \in Threads, o \in Objects : waitObj[t] = o => depth[t][o] > 0

\* The thread that runs Java code is an active one.
RunningIsActive == halted = "no" /\ frames = <<>> => current \in active

\* The inductive invariant of the scheduler: where the threads are, what the wait
\* lists and lock queues say and who holds which lock support each other, and
\* none of them is preserved by every step on its own.
Consistent ==
    /\ TypeOK
    /\ Places
    /\ WaitChainExact
    /\ MonitorHeld
    /\ LockQueueServed
    /\ HeldWhileWaiting
    /\ RunningIsActive

\* The walk over the timed-out threads nests at most once, so that yield needs
\* a bounded part of the native stack, and a thread that a suspended or running
\* walk still points at is waiting, or was woken behind the back of the outermost
\* walk by the nested one: then it is queued on a lock and is stepped over, or it
\* is active with a deadline that has passed, if not for the walk itself.
WalkPointers ==
    /\ Len(frames) <= 2
    /\ \A i \in DOMAIN frames : \A t \in {frames[i].th, frames[i].nw} \ {NoThread} :
          \/ Waiting(t)
          \/ InLockQueue(t)
          \/ t \in active /\ Expired(t, clock) /\ i = Len(frames)

\* The assertion of remove_waiting_thread: a timed-out thread that the walk
\* comes to is in the list that it is removed from.
WaitingThreadIsInList == halted # "fault"

\* Only the running thread gives a lock up, and a lock with a queue goes to
\* the first thread of the queue: nobody barges in before it.
LockHandOff ==
    [][\A o \in Objects : owner'[o] # owner[o] =>
          /\ owner[o] \in {NoThread, current}
          /\ lockWaiters[o] # <<>> =>
               /\ owner'[o] = Head(lockWaiters[o])
               /\ lockWaiters'[o] = Tail(lockWaiters[o])]_vars

\* Object.wait ends only by a notify of the lock's owner, by its own deadline,
\* by an interrupt, or by the end of the thread it joins.
WaitEndsForAReason ==
    [][\A t \in Threads, o \in Objects :
          t \in ToSet(waitList[o]) /\ t \notin ToSet(waitList'[o]) =>
             \/ owner[o] = current /\ owner'[o] = current
             \/ wakeupTime[t] # 0 /\ clock >= wakeupTime[t]
             \/ InterruptWait(current, t)
             \/ ThreadObj[current] = o /\ status'[current] = "dead"]_vars

\* A sleep, and a wait with a timeout, comes to an end: yield and the loop of an
\* idle VM find every expired thread.
TimeoutEnds ==
    \A t \in Threads :
        (Waiting(t) /\ wakeupTime[t] # 0) ~> (~Waiting(t) \/ halted \in {"fault", "endless"})

\* If native calls return, a thread that is queued on a lock gets it: a notified,
\* interrupted or timed-out waiter as well as one that wants to enter.
LockGranted ==
    (\A u \in Threads : []<>(u \notin async)) =>
        \A t \in Threads : InLockQueue(t) ~> ~InLockQueue(t)

=============================================================================
