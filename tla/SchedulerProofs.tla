--------------------------- MODULE SchedulerProofs ---------------------------
(***************************************************************************)
(* Theorems about module Scheduler, for every number of threads, objects,  *)
(* timeouts and nested locks: its invariants first, then that it           *)
(* implements the monitors of Java, what one step of it may do to a lock   *)
(* and to a waiting thread, and the pointers of the wake-up walk.          *)
(***************************************************************************)
EXTENDS Scheduler, ListFacts

USE ThreadsAssumption, ObjectsAssumption, BoundsAssumption

-----------------------------------------------------------------------------
(* The scheduler's list operations.                                         *)

LEMMA PositionInList ==
    ASSUME NEW S, NEW s \in Seq(S), NEW x, x \in ToSet(s)
    PROVE  Position(s, x) \in 1..Len(s) /\ s[Position(s, x)] = x
<1>1. \E i \in DOMAIN s : s[i] = x
    BY DEF ToSet
<1>2. Position(s, x) \in DOMAIN s /\ s[Position(s, x)] = x
    BY <1>1 DEF Position
<1>3. QED BY <1>2

LEMMA FirstType ==
    ASSUME NEW s \in Seq(Threads)
    PROVE  First(s) \in Threads \union {NoThread}
BY DEF First

LEMMA AfterType ==
    ASSUME NEW s \in Seq(Threads), NEW x \in ToSet(s)
    PROVE  After(s, x) \in Threads \union {NoThread}
<1> DEFINE i == Position(s, x)
<1>1. i \in 1..Len(s)
    BY PositionInList
<1>2. CASE i = Len(s)
    BY <1>2 DEF After
<1>3. CASE i # Len(s)
    <2>1. i + 1 \in 1..Len(s)
        BY <1>1, <1>3
    <2>2. QED BY <1>3, <2>1 DEF After
<1>4. QED BY <1>2, <1>3

LEMMA WithoutList ==
    ASSUME NEW S, NEW s \in Seq(S), NEW x \in ToSet(s), IsInjective(s)
    PROVE  /\ Without(s, x) \in Seq(S)
           /\ ToSet(Without(s, x)) = ToSet(s) \ {x}
           /\ IsInjective(Without(s, x))
BY PositionInList, ListRemoveAt DEF Without

-----------------------------------------------------------------------------
(* The initial state.                                                       *)

LEMMA EmptyList == ToSet(<<>>) = {} /\ IsInjective(<<>>)
BY DEF ToSet, IsInjective

LEMMA InitConsistent == Init => Consistent
<1> SUFFICES ASSUME Init PROVE Consistent
    OBVIOUS
<1> USE DEF Init
<1>1. TypeOK
    BY DEF TypeOK
<1>2. Places
    BY EmptyList DEF Places
<1>3. WaitChainExact
    BY EmptyList DEF WaitChainExact
<1>4. MonitorHeld
    BY DEF MonitorHeld
<1>5. LockQueueServed
    BY EmptyList DEF LockQueueServed
<1>6. HeldWhileWaiting
    BY DEF HeldWhileWaiting
<1>7. RunningIsActive
    BY DEF RunningIsActive
<1>8. QED BY <1>1, <1>2, <1>3, <1>4, <1>5, <1>6, <1>7 DEF Consistent

-----------------------------------------------------------------------------
(* Threads in the lists of an object, seen from the thread.                 *)

\* A thread that is active, blocked in a native method or asleep is in no list of
\* an object; a thread in Object.wait is in the list of its wait_obj.
LEMMA ListsOfThread ==
    ASSUME Consistent, NEW t \in Threads
    PROVE  /\ t \in active \union async \union ToSet(sleepers) =>
                waitObj[t] = NoObject /\ ~InWait(t)
           /\ InWait(t) => waitObj[t] \in Objects
           /\ waitObj[t] = NoObject =>
                \A o \in Objects : t \notin ToSet(waitList[o]) \union ToSet(lockWaiters[o])
BY DEF Consistent, TypeOK, Places, WaitChainExact, InWait

-----------------------------------------------------------------------------
(* Steps that leave every list and lock alone.                              *)

listVars == <<active, async, lockVars, waitVars>>

\* Frames and the thread in hand move, time passes, the VM stops, or an interrupt
\* is remembered.
LEMMA ListsUntouched ==
    ASSUME Consistent,
           UNCHANGED <<listVars, status, waitObj, wakeupTime>>,
           clock' \in 1..MaxClock,
           current' \in Threads,
           frames' \in Seq(Frame),
           halted' \in {"no", "exited", "asleep", "fault", "endless"},
           pendingInterrupt' \in [Threads -> BOOLEAN],
           halted' = "no" /\ frames' = <<>> => current' \in active
    PROVE  Consistent'
<1> USE DEF Consistent, listVars, lockVars, waitVars
<1>1. TypeOK'
    BY DEF TypeOK
<1>2. Places'
    BY DEF Places
<1>3. WaitChainExact'
    BY DEF WaitChainExact
<1>4. MonitorHeld'
    BY DEF MonitorHeld
<1>5. LockQueueServed'
    BY DEF LockQueueServed
<1>6. HeldWhileWaiting'
    BY DEF HeldWhileWaiting
<1>7. RunningIsActive'
    BY DEF RunningIsActive
<1>8. QED BY <1>1, <1>2, <1>3, <1>4, <1>5, <1>6, <1>7

\* What the walk reads next is a thread or null.
LEMMA NextOfType ==
    ASSUME Consistent, NEW t \in Threads
    PROVE  NextOf(t) \in Threads \union {NoThread}
<1>1. CASE InSleep(t)
    BY <1>1, AfterType DEF NextOf, InSleep, Consistent, TypeOK
<1>2. CASE ~InSleep(t) /\ InWait(t)
    <2>1. waitObj[t] \in Objects /\ t \in ToSet(waitList[waitObj[t]])
        BY <1>2 DEF InWait, Consistent, TypeOK
    <2>2. waitList[waitObj[t]] \in Seq(Threads)
        BY <2>1 DEF Consistent, TypeOK
    <2>3. QED BY <1>2, <2>1, <2>2, AfterType DEF NextOf
<1>3. CASE ~InSleep(t) /\ ~InWait(t)
    BY <1>3 DEF NextOf
<1>4. QED BY <1>1, <1>2, <1>3

LEMMA ChainHeadType ==
    ASSUME Consistent
    PROVE  ChainHead \in Threads \union {NoThread}
<1>1. CASE waitChain = <<>>
    BY <1>1 DEF ChainHead
<1>2. CASE waitChain # <<>>
    <2>1. waitChain \in Seq(Objects) /\ waitList \in [Objects -> Seq(Threads)]
        BY DEF Consistent, TypeOK
    <2>2. Head(waitChain) \in Objects /\ Head(waitChain) \in ToSet(waitChain)
        BY <1>2, <2>1, ListTail
    <2>3. waitList[Head(waitChain)] # <<>>
        BY <2>2 DEF Consistent, WaitChainExact
    <2>4. Head(waitList[Head(waitChain)]) \in Threads
        BY <2>1, <2>2, <2>3, ListTail
    <2>5. QED BY <1>2, <2>4 DEF ChainHead
<1>3. QED BY <1>1, <1>2

\* The head of a wait list has a successor in the chain unless its list is the last.
LEMMA NextWaitingType ==
    ASSUME Consistent, NEW t \in Threads
    PROVE  NextWaiting(t) \in Threads \union {NoThread}
<1> DEFINE o == waitObj[t]
<1>1. /\ waitChain \in Seq(Objects)
      /\ waitList \in [Objects -> Seq(Threads)]
      /\ lockWaiters \in [Objects -> Seq(Threads)]
      /\ o \in Objects \union {NoObject}
    BY DEF Consistent, TypeOK
<1>2. CASE o = NoObject
    BY <1>2 DEF NextWaiting
<1>3. CASE o # NoObject /\ t \in ToSet(lockWaiters[o])
    <2>1. lockWaiters[o] \in Seq(Threads)
        BY <1>1, <1>3
    <2>2. QED BY <1>3, <2>1, AfterType DEF NextWaiting
<1>4. CASE o # NoObject /\ t \notin ToSet(lockWaiters[o])
    <2> DEFINE k == Position(waitChain, o)
    <2>1. CASE t # First(waitList[o]) \/ o = Last(waitChain)
        BY <1>4, <2>1 DEF NextWaiting
    <2>2. CASE t = First(waitList[o]) /\ o # Last(waitChain)
        <3>1. o \in Objects /\ waitList[o] # <<>>
            BY <1>1, <1>4, <2>2 DEF First
        <3>2. o \in ToSet(waitChain)
            BY <3>1 DEF Consistent, WaitChainExact
        <3>3. k \in 1..Len(waitChain) /\ waitChain[k] = o
            BY <1>1, <3>2, PositionInList
        <3>4. k # Len(waitChain)
            BY <2>2, <3>3 DEF Last
        <3>5. k + 1 \in 1..Len(waitChain)
            BY <1>1, <3>3, <3>4
        <3>6. waitChain[k + 1] \in Objects /\ waitChain[k + 1] \in ToSet(waitChain)
            BY <1>1, <3>5, ListElements
        <3>7. waitList[waitChain[k + 1]] # <<>>
            BY <3>6 DEF Consistent, WaitChainExact
        <3>8. Head(waitList[waitChain[k + 1]]) \in Threads
            BY <1>1, <3>6, <3>7, ListTail
        <3>9. QED BY <1>4, <2>2, <3>8 DEF NextWaiting
    <2>3. QED BY <2>1, <2>2
<1>5. QED BY <1>2, <1>3, <1>4

\* Changing the innermost activation of yield, and starting one.
LEMMA SetTopType ==
    ASSUME frames \in Seq(Frame), frames # <<>>, NEW f \in Frame
    PROVE  /\ Top \in Frame
           /\ <<f>> \o Tail(frames) \in Seq(Frame)
           /\ <<f>> \o Tail(frames) # <<>>
<1>1. Top \in Frame /\ Tail(frames) \in Seq(Frame)
    BY ListTail DEF Top
<1>2. <<f>> \in Seq(Frame) /\ Len(<<f>>) = 1
    OBVIOUS
<1>3. QED BY <1>1, <1>2, ConcatProperties

LEMMA NewFrameType == NewFrame \in Frame /\ <<NewFrame>> \in Seq(Frame) /\ <<NewFrame>> # <<>>
<1>1. 0 \in 0..MaxClock
    OBVIOUS
<1>2. NewFrame \in Frame
    BY <1>1 DEF NewFrame, Frame
<1>3. QED BY <1>2

\* The steps of yield that only move the walk, the end of yield, and the steps of the
\* program that leave the lists alone.
LEMMA WalkSteps ==
    ASSUME Consistent,
           \/ BeginScan \/ NextList \/ ReturnToScan \/ SleepOver \/ NoMoreThreads
           \/ \E t \in Threads :
                \/ StepOver(t) \/ WaitingThreadNotInList(t) \/ WalkStrays(t)
                \/ Switch(t)
    PROVE  Consistent'
<1>1. /\ clock \in 1..MaxClock /\ current \in Threads /\ frames \in Seq(Frame)
      /\ halted \in {"no", "exited", "asleep", "fault", "endless"}
      /\ pendingInterrupt \in [Threads -> BOOLEAN]
      /\ sleepers \in Seq(Threads)
    BY DEF Consistent, TypeOK
<1> USE DEF listVars, lockVars, waitVars, threadVars
<1>2. CASE BeginScan
    <2>1. [stage |-> "scan", time |-> clock, th |-> First(sleepers), nw |-> ChainHead]
            \in Frame
        BY <1>1, FirstType, ChainHeadType DEF Frame
    <2>2. frames' \in Seq(Frame) /\ frames' # <<>>
        BY <1>1, <1>2, <2>1, SetTopType DEF BeginScan, SetTop, InYield
    <2>3. QED BY <1>1, <1>2, <2>2, ListsUntouched DEF BeginScan
<1>3. CASE NextList
    <2>1. Top \in Frame
        BY <1>1, <1>3, NewFrameType, SetTopType DEF NextList, Scanning, InYield
    <2>2. Top.nw \in Threads
        BY <1>3, <2>1 DEF NextList, Frame
    <2>3. [Top EXCEPT !.th = Top.nw, !.nw = NextWaiting(Top.nw)] \in Frame
        BY <2>1, <2>2, NextWaitingType DEF Frame
    <2>4. frames' \in Seq(Frame) /\ frames' # <<>>
        BY <1>1, <1>3, <2>3, SetTopType DEF NextList, Scanning, SetTop, InYield
    <2>5. QED BY <1>1, <1>3, <2>4, ListsUntouched DEF NextList
<1>4. CASE ReturnToScan
    <2>1. frames # <<>>
        BY <1>4 DEF ReturnToScan, ScanDone, Scanning, InYield
    <2>2. Len(frames) > 1
        BY <1>4 DEF ReturnToScan
    <2>3. frames' \in Seq(Frame) /\ frames' # <<>>
        BY <1>1, <1>4, <2>2, TailOfLonger DEF ReturnToScan
    <2>4. QED BY <1>1, <1>4, <2>3, ListsUntouched DEF ReturnToScan
<1>5. CASE SleepOver
    <2>1. frames' \in Seq(Frame) /\ frames' # <<>>
        BY <1>1, <1>5, NewFrameType, SetTopType
        DEF SleepOver, ScanDone, Scanning, SetTop, InYield
    <2>2. QED BY <1>1, <1>5, <2>1, ListsUntouched DEF SleepOver
<1>6. CASE NoMoreThreads
    <2>1. halted' \in {"exited", "asleep"}
        BY <1>6 DEF NoMoreThreads
    <2>2. QED BY <1>1, <1>6, <2>1, ListsUntouched DEF NoMoreThreads
<1>7. ASSUME NEW t \in Threads, StepOver(t) PROVE Consistent'
    <2>1. frames # <<>>
        BY <1>7 DEF StepOver, Visiting, Scanning, InYield
    <2>2. Top \in Frame
        BY <1>1, <2>1, NewFrameType, SetTopType
    <2>3. [Top EXCEPT !.th = NextOf(t)] \in Frame
        BY <2>2, NextOfType DEF Frame
    <2>4. frames' \in Seq(Frame) /\ frames' # <<>>
        BY <1>1, <1>7, <2>1, <2>3, SetTopType DEF StepOver, SetTop
    <2>5. QED BY <1>1, <1>7, <2>4, ListsUntouched DEF StepOver
<1>8. ASSUME NEW t \in Threads, WaitingThreadNotInList(t) \/ WalkStrays(t) PROVE Consistent'
    BY <1>1, <1>8, ListsUntouched DEF WaitingThreadNotInList, WalkStrays
<1>9. ASSUME NEW t \in Threads, Switch(t) PROVE Consistent'
    BY <1>1, <1>9, ListsUntouched DEF Switch
<1>10. QED BY <1>2, <1>3, <1>4, <1>5, <1>6, <1>7, <1>8, <1>9

\* Time passes, the current thread yields, an interrupt is remembered or handled.
LEMMA PlainSteps ==
    ASSUME Consistent,
           \/ Tick \/ Stopped
           \/ \E t \in Threads : Yield(t) \/ HandlePendingInterrupt(t)
           \/ \E t, u \in Threads : InterruptPending(t, u)
    PROVE  Consistent'
<1>1. /\ clock \in 1..MaxClock /\ current \in Threads /\ frames \in Seq(Frame)
      /\ halted \in {"no", "exited", "asleep", "fault", "endless"}
      /\ pendingInterrupt \in [Threads -> BOOLEAN]
      /\ (halted = "no" /\ frames = <<>> => current \in active)
    BY DEF Consistent, TypeOK, RunningIsActive
<1> USE DEF listVars, lockVars, waitVars, threadVars
<1>2. CASE Tick
    <2>1. clock' \in 1..MaxClock
        BY <1>1, <1>2 DEF Tick
    <2>2. QED BY <1>1, <1>2, <2>1, ListsUntouched DEF Tick
<1>3. CASE Stopped
    BY <1>1, <1>3, ListsUntouched DEF Stopped, vars
<1>4. ASSUME NEW t \in Threads, Yield(t) PROVE Consistent'
    BY <1>1, <1>4, NewFrameType, ListsUntouched DEF Yield, Yielding
<1>5. ASSUME NEW t \in Threads, HandlePendingInterrupt(t) PROVE Consistent'
    BY <1>1, <1>5, ListsUntouched DEF HandlePendingInterrupt
<1>6. ASSUME NEW t \in Threads, NEW u \in Threads, InterruptPending(t, u)
      PROVE  Consistent'
    BY <1>1, <1>6, ListsUntouched DEF InterruptPending
<1>7. QED BY <1>2, <1>3, <1>4, <1>5, <1>6

-----------------------------------------------------------------------------
(* The running thread.                                                      *)

\* The running thread is active: it waits for nothing, is in no list, and holds the
\* locks its frames say it holds.
LEMMA RunningThread ==
    ASSUME Consistent, NEW t \in Threads, Running(t)
    PROVE  /\ t \in active /\ t \notin async /\ t \notin ToSet(sleepers)
           /\ status[t] = "alive"
           /\ waitObj[t] = NoObject
           /\ \A o \in Objects : /\ t \notin ToSet(waitList[o])
                                 /\ t \notin ToSet(lockWaiters[o])
                                 /\ owner[o] = t <=> depth[t][o] > 0
<1>1. t \in active
    BY DEF Consistent, RunningIsActive, Running
<1>2. t \notin async /\ t \notin ToSet(sleepers) /\ status[t] = "alive"
    BY <1>1 DEF Consistent, Places
<1>3. waitObj[t] = NoObject
    BY <1>1 DEF Consistent, Places
<1>4. \A o \in Objects : t \notin ToSet(waitList[o]) /\ t \notin ToSet(lockWaiters[o])
    BY <1>3 DEF Consistent, WaitChainExact
<1>5. \A o \in Objects : owner[o] = t <=> depth[t][o] > 0
    BY <1>3 DEF Consistent, MonitorHeld
<1>6. QED BY <1>1, <1>2, <1>3, <1>4, <1>5

-----------------------------------------------------------------------------
(* Steps that move threads between the active ones, the sleepers, the threads *)
(* blocked in native methods and those not started.                          *)

LEMMA ObjectsUntouched ==
    ASSUME Consistent,
           UNCHANGED <<lockVars, waitChain, waitList, waitObj, clock, current, halted,
                       pendingInterrupt>>,
           status' \in [Threads -> {"unstarted", "alive", "dead"}],
           active' \subseteq Threads, async' \subseteq Threads,
           sleepers' \in Seq(Threads), IsInjective(sleepers'),
           wakeupTime' \in [Threads -> 0..MaxClock],
           \A t \in Threads : wakeupTime'[t] # wakeupTime[t] => waitObj[t] = NoObject,
           frames' \in Seq(Frame),
           active' \intersect async' = {},
           (active' \union async') \intersect ToSet(sleepers') = {},
           \A t \in active' \union async' \union ToSet(sleepers') : waitObj[t] = NoObject,
           \A t \in Threads :
              status'[t] = "alive" <=> \/ t \in active' \union async' \union ToSet(sleepers')
                                      \/ waitObj[t] # NoObject,
           halted = "no" /\ frames' = <<>> => current \in active'
    PROVE  Consistent'
<1> USE DEF Consistent, lockVars
<1>1. TypeOK'
    BY DEF TypeOK
<1>2. Places'
    BY DEF Places
<1>3. WaitChainExact'
    BY DEF WaitChainExact
<1>4. MonitorHeld'
    BY DEF MonitorHeld
<1>5. LockQueueServed'
    <2>1. ASSUME NEW o \in Objects, NEW t \in ToSet(lockWaiters[o])
          PROVE  wakeupTime'[t] = 0
        <3>1. lockWaiters[o] \in Seq(Threads)
            BY DEF TypeOK
        <3>2. t \in Threads
            BY <3>1, ListElements
        <3>3. waitObj[t] = o /\ wakeupTime[t] = 0
            BY <3>2 DEF WaitChainExact, LockQueueServed
        <3>4. QED BY <3>2, <3>3
    <2>2. QED BY <2>1 DEF LockQueueServed
<1>6. HeldWhileWaiting'
    BY DEF HeldWhileWaiting
<1>7. RunningIsActive'
    BY DEF RunningIsActive
<1>8. QED BY <1>1, <1>2, <1>3, <1>4, <1>5, <1>6, <1>7

\* An event arrives for a thread blocked in a native method.
LEMMA UnblockSteps ==
    ASSUME Consistent, NEW u \in Threads, Poll(u) \/ EventArrives(u)
    PROVE  Consistent'
<1>1. /\ active \subseteq Threads /\ async \subseteq Threads
      /\ sleepers \in Seq(Threads) /\ frames \in Seq(Frame)
      /\ status \in [Threads -> {"unstarted", "alive", "dead"}]
      /\ wakeupTime \in [Threads -> 0..MaxClock]
    BY DEF Consistent, TypeOK
<1>2. /\ u \in async /\ async' = async \ {u} /\ active' = active \union {u}
      /\ UNCHANGED UnblockVars
    BY DEF Poll, EventArrives
<1>3. frames' \in Seq(Frame) /\ frames' # <<>>
    <2>1. CASE Poll(u)
        BY <1>1, <2>1 DEF Poll, InYield
    <2>2. CASE EventArrives(u)
        BY <1>1, <2>2, NewFrameType, SetTopType
        DEF EventArrives, ScanDone, Scanning, SetTop, InYield
    <2>3. QED BY <2>1, <2>2
<1>4. QED BY <1>1, <1>2, <1>3, ObjectsUntouched
          DEF UnblockVars, waitVars, threadVars, Consistent, Places

\* SNI_BlockThread.
LEMMA BlockAsyncStep ==
    ASSUME Consistent, NEW t \in Threads, BlockAsync(t)
    PROVE  Consistent'
<1>1. /\ active \subseteq Threads /\ async \subseteq Threads
      /\ sleepers \in Seq(Threads)
      /\ status \in [Threads -> {"unstarted", "alive", "dead"}]
      /\ wakeupTime \in [Threads -> 0..MaxClock]
    BY DEF Consistent, TypeOK
<1>2. /\ t \in active /\ t \notin async /\ t \notin ToSet(sleepers)
      /\ waitObj[t] = NoObject
    BY RunningThread DEF BlockAsync
<1>3. frames' \in Seq(Frame) /\ frames' # <<>>
    BY NewFrameType DEF BlockAsync, Yielding
<1>4. QED BY <1>1, <1>2, <1>3, ObjectsUntouched
          DEF BlockAsync, waitVars, threadVars, Consistent, Places

\* Thread.sleep.
LEMMA SleepStep ==
    ASSUME Consistent, NEW t \in Threads, NEW ms \in Millis \union {0}, Sleep(t, ms)
    PROVE  Consistent'
<1>1. /\ active \subseteq Threads /\ async \subseteq Threads
      /\ sleepers \in Seq(Threads)
      /\ status \in [Threads -> {"unstarted", "alive", "dead"}]
      /\ wakeupTime \in [Threads -> 0..MaxClock]
      /\ clock \in 1..MaxClock
    BY DEF Consistent, TypeOK
<1>2. /\ t \in active /\ t \notin async /\ t \notin ToSet(sleepers)
      /\ status[t] = "alive" /\ waitObj[t] = NoObject
    BY RunningThread DEF Sleep
<1>3. frames' \in Seq(Frame) /\ frames' # <<>>
    BY NewFrameType DEF Sleep, Yielding
<1>4. /\ sleepers' \in Seq(Threads) /\ IsInjective(sleepers')
      /\ ToSet(sleepers') = ToSet(sleepers) \union {t}
    BY <1>1, <1>2, ListAppend DEF Sleep, Consistent, Places
<1>5. clock + ms \in 0..MaxClock
    BY <1>1 DEF Sleep
<1>6. wakeupTime' \in [Threads -> 0..MaxClock]
      /\ \A u \in Threads : wakeupTime'[u] # wakeupTime[u] => u = t
    BY <1>1, <1>5 DEF Sleep
<1>7. /\ active' \intersect async' = {}
      /\ (active' \union async') \intersect ToSet(sleepers') = {}
      /\ \A v \in active' \union async' \union ToSet(sleepers') : waitObj[v] = NoObject
    BY <1>1, <1>2, <1>4 DEF Sleep, Consistent, Places
<1>8. \A v \in Threads :
         status'[v] = "alive" <=> \/ v \in active' \union async' \union ToSet(sleepers')
                                 \/ waitObj[v] # NoObject
    BY <1>1, <1>2, <1>4 DEF Sleep, Consistent, Places
<1>9. QED BY <1>1, <1>2, <1>3, <1>4, <1>6, <1>7, <1>8, ObjectsUntouched DEF Sleep

\* A sleep ends, by an interrupt or because its time has come.
LEMMA EndSleepSteps ==
    ASSUME Consistent, NEW u \in Threads,
           WakeSleeper(u) \/ \E t \in Threads : InterruptSleep(t, u)
    PROVE  Consistent'
<1>1. /\ active \subseteq Threads /\ async \subseteq Threads
      /\ sleepers \in Seq(Threads) /\ IsInjective(sleepers)
      /\ status \in [Threads -> {"unstarted", "alive", "dead"}]
      /\ wakeupTime \in [Threads -> 0..MaxClock]
    BY DEF Consistent, TypeOK, Places
<1>2. /\ u \in ToSet(sleepers) /\ sleepers' = Without(sleepers, u)
      /\ active' = active \union {u}
      /\ UNCHANGED <<clock, current, async, halted, lockVars, waitChain, waitList,
                     threadVars>>
    BY DEF WakeSleeper, InterruptSleep, InSleep
<1>3. /\ sleepers' \in Seq(Threads) /\ IsInjective(sleepers')
      /\ ToSet(sleepers') = ToSet(sleepers) \ {u}
    BY <1>1, <1>2, WithoutList
<1>4. frames' \in Seq(Frame) /\ (halted = "no" /\ frames' = <<>> => current \in active')
    <2>1. CASE WakeSleeper(u)
        <3>1. frames # <<>> /\ frames \in Seq(Frame)
            BY <2>1 DEF WakeSleeper, Visiting, Scanning, InYield, Consistent, TypeOK
        <3>2. Top \in Frame
            BY <3>1, NewFrameType, SetTopType
        <3>3. [Top EXCEPT !.th = NextOf(u)] \in Frame
            BY <3>2, NextOfType DEF Frame
        <3>4. QED BY <2>1, <3>1, <3>3, SetTopType DEF WakeSleeper, SetTop
    <2>2. ASSUME NEW t \in Threads, InterruptSleep(t, u)
          PROVE  frames' = frames /\ current \in active'
        BY <1>2, <2>2, RunningThread DEF InterruptSleep, Running
    <2>3. frames \in Seq(Frame)
        BY DEF Consistent, TypeOK
    <2>4. QED BY <2>1, <2>2, <2>3
<1>5. /\ active' \intersect async' = {}
      /\ (active' \union async') \intersect ToSet(sleepers') = {}
      /\ \A v \in active' \union async' \union ToSet(sleepers') : waitObj[v] = NoObject
    BY <1>1, <1>2, <1>3 DEF threadVars, Consistent, Places
<1>6. \A v \in Threads :
         status'[v] = "alive" <=> \/ v \in active' \union async' \union ToSet(sleepers')
                                 \/ waitObj[v] # NoObject
    BY <1>1, <1>2, <1>3 DEF threadVars, Consistent, Places
<1>7. QED BY <1>1, <1>2, <1>3, <1>4, <1>5, <1>6, ObjectsUntouched DEF threadVars

\* Thread.start.
LEMMA StartStep ==
    ASSUME Consistent, NEW t \in Threads, NEW u \in Threads, Start(t, u)
    PROVE  Consistent'
<1>1. /\ active \subseteq Threads /\ async \subseteq Threads
      /\ sleepers \in Seq(Threads) /\ IsInjective(sleepers)
      /\ status \in [Threads -> {"unstarted", "alive", "dead"}]
      /\ wakeupTime \in [Threads -> 0..MaxClock]
      /\ frames \in Seq(Frame)
    BY DEF Consistent, TypeOK, Places
<1>2. /\ u \notin active \union async \union ToSet(sleepers)
      /\ waitObj[u] = NoObject
    BY DEF Start, Consistent, Places
<1>3. status' \in [Threads -> {"unstarted", "alive", "dead"}]
      /\ \A v \in Threads : status'[v] = "alive" <=> status[v] = "alive" \/ v = u
    BY <1>1 DEF Start
<1>4. current \in active'
    BY RunningThread DEF Start, Running
<1>5. /\ active' \intersect async' = {}
      /\ (active' \union async') \intersect ToSet(sleepers') = {}
      /\ \A v \in active' \union async' \union ToSet(sleepers') : waitObj[v] = NoObject
    BY <1>1, <1>2, <1>3 DEF Start, waitVars, Consistent, Places
<1>6. \A v \in Threads :
         status'[v] = "alive" <=> \/ v \in active' \union async' \union ToSet(sleepers')
                                 \/ waitObj[v] # NoObject
    BY <1>1, <1>2, <1>3 DEF Start, waitVars, Consistent, Places
<1>7. QED BY <1>1, <1>2, <1>3, <1>4, <1>5, <1>6, ObjectsUntouched DEF Start, waitVars

-----------------------------------------------------------------------------
(* What the pieces that the lock operations share do to one object.         *)

\* Unlocking o: the first queued thread, if there is one, owns o and has left the queue.
LEMMA UnlockFacts ==
    ASSUME Consistent, NEW o \in Objects, Unlock(o)
    PROVE  /\ owner' \in [Objects -> Threads \union {NoThread}]
           /\ lockWaiters' \in [Objects -> Seq(Threads)]
           /\ \A p \in Objects \ {o} : owner'[p] = owner[p] /\ lockWaiters'[p] = lockWaiters[p]
           /\ HandedTo(o) = {} => lockWaiters'[o] = <<>> /\ owner'[o] = NoThread
           /\ \A h \in HandedTo(o) : /\ h \in Threads /\ HandedTo(o) = {h}
                                     /\ h \in ToSet(lockWaiters[o])
                                     /\ owner'[o] = h
           /\ ToSet(lockWaiters'[o]) = ToSet(lockWaiters[o]) \ HandedTo(o)
           /\ IsInjective(lockWaiters'[o])
<1>1. /\ owner \in [Objects -> Threads \union {NoThread}]
      /\ lockWaiters \in [Objects -> Seq(Threads)]
      /\ lockWaiters[o] \in Seq(Threads)
      /\ IsInjective(lockWaiters[o])
    BY DEF Consistent, TypeOK, Places
<1>2. CASE lockWaiters[o] = <<>>
    <2>1. HandedTo(o) = {} /\ NewOwner(o) = NoThread
        BY <1>2 DEF HandedTo, NewOwner, First
    <2>2. owner' = [owner EXCEPT ![o] = NoThread] /\ lockWaiters' = lockWaiters
        BY <1>1, <1>2, <2>1 DEF Unlock
    <2>3. QED BY <1>1, <1>2, <2>1, <2>2
<1>3. CASE lockWaiters[o] # <<>>
    <2> DEFINE h == Head(lockWaiters[o])
               q == Tail(lockWaiters[o])
    <2>1. /\ h \in Threads /\ q \in Seq(Threads)
          /\ ToSet(lockWaiters[o]) = {h} \union ToSet(q)
          /\ IsInjective(q) /\ h \notin ToSet(q)
        BY <1>1, <1>3, ListTail
    <2>2. HandedTo(o) = {h} /\ NewOwner(o) = h
        BY <1>3 DEF HandedTo, NewOwner, First
    <2>3. owner' = [owner EXCEPT ![o] = h] /\ lockWaiters' = [lockWaiters EXCEPT ![o] = q]
        BY <1>3, <2>2 DEF Unlock
    <2> HIDE DEF h, q
    <2>4. QED BY <1>1, <2>1, <2>2, <2>3
<1>4. QED BY <1>2, <1>3

\* Threads ws that leave Object.wait are split into the one that is granted the lock and
\* those that are queued on it.
LEMMA ReenterFacts ==
    ASSUME Consistent, NEW o \in Objects, NEW ws \in Seq(Threads), ws # <<>>,
           IsInjective(ws), ToSet(ws) \subseteq ToSet(waitList[o]), Reenter(o, ws)
    PROVE  LET G == Granted(o, ws)
               Q == ToSet(Queued(o, ws))
           IN  /\ ToSet(ws) = G \union Q /\ G \intersect Q = {}
               /\ owner' \in [Objects -> Threads \union {NoThread}]
               /\ lockWaiters' \in [Objects -> Seq(Threads)]
               /\ \A p \in Objects \ {o} :
                    owner'[p] = owner[p] /\ lockWaiters'[p] = lockWaiters[p]
               /\ owner[o] # NoThread => G = {} /\ owner'[o] = owner[o]
               /\ owner[o] = NoThread => G = {owner'[o]}
               /\ owner'[o] \in Threads
               /\ ToSet(lockWaiters'[o]) = ToSet(lockWaiters[o]) \union Q
               /\ IsInjective(lockWaiters'[o])
<1> DEFINE q == Queued(o, ws)
<1>1. /\ owner \in [Objects -> Threads \union {NoThread}]
      /\ lockWaiters \in [Objects -> Seq(Threads)]
      /\ lockWaiters[o] \in Seq(Threads)
      /\ IsInjective(lockWaiters[o])
      /\ ToSet(waitList[o]) \intersect ToSet(lockWaiters[o]) = {}
    BY DEF Consistent, TypeOK, Places
<1>2. /\ q \in Seq(Threads) /\ IsInjective(q)
      /\ ToSet(ws) = Granted(o, ws) \union ToSet(q)
      /\ Granted(o, ws) \intersect ToSet(q) = {}
      /\ Granted(o, ws) \subseteq Threads
    BY ListTail DEF Queued, Granted
<1> HIDE DEF q
<1>3. ToSet(lockWaiters[o]) \intersect ToSet(q) = {}
    BY <1>1, <1>2
<1>4. /\ lockWaiters[o] \o q \in Seq(Threads)
      /\ ToSet(lockWaiters[o] \o q) = ToSet(lockWaiters[o]) \union ToSet(q)
      /\ IsInjective(lockWaiters[o] \o q)
    BY <1>1, <1>2, <1>3, ListConcat
<1>5. lockWaiters' = [lockWaiters EXCEPT ![o] = lockWaiters[o] \o q]
    BY DEF Reenter, q
<1>6. /\ lockWaiters' \in [Objects -> Seq(Threads)]
      /\ \A p \in Objects \ {o} : lockWaiters'[p] = lockWaiters[p]
      /\ lockWaiters'[o] = lockWaiters[o] \o q
    BY <1>1, <1>4, <1>5
<1>7. /\ owner' \in [Objects -> Threads \union {NoThread}]
      /\ \A p \in Objects \ {o} : owner'[p] = owner[p]
      /\ owner[o] # NoThread => Granted(o, ws) = {} /\ owner'[o] = owner[o]
      /\ owner[o] = NoThread => Granted(o, ws) = {owner'[o]}
      /\ owner'[o] \in Threads
    <2>1. Head(ws) \in Threads
        BY ListTail
    <2>2. CASE owner[o] = NoThread
        BY <1>1, <2>1, <2>2 DEF Reenter, Granted
    <2>3. CASE owner[o] # NoThread
        BY <1>1, <2>3 DEF Reenter, Granted
    <2>4. QED BY <2>2, <2>3
<1>8. QED BY <1>2, <1>4, <1>6, <1>7 DEF q

\* When s is left of o's wait list, the chain names exactly the lists with threads.
LEMMA LeaveFacts ==
    ASSUME Consistent, NEW o \in Objects, NEW s \in Seq(Threads),
           waitList[o] # <<>>, LeaveWaitList(o, s)
    PROVE  /\ waitList' \in [Objects -> Seq(Threads)]
           /\ waitList'[o] = s
           /\ \A p \in Objects \ {o} : waitList'[p] = waitList[p]
           /\ waitChain' \in Seq(Objects)
           /\ IsInjective(waitChain')
           /\ ToSet(waitChain') = {p \in Objects : waitList'[p] # <<>>}
<1>1. /\ waitList \in [Objects -> Seq(Threads)]
      /\ waitChain \in Seq(Objects) /\ IsInjective(waitChain)
      /\ ToSet(waitChain) = {p \in Objects : waitList[p] # <<>>}
    BY DEF Consistent, TypeOK, WaitChainExact
<1>2. /\ waitList' \in [Objects -> Seq(Threads)]
      /\ waitList'[o] = s
      /\ \A p \in Objects \ {o} : waitList'[p] = waitList[p]
    BY <1>1 DEF LeaveWaitList
<1>3. CASE s = <<>>
    <2>1. waitChain' = Without(waitChain, o)
        BY <1>3 DEF LeaveWaitList, ChainAfter
    <2>2. /\ waitChain' \in Seq(Objects) /\ IsInjective(waitChain')
          /\ ToSet(waitChain') = ToSet(waitChain) \ {o}
        BY <1>1, <2>1, WithoutList
    <2>3. ToSet(waitChain') = {p \in Objects : waitList'[p] # <<>>}
        BY <1>1, <1>2, <1>3, <2>2
    <2>4. QED BY <1>2, <2>2, <2>3
<1>4. CASE s # <<>>
    <2>1. waitChain' = waitChain
        BY <1>4 DEF LeaveWaitList, ChainAfter
    <2>2. ToSet(waitChain') = {p \in Objects : waitList'[p] # <<>>}
        BY <1>1, <1>2, <1>4, <2>1
    <2>3. QED BY <1>1, <1>2, <2>1, <2>2
<1>5. QED BY <1>3, <1>4

-----------------------------------------------------------------------------
(* Steps that lock, unlock and wait.                                        *)

\* monitorenter on a lock that is free or the thread's own.
LEMMA EnterMonitorStep ==
    ASSUME Consistent, NEW t \in Threads, NEW o \in Objects, EnterMonitor(t, o)
    PROVE  Consistent'
<1>1. TypeOK
    BY DEF Consistent
<1>2. waitObj[t] = NoObject /\ waitObj[t] # o
    BY RunningThread DEF EnterMonitor
<1>3. /\ owner[o] \in {NoThread, t} /\ owner' = [owner EXCEPT ![o] = t]
      /\ depth' = [depth EXCEPT ![t][o] = @ + 1] /\ depth[t][o] < MaxDepth
      /\ UNCHANGED <<clock, current, active, async, frames, halted, lockWaiters,
                     sleepers, waitChain, waitList, status, waitObj, wakeupTime,
                     pendingInterrupt>>
    BY DEF EnterMonitor, waitVars, threadVars
<1>4. depth[t][o] + 1 \in 0..MaxDepth /\ depth[t][o] + 1 > 0
    BY <1>1, <1>3 DEF TypeOK
<1>5. /\ depth' \in [Threads -> [Objects -> 0..MaxDepth]]
      /\ depth'[t][o] > 0
      /\ \A u \in Threads, p \in Objects : u # t \/ p # o => depth'[u][p] = depth[u][p]
    BY <1>1, <1>3, <1>4 DEF TypeOK
<1>6. /\ owner' \in [Objects -> Threads \union {NoThread}]
      /\ owner'[o] = t
      /\ \A p \in Objects \ {o} : owner'[p] = owner[p]
    BY <1>1, <1>3 DEF TypeOK
<1> USE DEF Consistent
<1>7. TypeOK'
    BY <1>1, <1>3, <1>5, <1>6 DEF TypeOK
<1>8. Places' /\ WaitChainExact'
    BY <1>3 DEF Places, WaitChainExact
<1>9. MonitorHeld'
    <2> SUFFICES ASSUME NEW u \in Threads, NEW p \in Objects
                 PROVE  owner'[p] = u <=> depth'[u][p] > 0 /\ waitObj[u] # p
        BY <1>3 DEF MonitorHeld
    <2>1. owner[p] = u <=> depth[u][p] > 0 /\ waitObj[u] # p
        BY DEF MonitorHeld
    <2>2. QED BY <1>2, <1>3, <1>5, <1>6, <2>1
<1>10. LockQueueServed'
    BY <1>3, <1>6 DEF LockQueueServed
<1>11. HeldWhileWaiting'
    BY <1>2, <1>3, <1>5 DEF HeldWhileWaiting
<1>12. RunningIsActive'
    BY <1>3 DEF RunningIsActive
<1>13. QED BY <1>7, <1>8, <1>9, <1>10, <1>11, <1>12

\* monitorenter on the lock of another thread.
LEMMA BlockOnMonitorStep ==
    ASSUME Consistent, NEW t \in Threads, NEW o \in Objects, BlockOnMonitor(t, o)
    PROVE  Consistent'
<1>1. TypeOK
    BY DEF Consistent
<1>2. /\ t \in active /\ t \notin async /\ t \notin ToSet(sleepers)
      /\ status[t] = "alive" /\ waitObj[t] = NoObject
      /\ t \notin ToSet(waitList[o]) /\ t \notin ToSet(lockWaiters[o])
      /\ owner[o] = t <=> depth[t][o] > 0
    BY RunningThread DEF BlockOnMonitor
<1>3. /\ owner[o] \notin {NoThread, t}
      /\ depth' = [depth EXCEPT ![t][o] = @ + 1]
      /\ active' = active \ {t}
      /\ lockWaiters' = [lockWaiters EXCEPT ![o] = Append(@, t)]
      /\ waitObj' = [waitObj EXCEPT ![t] = o]
      /\ wakeupTime' = [wakeupTime EXCEPT ![t] = 0]
      /\ frames' \in Seq(Frame) /\ frames' # <<>>
      /\ UNCHANGED <<clock, current, async, halted, owner, sleepers, waitChain,
                     waitList, status, pendingInterrupt>>
    BY NewFrameType DEF BlockOnMonitor, waitVars, Yielding
<1>4. depth[t][o] = 0
    BY <1>1, <1>2, <1>3 DEF TypeOK
<1>5. /\ depth' \in [Threads -> [Objects -> 0..MaxDepth]]
      /\ depth'[t][o] > 0
      /\ \A u \in Threads, p \in Objects : u # t \/ p # o => depth'[u][p] = depth[u][p]
    BY <1>1, <1>3, <1>4 DEF TypeOK
<1>6. lockWaiters[o] \in Seq(Threads) /\ IsInjective(lockWaiters[o])
    BY <1>1 DEF TypeOK, Consistent, Places
<1>7. /\ lockWaiters' \in [Objects -> Seq(Threads)]
      /\ \A p \in Objects \ {o} : lockWaiters'[p] = lockWaiters[p]
      /\ ToSet(lockWaiters'[o]) = ToSet(lockWaiters[o]) \union {t}
      /\ IsInjective(lockWaiters'[o])
    BY <1>1, <1>2, <1>3, <1>6, ListAppend DEF TypeOK
<1>8. /\ waitObj' \in [Threads -> Objects \union {NoObject}]
      /\ waitObj'[t] = o
      /\ \A u \in Threads \ {t} : waitObj'[u] = waitObj[u]
    BY <1>1, <1>3 DEF TypeOK
<1>9. /\ wakeupTime' \in [Threads -> 0..MaxClock]
      /\ wakeupTime'[t] = 0
      /\ \A u \in Threads \ {t} : wakeupTime'[u] = wakeupTime[u]
    <2>1. 0 \in 0..MaxClock
        OBVIOUS
    <2>2. QED BY <1>1, <1>3, <2>1 DEF TypeOK
<1> USE DEF Consistent
<1>10. TypeOK'
    BY <1>1, <1>3, <1>5, <1>7, <1>8, <1>9 DEF TypeOK
<1>11. Places'
    BY <1>2, <1>3, <1>7, <1>8 DEF Places
<1>12. WaitChainExact'
    BY <1>2, <1>3, <1>7, <1>8 DEF WaitChainExact
<1>13. MonitorHeld'
    <2> SUFFICES ASSUME NEW u \in Threads, NEW p \in Objects
                 PROVE  owner[p] = u <=> depth'[u][p] > 0 /\ waitObj'[u] # p
        BY <1>3 DEF MonitorHeld
    <2>1. owner[p] = u <=> depth[u][p] > 0 /\ waitObj[u] # p
        BY DEF MonitorHeld
    <2>2. QED BY <1>2, <1>3, <1>5, <1>8, <2>1
<1>14. LockQueueServed'
    BY <1>3, <1>7, <1>9 DEF LockQueueServed
<1>15. HeldWhileWaiting'
    BY <1>2, <1>3, <1>5, <1>8 DEF HeldWhileWaiting
<1>16. RunningIsActive'
    BY <1>3 DEF RunningIsActive
<1>17. QED BY <1>10, <1>11, <1>12, <1>13, <1>14, <1>15, <1>16

\* The lists are lists of threads.
LEMMA ListsAreThreads ==
    ASSUME Consistent
    PROVE  /\ active \union async \union ToSet(sleepers) \subseteq Threads
           /\ \A o \in Objects : /\ ToSet(waitList[o]) \subseteq Threads
                                 /\ ToSet(lockWaiters[o]) \subseteq Threads
<1>1. sleepers \in Seq(Threads) /\ active \union async \subseteq Threads
    BY DEF Consistent, TypeOK
<1>2. \A o \in Objects : waitList[o] \in Seq(Threads) /\ lockWaiters[o] \in Seq(Threads)
    BY DEF Consistent, TypeOK
<1>3. QED BY <1>1, <1>2, ListElements

\* A thread queued on a lock has this lock as its wait_obj and no timeout.
LEMMA QueuedThread ==
    ASSUME Consistent, NEW o \in Objects, NEW u \in ToSet(lockWaiters[o])
    PROVE  /\ u \in Threads /\ waitObj[u] = o /\ wakeupTime[u] = 0
           /\ u \notin active /\ u \notin async /\ u \notin ToSet(sleepers)
           /\ u \notin ToSet(waitList[o])
           /\ status[u] = "alive" /\ depth[u][o] > 0
<1>1. lockWaiters[o] \in Seq(Threads)
    BY DEF Consistent, TypeOK
<1>2. u \in Threads
    BY <1>1, ListElements
<1>3. waitObj[u] = o /\ wakeupTime[u] = 0
    BY <1>2 DEF Consistent, WaitChainExact, LockQueueServed
<1>4. u \notin active /\ u \notin async /\ u \notin ToSet(sleepers)
      /\ u \notin ToSet(waitList[o]) /\ status[u] = "alive"
    BY <1>2, <1>3 DEF Consistent, Places
<1>5. depth[u][o] > 0
    BY <1>2, <1>3 DEF Consistent, HeldWhileWaiting
<1>6. QED BY <1>2, <1>3, <1>4, <1>5

\* monitorexit: an inner lock is dropped, or the object is unlocked.
LEMMA ExitMonitorStep ==
    ASSUME Consistent, NEW t \in Threads, NEW o \in Objects, ExitMonitor(t, o)
    PROVE  Consistent'
<1>1. TypeOK
    BY DEF Consistent
<1>2. /\ t \in active /\ waitObj[t] = NoObject /\ owner[o] = t /\ depth[t][o] > 0
      /\ \A p \in Objects : t \notin ToSet(lockWaiters[p])
    BY RunningThread DEF ExitMonitor, Owns
<1>3. /\ depth' = [depth EXCEPT ![t][o] = @ - 1]
      /\ UNCHANGED <<clock, current, async, frames, halted, sleepers, waitChain,
                     waitList, status, wakeupTime, pendingInterrupt>>
    BY DEF ExitMonitor, waitVars
<1>4. depth[t][o] - 1 \in 0..MaxDepth
    BY <1>1, <1>2 DEF TypeOK
<1>5. /\ depth' \in [Threads -> [Objects -> 0..MaxDepth]]
      /\ depth'[t][o] = depth[t][o] - 1
      /\ \A u \in Threads, p \in Objects : u # t \/ p # o => depth'[u][p] = depth[u][p]
    BY <1>1, <1>3, <1>4 DEF TypeOK
<1> USE DEF Consistent
<1>6. CASE depth[t][o] > 1
    <2>1. UNCHANGED <<owner, lockWaiters, active, waitObj>>
        BY <1>6 DEF ExitMonitor
    <2>2. TypeOK'
        BY <1>1, <1>3, <1>5, <2>1 DEF TypeOK
    <2>3. Places' /\ WaitChainExact' /\ LockQueueServed' /\ RunningIsActive'
        BY <1>3, <2>1 DEF Places, WaitChainExact, LockQueueServed, RunningIsActive
    <2>4. depth'[t][o] > 0
        BY <1>1, <1>5, <1>6 DEF TypeOK
    <2>5. MonitorHeld'
        <3> SUFFICES ASSUME NEW u \in Threads, NEW p \in Objects
                     PROVE  owner[p] = u <=> depth'[u][p] > 0 /\ waitObj[u] # p
            BY <2>1 DEF MonitorHeld
        <3>1. owner[p] = u <=> depth[u][p] > 0 /\ waitObj[u] # p
            BY DEF MonitorHeld
        <3>2. QED BY <1>2, <1>5, <2>4, <3>1
    <2>6. HeldWhileWaiting'
        BY <1>5, <2>1, <2>4 DEF HeldWhileWaiting
    <2>7. QED BY <2>2, <2>3, <2>5, <2>6
<1>7. CASE ~(depth[t][o] > 1)
    <2> DEFINE H == HandedTo(o)
    <2>1. /\ Unlock(o)
          /\ active' = active \union H
          /\ waitObj' = [u \in Threads |-> IF u \in H THEN NoObject ELSE waitObj[u]]
        BY <1>7 DEF ExitMonitor
    <2>2. depth'[t][o] = 0
        BY <1>1, <1>2, <1>5, <1>7 DEF TypeOK
    <2>3. /\ owner' \in [Objects -> Threads \union {NoThread}]
          /\ lockWaiters' \in [Objects -> Seq(Threads)]
          /\ \A p \in Objects \ {o} : owner'[p] = owner[p] /\ lockWaiters'[p] = lockWaiters[p]
          /\ H = {} => lockWaiters'[o] = <<>> /\ owner'[o] = NoThread
          /\ \A h \in H : h \in Threads /\ H = {h} /\ h \in ToSet(lockWaiters[o]) /\ owner'[o] = h
          /\ ToSet(lockWaiters'[o]) = ToSet(lockWaiters[o]) \ H
          /\ IsInjective(lockWaiters'[o])
        BY <2>1, UnlockFacts
    <2>4. \A h \in H : /\ waitObj[h] = o /\ status[h] = "alive" /\ depth[h][o] > 0
                       /\ h \notin active /\ h \notin async /\ h \notin ToSet(sleepers)
                       /\ h \notin ToSet(waitList[o]) /\ h # t
        BY <1>2, <2>3, QueuedThread
    <2> HIDE DEF H
    <2>5. /\ waitObj' \in [Threads -> Objects \union {NoObject}]
          /\ \A u \in Threads : waitObj'[u] = IF u \in H THEN NoObject ELSE waitObj[u]
        BY <1>1, <2>1 DEF TypeOK
    <2>6. TypeOK'
        BY <1>1, <1>3, <1>5, <2>1, <2>3, <2>5 DEF TypeOK
    <2>7. Places'
        <3>1. \A u \in Threads :
                status'[u] = "alive" <=> \/ u \in active' \union async' \union ToSet(sleepers')
                                        \/ waitObj'[u] # NoObject
            BY <1>3, <2>1, <2>3, <2>4, <2>5 DEF Places
        <3>2. /\ active' \intersect async' = {}
              /\ (active' \union async') \intersect ToSet(sleepers') = {}
            BY <1>3, <2>1, <2>3, <2>4, <2>5 DEF Places
        <3>3. \A u \in active' \union async' \union ToSet(sleepers') : waitObj'[u] = NoObject
            BY <1>3, <2>1, <2>3, <2>4, <2>5, ListsAreThreads DEF Places
        <3>4. \A p \in Objects : ToSet(waitList'[p]) \intersect ToSet(lockWaiters'[p]) = {}
            BY <1>3, <2>1, <2>3, <2>4, <2>5 DEF Places
        <3>5. /\ IsInjective(sleepers')
              /\ \A p \in Objects : IsInjective(waitList'[p]) /\ IsInjective(lockWaiters'[p])
            BY <1>3, <2>1, <2>3, <2>4, <2>5 DEF Places
        <3>6. QED BY <3>1, <3>2, <3>3, <3>4, <3>5 DEF Places
    <2>8. WaitChainExact'
        <3>1. IsInjective(waitChain') /\ ToSet(waitChain') = {p \in Objects : waitList'[p] # <<>>}
            BY <1>3 DEF WaitChainExact
        <3>2. ASSUME NEW u \in Threads, NEW p \in Objects
              PROVE  waitObj'[u] = p <=> u \in ToSet(waitList'[p]) \union ToSet(lockWaiters'[p])
            <4>1. waitObj[u] = p <=> u \in ToSet(waitList[p]) \union ToSet(lockWaiters[p])
                BY DEF WaitChainExact
            <4>2. QED BY <1>2, <1>3, <2>3, <2>4, <2>5, <4>1
        <3>3. QED BY <3>1, <3>2 DEF WaitChainExact
    <2>9. MonitorHeld'
        <3> SUFFICES ASSUME NEW u \in Threads, NEW p \in Objects
                     PROVE  owner'[p] = u <=> depth'[u][p] > 0 /\ waitObj'[u] # p
            BY DEF MonitorHeld
        <3>1. owner[p] = u <=> depth[u][p] > 0 /\ waitObj[u] # p
            BY DEF MonitorHeld
        <3>2. CASE p # o
            BY <1>2, <1>5, <2>3, <2>4, <2>5, <3>1, <3>2
        <3>3. CASE p = o /\ u = t
            BY <1>2, <2>2, <2>3, <2>4, <3>3
        <3>4. CASE p = o /\ u # t
            BY <1>2, <1>5, <2>3, <2>4, <2>5, <3>1, <3>4
        <3>5. QED BY <3>2, <3>3, <3>4
    <2>10. LockQueueServed'
        BY <1>3, <2>3 DEF LockQueueServed
    <2>11. HeldWhileWaiting'
        BY <1>2, <1>5, <2>4, <2>5 DEF HeldWhileWaiting
    <2>12. RunningIsActive'
        BY <1>3, <2>1 DEF RunningIsActive
    <2>13. QED BY <2>6, <2>7, <2>8, <2>9, <2>10, <2>11, <2>12
<1>8. QED BY <1>6, <1>7

\* Object.wait.
LEMMA WaitStep ==
    ASSUME Consistent, NEW t \in Threads, NEW o \in Objects,
           NEW ms \in Millis \union {0}, Wait(t, o, ms)
    PROVE  Consistent'
<1> DEFINE H == HandedTo(o)
<1>1. TypeOK
    BY DEF Consistent
<1>2. /\ t \in active /\ t \notin async /\ t \notin ToSet(sleepers)
      /\ status[t] = "alive" /\ waitObj[t] = NoObject
      /\ owner[o] = t /\ depth[t][o] > 0
      /\ \A p \in Objects : t \notin ToSet(lockWaiters[p]) /\ t \notin ToSet(waitList[p])
    BY RunningThread DEF Wait, Owns
<1>3. /\ Unlock(o)
      /\ active' = (active \union H) \ {t}
      /\ waitObj' = [u \in Threads |-> IF u = t THEN o
                                       ELSE IF u \in H THEN NoObject ELSE waitObj[u]]
      /\ waitList' = [waitList EXCEPT ![o] = Append(@, t)]
      /\ waitChain' = IF waitList[o] = <<>> THEN Append(waitChain, o) ELSE waitChain
      /\ wakeupTime' = [wakeupTime EXCEPT ![t] = Deadline(ms)]
      /\ frames' \in Seq(Frame) /\ frames' # <<>>
      /\ UNCHANGED <<clock, current, async, halted, depth, sleepers, status,
                     pendingInterrupt>>
    BY NewFrameType DEF Wait, Yielding
<1>4. Deadline(ms) \in 0..MaxClock
    BY <1>1 DEF Wait, Deadline, TypeOK
<1>5. /\ owner' \in [Objects -> Threads \union {NoThread}]
      /\ lockWaiters' \in [Objects -> Seq(Threads)]
      /\ \A p \in Objects \ {o} : owner'[p] = owner[p] /\ lockWaiters'[p] = lockWaiters[p]
      /\ H = {} => lockWaiters'[o] = <<>> /\ owner'[o] = NoThread
      /\ \A h \in H : h \in Threads /\ H = {h} /\ h \in ToSet(lockWaiters[o]) /\ owner'[o] = h
      /\ ToSet(lockWaiters'[o]) = ToSet(lockWaiters[o]) \ H
      /\ IsInjective(lockWaiters'[o])
    BY <1>3, UnlockFacts
<1>6. \A h \in H : /\ waitObj[h] = o /\ status[h] = "alive" /\ depth[h][o] > 0
                   /\ h \notin active /\ h \notin async /\ h \notin ToSet(sleepers)
                   /\ h \notin ToSet(waitList[o]) /\ h # t
    BY <1>2, <1>5, QueuedThread
<1> HIDE DEF H
<1>7. /\ waitObj' \in [Threads -> Objects \union {NoObject}]
      /\ waitObj'[t] = o
      /\ \A u \in Threads \ {t} : waitObj'[u] = IF u \in H THEN NoObject ELSE waitObj[u]
    BY <1>1, <1>3 DEF TypeOK
<1>8. /\ waitList' \in [Objects -> Seq(Threads)]
      /\ \A p \in Objects \ {o} : waitList'[p] = waitList[p]
      /\ ToSet(waitList'[o]) = ToSet(waitList[o]) \union {t}
      /\ IsInjective(waitList'[o])
      /\ waitList'[o] # <<>>
    <2>1. waitList[o] \in Seq(Threads) /\ IsInjective(waitList[o])
        BY <1>1 DEF TypeOK, Consistent, Places
    <2>2. waitList'[o] = Append(waitList[o], t)
        BY <1>1, <1>3 DEF TypeOK
    <2>3. /\ waitList'[o] \in Seq(Threads) /\ IsInjective(waitList'[o])
          /\ ToSet(waitList'[o]) = ToSet(waitList[o]) \union {t}
        BY <1>2, <2>1, <2>2, ListAppend
    <2>4. waitList'[o] # <<>>
        BY <2>3, ListElements
    <2>5. /\ waitList' \in [Objects -> Seq(Threads)]
          /\ \A p \in Objects \ {o} : waitList'[p] = waitList[p]
        BY <1>1, <1>3, <2>2, <2>3 DEF TypeOK
    <2>6. QED BY <2>3, <2>4, <2>5
<1>9. /\ waitChain' \in Seq(Objects) /\ IsInjective(waitChain')
      /\ ToSet(waitChain') = {p \in Objects : waitList'[p] # <<>>}
    <2>1. /\ waitChain \in Seq(Objects) /\ IsInjective(waitChain)
          /\ ToSet(waitChain) = {p \in Objects : waitList[p] # <<>>}
        BY <1>1 DEF TypeOK, Consistent, WaitChainExact
    <2>2. CASE waitList[o] = <<>>
        <3>1. /\ waitChain' \in Seq(Objects) /\ IsInjective(waitChain')
              /\ ToSet(waitChain') = ToSet(waitChain) \union {o}
            BY <1>3, <2>1, <2>2, ListAppend
        <3>2. QED BY <1>8, <2>1, <3>1
    <2>3. CASE waitList[o] # <<>>
        BY <1>3, <1>8, <2>1, <2>3
    <2>4. QED BY <2>2, <2>3
<1>10. /\ wakeupTime' \in [Threads -> 0..MaxClock]
       /\ \A u \in Threads \ {t} : wakeupTime'[u] = wakeupTime[u]
    BY <1>1, <1>3, <1>4 DEF TypeOK
<1> USE DEF Consistent
<1>11. TypeOK'
    BY <1>1, <1>3, <1>5, <1>7, <1>8, <1>9, <1>10 DEF TypeOK
<1>12. Places'
    <2>1. \A u \in Threads :
            status'[u] = "alive" <=> \/ u \in active' \union async' \union ToSet(sleepers')
                                    \/ waitObj'[u] # NoObject
        BY <1>2, <1>3, <1>5, <1>6, <1>7, <1>8 DEF Places
    <2>2. /\ active' \intersect async' = {}
          /\ (active' \union async') \intersect ToSet(sleepers') = {}
        BY <1>2, <1>3, <1>5, <1>6, <1>7, <1>8 DEF Places
    <2>3. \A u \in active' \union async' \union ToSet(sleepers') : waitObj'[u] = NoObject
        BY <1>2, <1>3, <1>5, <1>6, <1>7, <1>8, ListsAreThreads DEF Places
    <2>4. \A p \in Objects : ToSet(waitList'[p]) \intersect ToSet(lockWaiters'[p]) = {}
        <3>1. ASSUME NEW p \in Objects \ {o}
              PROVE  waitList'[p] = waitList[p] /\ lockWaiters'[p] = lockWaiters[p]
            BY <1>5, <1>8
        <3>2. \A p \in Objects : ToSet(waitList[p]) \intersect ToSet(lockWaiters[p]) = {}
            BY DEF Places
        <3>3. ToSet(waitList'[o]) \intersect ToSet(lockWaiters'[o]) = {}
            <4>1. ToSet(waitList'[o]) = ToSet(waitList[o]) \union {t}
                BY <1>8
            <4>2. ToSet(lockWaiters'[o]) \subseteq ToSet(lockWaiters[o])
                BY <1>5
            <4>3. t \notin ToSet(lockWaiters[o])
                BY <1>2
            <4>4. QED BY <3>2, <4>1, <4>2, <4>3
        <3>4. QED BY <3>1, <3>2, <3>3
    <2>5. /\ IsInjective(sleepers')
          /\ \A p \in Objects : IsInjective(waitList'[p]) /\ IsInjective(lockWaiters'[p])
        BY <1>2, <1>3, <1>5, <1>6, <1>7, <1>8 DEF Places
    <2>6. QED BY <2>1, <2>2, <2>3, <2>4, <2>5 DEF Places
<1>13. WaitChainExact'
    <2>1. IsInjective(waitChain') /\ ToSet(waitChain') = {p \in Objects : waitList'[p] # <<>>}
        BY <1>9 DEF WaitChainExact
    <2>2. ASSUME NEW u \in Threads, NEW p \in Objects
          PROVE  waitObj'[u] = p <=> u \in ToSet(waitList'[p]) \union ToSet(lockWaiters'[p])
        <3>1. waitObj[u] = p <=> u \in ToSet(waitList[p]) \union ToSet(lockWaiters[p])
            BY DEF WaitChainExact
        <3>2. QED BY <1>2, <1>3, <1>5, <1>6, <1>7, <1>8, <3>1
    <2>3. QED BY <2>1, <2>2 DEF WaitChainExact
<1>14. MonitorHeld'
    <2> SUFFICES ASSUME NEW u \in Threads, NEW p \in Objects
                 PROVE  owner'[p] = u <=> depth[u][p] > 0 /\ waitObj'[u] # p
        BY <1>3 DEF MonitorHeld
    <2>1. owner[p] = u <=> depth[u][p] > 0 /\ waitObj[u] # p
        BY DEF MonitorHeld
    <2>2. CASE p # o
        BY <1>2, <1>5, <1>6, <1>7, <2>1, <2>2
    <2>3. CASE p = o /\ u = t
        BY <1>5, <1>6, <1>7, <2>3
    <2>4. CASE p = o /\ u # t
        BY <1>2, <1>5, <1>6, <1>7, <2>1, <2>4
    <2>5. QED BY <2>2, <2>3, <2>4
<1>15. LockQueueServed'
    <2>1. ASSUME NEW p \in Objects, lockWaiters'[p] # <<>> PROVE owner'[p] # NoThread
        BY <1>5, <2>1 DEF LockQueueServed
    <2>2. ASSUME NEW p \in Objects, NEW u \in ToSet(lockWaiters'[p])
          PROVE  wakeupTime'[u] = 0
        <3>1. u \in ToSet(lockWaiters[p])
            BY <1>5, <2>2
        <3>2. u \in Threads \ {t} /\ wakeupTime[u] = 0
            BY <1>2, <3>1, QueuedThread
        <3>3. QED BY <1>10, <3>2
    <2>3. QED BY <2>1, <2>2 DEF LockQueueServed
<1>16. HeldWhileWaiting'
    BY <1>2, <1>3, <1>7 DEF HeldWhileWaiting
<1>17. RunningIsActive'
    BY <1>3 DEF RunningIsActive
<1>18. QED BY <1>11, <1>12, <1>13, <1>14, <1>15, <1>16, <1>17

\* The end of Object.wait for the threads ws, by whatever cause: they own o or are
\* queued on its lock, rest is still waiting.  D are threads that end in the same step.
LEMMA ReenterStep ==
    ASSUME Consistent, NEW o \in Objects,
           NEW ws \in Seq(Threads), ws # <<>>, IsInjective(ws),
           NEW rest \in Seq(Threads), IsInjective(rest),
           ToSet(ws) \intersect ToSet(rest) = {},
           ToSet(waitList[o]) = ToSet(ws) \union ToSet(rest),
           Reenter(o, ws), LeaveWaitList(o, rest),
           NEW D \in SUBSET active,
           active' = (active \union Granted(o, ws)) \ D,
           status' \in [Threads -> {"unstarted", "alive", "dead"}],
           \A u \in Threads : status'[u] = "alive" <=> status[u] = "alive" /\ u \notin D,
           frames' \in Seq(Frame),
           halted = "no" /\ frames' = <<>> => current \in active',
           UNCHANGED <<clock, current, async, halted, depth, pendingInterrupt>>
    PROVE  Consistent'
<1> DEFINE G == Granted(o, ws)
           Q == ToSet(Queued(o, ws))
<1>1. TypeOK
    BY DEF Consistent
<1>2. /\ ToSet(ws) = G \union Q /\ G \intersect Q = {}
      /\ owner' \in [Objects -> Threads \union {NoThread}]
      /\ lockWaiters' \in [Objects -> Seq(Threads)]
      /\ \A p \in Objects \ {o} : owner'[p] = owner[p] /\ lockWaiters'[p] = lockWaiters[p]
      /\ owner[o] # NoThread => G = {} /\ owner'[o] = owner[o]
      /\ owner[o] = NoThread => G = {owner'[o]}
      /\ owner'[o] \in Threads
      /\ ToSet(lockWaiters'[o]) = ToSet(lockWaiters[o]) \union Q
      /\ IsInjective(lockWaiters'[o])
    <2>1. ToSet(ws) \subseteq ToSet(waitList[o])
        OBVIOUS
    <2>2. QED BY <2>1, ReenterFacts
<1>3. waitList[o] # <<>>
    BY ListElements, EmptyList
<1>4. /\ waitList' \in [Objects -> Seq(Threads)]
      /\ waitList'[o] = rest
      /\ \A p \in Objects \ {o} : waitList'[p] = waitList[p]
      /\ waitChain' \in Seq(Objects)
      /\ IsInjective(waitChain')
      /\ ToSet(waitChain') = {p \in Objects : waitList'[p] # <<>>}
    BY <1>3, LeaveFacts
<1>5. /\ sleepers' = sleepers
      /\ waitObj' = [u \in Threads |-> IF u \in G THEN NoObject ELSE waitObj[u]]
      /\ wakeupTime' = [u \in Threads |-> IF u \in Q THEN 0 ELSE wakeupTime[u]]
    BY DEF LeaveWaitList, Reenter, WithoutTimeout
<1>6. ToSet(ws) \subseteq Threads
    BY ListElements
<1>7. \A u \in ToSet(ws) : /\ waitObj[u] = o /\ status[u] = "alive" /\ depth[u][o] > 0
                           /\ u \notin active /\ u \notin async /\ u \notin ToSet(sleepers)
                           /\ u \notin ToSet(lockWaiters[o])
    <2> SUFFICES ASSUME NEW u \in ToSet(ws)
                 PROVE  /\ waitObj[u] = o /\ status[u] = "alive" /\ depth[u][o] > 0
                        /\ u \notin active /\ u \notin async /\ u \notin ToSet(sleepers)
                        /\ u \notin ToSet(lockWaiters[o])
        OBVIOUS
    <2>1. u \in Threads /\ u \in ToSet(waitList[o])
        BY <1>6
    <2>2. waitObj[u] = o
        BY <2>1 DEF Consistent, WaitChainExact
    <2>3. /\ status[u] = "alive" /\ u \notin ToSet(lockWaiters[o])
          /\ u \notin active /\ u \notin async /\ u \notin ToSet(sleepers)
        BY <2>1, <2>2 DEF Consistent, Places
    <2>4. depth[u][o] > 0
        BY <2>1, <2>2 DEF Consistent, HeldWhileWaiting
    <2>5. QED BY <2>2, <2>3, <2>4
<1>8. G \intersect D = {} /\ active' = (active \ D) \union G
    BY <1>2, <1>7
<1> HIDE DEF G, Q
<1>9. /\ waitObj' \in [Threads -> Objects \union {NoObject}]
      /\ \A u \in Threads : waitObj'[u] = IF u \in G THEN NoObject ELSE waitObj[u]
    BY <1>1, <1>5 DEF TypeOK
<1>10. /\ wakeupTime' \in [Threads -> 0..MaxClock]
       /\ \A u \in Threads : wakeupTime'[u] = IF u \in Q THEN 0 ELSE wakeupTime[u]
    <2>1. 0 \in 0..MaxClock
        OBVIOUS
    <2>2. QED BY <1>1, <1>5, <2>1 DEF TypeOK
<1> USE DEF Consistent
<1>11. TypeOK'
    BY <1>1, <1>2, <1>4, <1>5, <1>6, <1>8, <1>9, <1>10 DEF TypeOK
<1>12. Places'
    <2>1. \A u \in Threads :
            status'[u] = "alive" <=> \/ u \in active' \union async' \union ToSet(sleepers')
                                    \/ waitObj'[u] # NoObject
        BY <1>2, <1>5, <1>7, <1>8, <1>9 DEF Places
    <2>2. /\ active' \intersect async' = {}
          /\ (active' \union async') \intersect ToSet(sleepers') = {}
        BY <1>2, <1>5, <1>7, <1>8 DEF Places
    <2>3. \A u \in active' \union async' \union ToSet(sleepers') : waitObj'[u] = NoObject
        BY <1>2, <1>5, <1>6, <1>8, <1>9, ListsAreThreads DEF Places
    <2>4. \A p \in Objects : ToSet(waitList'[p]) \intersect ToSet(lockWaiters'[p]) = {}
        <3>1. \A p \in Objects \ {o} :
                waitList'[p] = waitList[p] /\ lockWaiters'[p] = lockWaiters[p]
            BY <1>2, <1>4
        <3>2. \A p \in Objects : ToSet(waitList[p]) \intersect ToSet(lockWaiters[p]) = {}
            BY DEF Places
        <3>3. ToSet(waitList'[o]) \intersect ToSet(lockWaiters'[o]) = {}
            BY <1>2, <1>4, <3>2
        <3>4. QED BY <3>1, <3>2, <3>3
    <2>5. /\ IsInjective(sleepers')
          /\ \A p \in Objects : IsInjective(waitList'[p]) /\ IsInjective(lockWaiters'[p])
        BY <1>2, <1>4, <1>5 DEF Places
    <2>6. QED BY <2>1, <2>2, <2>3, <2>4, <2>5 DEF Places
<1>13. WaitChainExact'
    <2>1. ASSUME NEW u \in Threads, NEW p \in Objects
          PROVE  waitObj'[u] = p <=> u \in ToSet(waitList'[p]) \union ToSet(lockWaiters'[p])
        <3>1. waitObj[u] = p <=> u \in ToSet(waitList[p]) \union ToSet(lockWaiters[p])
            BY DEF WaitChainExact
        <3>2. CASE p # o
            BY <1>2, <1>4, <1>7, <1>9, <3>1, <3>2
        <3>3. CASE p = o
            <4>1. u \in G => waitObj'[u] # p /\ u \notin ToSet(rest)
                             /\ u \notin ToSet(lockWaiters[o]) /\ u \notin Q
                BY <1>2, <1>7, <1>9
            <4>2. u \notin G => waitObj'[u] = waitObj[u]
                BY <1>9
            <4>3. QED BY <1>2, <1>4, <3>1, <3>3, <4>1, <4>2
        <3>4. QED BY <3>2, <3>3
    <2>2. QED BY <1>4, <2>1 DEF WaitChainExact
<1>14. MonitorHeld'
    <2> SUFFICES ASSUME NEW u \in Threads, NEW p \in Objects
                 PROVE  owner'[p] = u <=> depth[u][p] > 0 /\ waitObj'[u] # p
        BY DEF MonitorHeld
    <2>1. owner[p] = u <=> depth[u][p] > 0 /\ waitObj[u] # p
        BY DEF MonitorHeld
    <2>2. CASE p # o
        BY <1>2, <1>7, <1>9, <2>1, <2>2
    <2>3. CASE p = o /\ owner[o] # NoThread
        BY <1>2, <1>9, <2>1, <2>3
    <2>4. CASE p = o /\ owner[o] = NoThread
        <3>1. u \in G <=> owner'[o] = u
            BY <1>2, <2>4
        <3>2. CASE u \in G
            BY <1>2, <1>7, <1>9, <2>4, <3>1, <3>2
        <3>3. CASE u \notin G
            BY <1>9, <2>1, <2>4, <3>1, <3>3
        <3>4. QED BY <3>2, <3>3
    <2>5. QED BY <2>2, <2>3, <2>4
<1>15. LockQueueServed'
    <2>1. ASSUME NEW p \in Objects, lockWaiters'[p] # <<>> PROVE owner'[p] # NoThread
        BY <1>2, <2>1 DEF LockQueueServed
    <2>2. ASSUME NEW p \in Objects, NEW u \in ToSet(lockWaiters'[p])
          PROVE  wakeupTime'[u] = 0
        <3>1. u \in Q \/ u \in ToSet(lockWaiters[p])
            BY <1>2, <2>2
        <3>2. CASE u \in Q
            BY <1>2, <1>6, <1>10, <3>2
        <3>3. CASE u \in ToSet(lockWaiters[p])
            BY <1>10, <3>3, QueuedThread
        <3>4. QED BY <3>1, <3>2, <3>3
    <2>3. QED BY <2>1, <2>2 DEF LockQueueServed
<1>16. HeldWhileWaiting'
    BY <1>9 DEF HeldWhileWaiting
<1>17. RunningIsActive'
    BY DEF RunningIsActive
<1>18. QED BY <1>11, <1>12, <1>13, <1>14, <1>15, <1>16, <1>17

LEMMA SingleThread ==
    ASSUME NEW u \in Threads
    PROVE  /\ <<u>> \in Seq(Threads) /\ <<u>> # <<>> /\ IsInjective(<<u>>)
           /\ ToSet(<<u>>) = {u}
<1> DEFINE s == <<u>>
<1>1. s \in Seq(Threads) /\ s # <<>> /\ Len(s) = 1 /\ s[1] = u
    OBVIOUS
<1> HIDE DEF s
<1>2. IsInjective(s)
    <2>1. \A i, j \in 1..Len(s) : s[i] = s[j] => i = j
        BY <1>1
    <2>2. QED BY <1>1, <2>1, ListInjective
<1>3. ToSet(s) = {u}
    <2>1. \A x : x \in ToSet(s) <=> \E i \in 1..Len(s) : s[i] = x
        BY <1>1, ListElements
    <2>2. QED BY <1>1, <2>1
<1>4. QED BY <1>1, <1>2, <1>3 DEF s

\* One thread leaves Object.wait.
LEMMA LeaveOne ==
    ASSUME Consistent, NEW u \in Threads, InWait(u)
    PROVE  LET o == waitObj[u]
               rest == Without(waitList[o], u)
           IN  /\ o \in Objects
               /\ rest \in Seq(Threads) /\ IsInjective(rest)
               /\ ToSet(<<u>>) \intersect ToSet(rest) = {}
               /\ ToSet(waitList[o]) = ToSet(<<u>>) \union ToSet(rest)
<1> DEFINE o == waitObj[u]
<1>1. o \in Objects /\ u \in ToSet(waitList[o])
    BY DEF InWait, Consistent, TypeOK
<1>2. waitList[o] \in Seq(Threads) /\ IsInjective(waitList[o])
    BY <1>1 DEF Consistent, TypeOK, Places
<1>3. /\ Without(waitList[o], u) \in Seq(Threads)
      /\ ToSet(Without(waitList[o], u)) = ToSet(waitList[o]) \ {u}
      /\ IsInjective(Without(waitList[o], u))
    BY <1>1, <1>2, WithoutList
<1>4. QED BY <1>1, <1>3, SingleThread

\* Object.notify and notifyAll.
LEMMA NotifyStep ==
    ASSUME Consistent, NEW t \in Threads, NEW o \in Objects, NEW all \in BOOLEAN,
           Notify(t, o, all)
    PROVE  Consistent'
<1> DEFINE w == waitList[o]
           ws == IF all THEN w ELSE <<Head(w)>>
           rest == IF all THEN <<>> ELSE Tail(w)
<1>1. w \in Seq(Threads) /\ IsInjective(w) /\ w # <<>>
    BY DEF Notify, Consistent, TypeOK, Places
<1>2. /\ Head(w) \in Threads /\ Tail(w) \in Seq(Threads) /\ IsInjective(Tail(w))
      /\ ToSet(w) = {Head(w)} \union ToSet(Tail(w)) /\ Head(w) \notin ToSet(Tail(w))
    BY <1>1, ListTail
<1>3. <<>> \in Seq(Threads)
    OBVIOUS
<1>4. Reenter(o, ws) /\ LeaveWaitList(o, rest)
    BY DEF Notify
<1> HIDE DEF w
<1>5. /\ ws \in Seq(Threads) /\ ws # <<>> /\ IsInjective(ws)
      /\ rest \in Seq(Threads) /\ IsInjective(rest)
      /\ ToSet(ws) \intersect ToSet(rest) = {}
      /\ ToSet(w) = ToSet(ws) \union ToSet(rest)
    <2>1. CASE all
        BY <1>1, <1>3, <2>1, EmptyList
    <2>2. CASE ~all
        BY <1>1, <1>2, <2>2, SingleThread
    <2>3. QED BY <2>1, <2>2
<1> HIDE DEF ws, rest
<1>6. Granted(o, ws) = {}
    BY DEF Notify, Owns, Running, Granted
<1>7. /\ active' = (active \union Granted(o, ws)) \ {}
      /\ \A u \in Threads : status'[u] = "alive" <=> status[u] = "alive" /\ u \notin {}
      /\ UNCHANGED <<clock, current, async, frames, halted, depth, status,
                     pendingInterrupt>>
    BY <1>6 DEF Notify
<1>8. /\ frames' \in Seq(Frame)
      /\ status' \in [Threads -> {"unstarted", "alive", "dead"}]
      /\ (halted = "no" /\ frames' = <<>> => current \in active')
    BY <1>7 DEF Consistent, TypeOK, RunningIsActive
<1>9. {} \in SUBSET active
    OBVIOUS
<1>10. QED BY <1>4, <1>5, <1>7, <1>8, <1>9, ReenterStep DEF w

\* Thread.interrupt of a thread in Object.wait.
LEMMA InterruptWaitStep ==
    ASSUME Consistent, NEW t \in Threads, NEW u \in Threads, InterruptWait(t, u)
    PROVE  Consistent'
<1> DEFINE o == waitObj[u]
           rest == Without(waitList[o], u)
<1>1. /\ InWait(u) /\ Reenter(o, <<u>>) /\ LeaveWaitList(o, rest)
      /\ active' = (active \union Granted(o, <<u>>)) \ {}
      /\ UNCHANGED <<clock, current, async, frames, halted, depth, status,
                     pendingInterrupt>>
    BY DEF InterruptWait
<1>2. /\ o \in Objects /\ rest \in Seq(Threads) /\ IsInjective(rest)
      /\ ToSet(<<u>>) \intersect ToSet(rest) = {}
      /\ ToSet(waitList[o]) = ToSet(<<u>>) \union ToSet(rest)
    BY <1>1, LeaveOne
<1>3. /\ frames' \in Seq(Frame)
      /\ status' \in [Threads -> {"unstarted", "alive", "dead"}]
      /\ (halted = "no" /\ frames' = <<>> => current \in active')
    BY <1>1 DEF Consistent, TypeOK, RunningIsActive
<1>4. \A v \in Threads : status'[v] = "alive" <=> status[v] = "alive" /\ v \notin {}
    BY <1>1
<1>5. {} \in SUBSET active
    OBVIOUS
<1> HIDE DEF o, rest
<1>6. QED BY <1>1, <1>2, <1>3, <1>4, <1>5, SingleThread, ReenterStep

\* The walk finds a thread whose Object.wait has timed out.
LEMMA WakeWaiterStep ==
    ASSUME Consistent, NEW u \in Threads, WakeWaiter(u)
    PROVE  Consistent'
<1> DEFINE o == waitObj[u]
           rest == Without(waitList[o], u)
           walk == <<[Top EXCEPT !.th = NextOf(u)]>> \o Tail(frames)
<1>1. /\ InWait(u) /\ Reenter(o, <<u>>) /\ LeaveWaitList(o, rest)
      /\ active' = (active \union Granted(o, <<u>>)) \ {}
      /\ frames' = IF YieldsAgain(u, o) THEN <<NewFrame>> \o walk ELSE walk
      /\ UNCHANGED <<clock, current, async, halted, depth, status,
                     pendingInterrupt>>
    BY DEF WakeWaiter
<1>2. /\ o \in Objects /\ rest \in Seq(Threads) /\ IsInjective(rest)
      /\ ToSet(<<u>>) \intersect ToSet(rest) = {}
      /\ ToSet(waitList[o]) = ToSet(<<u>>) \union ToSet(rest)
    BY <1>1, LeaveOne
<1>3. frames' \in Seq(Frame) /\ frames' # <<>>
    <2>1. frames # <<>> /\ frames \in Seq(Frame)
        BY DEF WakeWaiter, Visiting, Scanning, InYield, Consistent, TypeOK
    <2>2. Top \in Frame
        BY <2>1, NewFrameType, SetTopType
    <2>3. [Top EXCEPT !.th = NextOf(u)] \in Frame
        BY <2>2, NextOfType DEF Frame
    <2>4. walk \in Seq(Frame) /\ walk # <<>>
        BY <2>1, <2>3, SetTopType
    <2> HIDE DEF walk
    <2>5. <<NewFrame>> \o walk \in Seq(Frame) /\ <<NewFrame>> \o walk # <<>>
        BY <2>4, NewFrameType, ConcatProperties
    <2>6. QED BY <1>1, <2>4, <2>5
<1>4. status' \in [Threads -> {"unstarted", "alive", "dead"}]
      /\ \A v \in Threads : status'[v] = "alive" <=> status[v] = "alive" /\ v \notin {}
    BY <1>1 DEF Consistent, TypeOK
<1>5. {} \in SUBSET active
    OBVIOUS
<1> HIDE DEF o, rest, walk
<1>6. QED BY <1>1, <1>2, <1>3, <1>4, <1>5, SingleThread, ReenterStep

\* A thread ends: the threads that wait on its Thread object leave Object.wait.
LEMMA FinishStep ==
    ASSUME Consistent, NEW t \in Threads, Finish(t), ThreadObjAssumption
    PROVE  Consistent'
<1> DEFINE o == ThreadObj[t]
<1>1. /\ t \in active /\ t \notin async /\ t \notin ToSet(sleepers)
      /\ waitObj[t] = NoObject
    BY RunningThread DEF Finish
<1>2. /\ status' = [status EXCEPT ![t] = "dead"]
      /\ frames' \in Seq(Frame) /\ frames' # <<>>
      /\ UNCHANGED <<clock, current, async, halted, depth, pendingInterrupt>>
    BY NewFrameType DEF Finish, Yielding
<1>3. /\ status' \in [Threads -> {"unstarted", "alive", "dead"}]
      /\ \A u \in Threads : status'[u] = "alive" <=> status[u] = "alive" /\ u \notin {t}
    BY <1>2 DEF Consistent, TypeOK
<1>4. CASE o # NoObject /\ waitList[o] # <<>>
    <2> DEFINE w == waitList[o]
    <2>1. /\ o \in Objects
          /\ Reenter(o, w) /\ LeaveWaitList(o, <<>>)
          /\ active' = (active \union Granted(o, w)) \ {t}
        BY <1>4, ThreadObjAssumption DEF Finish
    <2>2. w \in Seq(Threads) /\ IsInjective(w) /\ w # <<>>
        BY <1>4, <2>1 DEF Consistent, TypeOK, Places
    <2>3. /\ <<>> \in Seq(Threads) /\ IsInjective(<<>>)
          /\ ToSet(w) \intersect ToSet(<<>>) = {}
          /\ ToSet(w) = ToSet(w) \union ToSet(<<>>)
        BY EmptyList
    <2>4. {t} \in SUBSET active
        BY <1>1
    <2> HIDE DEF o
    <2>5. QED BY <1>2, <1>3, <2>1, <2>2, <2>3, <2>4, ReenterStep
<1>5. CASE ~(o # NoObject /\ waitList[o] # <<>>)
    <2>1. /\ active' = active \ {t}
          /\ UNCHANGED <<owner, lockWaiters, waitObj, wakeupTime, waitVars>>
        BY <1>5 DEF Finish
    <2>2. /\ active' \subseteq Threads /\ async' \subseteq Threads
          /\ sleepers' \in Seq(Threads) /\ IsInjective(sleepers')
          /\ wakeupTime' \in [Threads -> 0..MaxClock]
        BY <1>2, <2>1 DEF Consistent, TypeOK, Places, waitVars
    <2>3. /\ active' \intersect async' = {}
          /\ (active' \union async') \intersect ToSet(sleepers') = {}
          /\ \A v \in active' \union async' \union ToSet(sleepers') : waitObj[v] = NoObject
        BY <1>2, <2>1 DEF waitVars, Consistent, Places
    <2>4. \A v \in Threads :
            status'[v] = "alive" <=> \/ v \in active' \union async' \union ToSet(sleepers')
                                    \/ waitObj[v] # NoObject
        BY <1>1, <1>2, <1>3, <2>1 DEF waitVars, Consistent, Places
    <2>5. QED BY <1>2, <1>3, <2>1, <2>2, <2>3, <2>4, ObjectsUntouched DEF waitVars, lockVars
<1>6. QED BY <1>4, <1>5

-----------------------------------------------------------------------------
(* The invariants.                                                          *)

\* No step of the program, of yield, of time or of an event breaks the inductive invariant.
LEMMA NextConsistent ==
    ASSUME Consistent, Next
    PROVE  Consistent'
<1>1. ASSUME NEW t \in Threads, JavaStep(t) PROVE Consistent'
    <2>1. ASSUME NEW o \in Objects,
                 EnterMonitor(t, o) \/ BlockOnMonitor(t, o) \/ ExitMonitor(t, o)
          PROVE  Consistent'
        BY <2>1, EnterMonitorStep, BlockOnMonitorStep, ExitMonitorStep
    <2>2. ASSUME NEW o \in Objects, NEW ms \in Millis \union {0}, Wait(t, o, ms)
          PROVE  Consistent'
        BY <2>2, WaitStep
    <2>3. ASSUME NEW o \in Objects, NEW all \in BOOLEAN, Notify(t, o, all)
          PROVE  Consistent'
        BY <2>3, NotifyStep
    <2>4. ASSUME NEW ms \in Millis \union {0}, Sleep(t, ms) PROVE Consistent'
        BY <2>4, SleepStep
    <2>5. CASE HandlePendingInterrupt(t) \/ Yield(t)
        BY <2>5, PlainSteps
    <2>6. ASSUME NEW u \in Threads, InterruptSleep(t, u) PROVE Consistent'
        BY <2>6, EndSleepSteps
    <2>7. ASSUME NEW u \in Threads, InterruptWait(t, u) PROVE Consistent'
        BY <2>7, InterruptWaitStep
    <2>8. ASSUME NEW u \in Threads, InterruptPending(t, u) PROVE Consistent'
        BY <2>8, PlainSteps
    <2>9. ASSUME NEW u \in Threads, Start(t, u) PROVE Consistent'
        BY <2>9, StartStep
    <2>10. CASE Finish(t)
        BY <2>10, FinishStep, ThreadObjAssumption
    <2>11. CASE BlockAsync(t)
        BY <2>11, BlockAsyncStep
    <2>12. QED BY <1>1, <2>1, <2>2, <2>3, <2>4, <2>5, <2>6, <2>7, <2>8, <2>9, <2>10, <2>11
              DEF JavaStep
<1>2. CASE YieldStep
    <2>1. CASE BeginScan \/ NextList \/ ReturnToScan \/ SleepOver \/ NoMoreThreads
        BY <2>1, WalkSteps
    <2>2. ASSUME NEW t \in Threads,
                 \/ StepOver(t) \/ WaitingThreadNotInList(t) \/ WalkStrays(t)
                 \/ Switch(t)
          PROVE  Consistent'
        BY <2>2, WalkSteps
    <2>3. ASSUME NEW t \in Threads, WakeSleeper(t) PROVE Consistent'
        BY <2>3, EndSleepSteps
    <2>4. ASSUME NEW t \in Threads, WakeWaiter(t) PROVE Consistent'
        BY <2>4, WakeWaiterStep
    <2>5. ASSUME NEW t \in Threads, Poll(t) \/ EventArrives(t) PROVE Consistent'
        BY <2>5, UnblockSteps
    <2>6. QED BY <1>2, <2>1, <2>2, <2>3, <2>4, <2>5 DEF YieldStep
<1>3. CASE Tick \/ Stopped
    BY <1>3, PlainSteps
<1>4. QED BY <1>1, <1>2, <1>3 DEF Next

\* The inductive invariant holds in every reachable state: the scheduler's lists, the
\* wait objects, the owners and the lock depths of the stack frames never disagree.
THEOREM AlwaysConsistent == Spec => []Consistent
<1>1. Init => Consistent
    BY InitConsistent
<1>2. Consistent /\ [Next]_vars => Consistent'
    <2> SUFFICES ASSUME Consistent, [Next]_vars PROVE Consistent'
        OBVIOUS
    <2>1. CASE Next
        BY <2>1, NextConsistent
    <2>2. CASE UNCHANGED vars
        BY <2>2, ListsUntouched
        DEF vars, listVars, lockVars, waitVars, threadVars, Consistent, TypeOK,
            RunningIsActive
    <2>3. QED BY <2>1, <2>2
<1>3. QED BY <1>1, <1>2, PTL DEF Spec

\* Type correctness: every list of the scheduler stays a list of threads, and the walk
\* over the waiting threads never reads anything else.
THEOREM AlwaysTypeOK == Spec => []TypeOK
<1>1. Consistent => TypeOK
    BY DEF Consistent
<1>2. QED BY <1>1, AlwaysConsistent, PTL

\* Wait, notify, timeout, interrupt and hand-over keep ownership and lock depths together:
\* a thread inside a synchronized region owns the object, unless it waits for it.
THEOREM AlwaysMonitorHeld == Spec => []MonitorHeld
<1>1. Consistent => MonitorHeld
    BY DEF Consistent
<1>2. QED BY <1>1, AlwaysConsistent, PTL

\* No thread is left on the queue of a lock that nobody owns.
THEOREM AlwaysLockQueueServed == Spec => []LockQueueServed
<1>1. Consistent => LockQueueServed
    BY DEF Consistent
<1>2. QED BY <1>1, AlwaysConsistent, PTL

\* The chain of the wait lists is exact.
THEOREM AlwaysWaitChainExact == Spec => []WaitChainExact
<1>1. Consistent => WaitChainExact
    BY DEF Consistent
<1>2. QED BY <1>1, AlwaysConsistent, PTL

\* Every live thread is on exactly one list of the scheduler, once, every other one on none.
THEOREM AlwaysOnePlace == Spec => []OnePlace
<1>1. Consistent => OnePlace
    <2> SUFFICES ASSUME Consistent PROVE OnePlace
        OBVIOUS
    <2>1. \A t \in Threads : waitObj[t] # NoObject <=> InWaitLists(t) \/ InLockQueue(t)
        BY DEF Consistent, TypeOK, WaitChainExact, InWaitLists, InLockQueue
    <2>2. \A t \in Threads :
            status[t] = "alive" <=> \/ t \in active \union async \union ToSet(sleepers)
                                   \/ InWaitLists(t)
                                   \/ InLockQueue(t)
        BY <2>1 DEF Consistent, Places
    <2>3. \A t \in active \union async \union ToSet(sleepers) :
            ~InWaitLists(t) /\ ~InLockQueue(t)
        BY <2>1, ListsAreThreads DEF Consistent, Places
    <2>4. ASSUME NEW o \in Objects, NEW p \in Objects
          PROVE  /\ ToSet(waitList[o]) \intersect ToSet(lockWaiters[p]) = {}
                 /\ o # p => /\ ToSet(waitList[o]) \intersect ToSet(waitList[p]) = {}
                             /\ ToSet(lockWaiters[o]) \intersect ToSet(lockWaiters[p]) = {}
        <3>1. /\ \A t \in ToSet(waitList[o]) \union ToSet(lockWaiters[o]) : waitObj[t] = o
              /\ \A t \in ToSet(waitList[p]) \union ToSet(lockWaiters[p]) : waitObj[t] = p
            BY ListsAreThreads DEF Consistent, WaitChainExact
        <3>2. ToSet(waitList[o]) \intersect ToSet(lockWaiters[o]) = {}
            BY DEF Consistent, Places
        <3>3. QED BY <3>1, <3>2
    <2>5. QED BY <2>2, <2>3, <2>4 DEF OnePlace, Consistent, Places
<1>2. QED BY <1>1, AlwaysConsistent, PTL

-----------------------------------------------------------------------------
(* Lists seen as sets.                                                      *)

LEMMA SetsOf ==
    ASSUME NEW o \in Objects
    PROVE  /\ entrySet[o] = ToSet(lockWaiters[o])
           /\ waitSet[o] = ToSet(waitList[o])
BY DEF entrySet, waitSet

\* A step that changes the queue of one object only.
LEMMA EntrySetAt ==
    ASSUME NEW o \in Objects,
           \A p \in Objects \ {o} : lockWaiters'[p] = lockWaiters[p]
    PROVE  entrySet' = [entrySet EXCEPT ![o] = ToSet(lockWaiters'[o])]
BY DEF entrySet

\* A step that changes the wait list of one object only.
LEMMA WaitSetAt ==
    ASSUME NEW o \in Objects,
           \A p \in Objects \ {o} : waitList'[p] = waitList[p]
    PROVE  waitSet' = [waitSet EXCEPT ![o] = ToSet(waitList'[o])]
BY DEF waitSet

\* The running thread is free.
LEMMA RunningIsFree ==
    ASSUME Consistent, NEW t \in Threads, Running(t)
    PROVE  Monitors!Free(t)
BY RunningThread, SetsOf DEF Monitors!Free

-----------------------------------------------------------------------------
(* The pieces the operations share.                                         *)

\* Synchronizer::exit and Object.wait give an object up by hand-over.
LEMMA UnlockHandsOver ==
    ASSUME Consistent, NEW o \in Objects, Unlock(o)
    PROVE  Monitors!HandOver(o)
<1>1. /\ owner \in [Objects -> Threads \union {NoThread}]
      /\ lockWaiters[o] \in Seq(Threads)
    BY DEF Consistent, TypeOK
<1>2. /\ \A p \in Objects \ {o} : owner'[p] = owner[p] /\ lockWaiters'[p] = lockWaiters[p]
      /\ HandedTo(o) = {} => lockWaiters'[o] = <<>> /\ owner'[o] = NoThread
      /\ \A h \in HandedTo(o) : h \in ToSet(lockWaiters[o]) /\ owner'[o] = h
                                /\ HandedTo(o) = {h}
      /\ ToSet(lockWaiters'[o]) = ToSet(lockWaiters[o]) \ HandedTo(o)
    BY UnlockFacts
<1>3. entrySet' = [entrySet EXCEPT ![o] = entrySet[o] \ HandedTo(o)]
    BY <1>2, EntrySetAt, SetsOf
<1>4. owner' = [owner EXCEPT ![o] = owner'[o]]
    BY <1>1 DEF Unlock
<1>5. CASE HandedTo(o) = {}
    <2>1. entrySet[o] = {}
        BY <1>5, SetsOf, EmptyList DEF HandedTo
    <2>2. entrySet' = entrySet
        BY <1>3, <1>5 DEF entrySet
    <2>3. owner' = [owner EXCEPT ![o] = NoThread]
        BY <1>2, <1>4, <1>5
    <2>4. QED BY <2>1, <2>2, <2>3 DEF Monitors!HandOver
<1>6. ASSUME NEW h \in HandedTo(o) PROVE Monitors!HandOver(o)
    <2>1. h \in entrySet[o]
        BY <1>2, SetsOf
    <2>2. owner' = [owner EXCEPT ![o] = h]
        BY <1>2, <1>4
    <2>3. entrySet' = [entrySet EXCEPT ![o] = @ \ {h}]
        BY <1>2, <1>3
    <2>4. QED BY <2>1, <2>2, <2>3 DEF Monitors!HandOver
<1>7. QED BY <1>5, <1>6

\* Threads that leave Object.wait own the object again or contend for it.
LEMMA ReenterStopsWaiting ==
    ASSUME Consistent, NEW o \in Objects,
           NEW ws \in Seq(Threads), ws # <<>>, IsInjective(ws),
           NEW rest \in Seq(Threads),
           ToSet(ws) \intersect ToSet(rest) = {},
           ToSet(waitList[o]) = ToSet(ws) \union ToSet(rest),
           Reenter(o, ws), LeaveWaitList(o, rest), depth' = depth
    PROVE  Monitors!Next
<1> DEFINE G == Granted(o, ws)
           Q == ToSet(Queued(o, ws))
           W == ToSet(ws)
<1>1. W # {} /\ W \subseteq waitSet[o]
    BY ListElements, SetsOf
<1>2. waitList[o] # <<>>
    BY <1>1, SetsOf, EmptyList
<1>3. /\ \A p \in Objects \ {o} : waitList'[p] = waitList[p]
      /\ waitList'[o] = rest
    BY <1>2, LeaveFacts
<1>4. waitSet' = [waitSet EXCEPT ![o] = @ \ W]
    <2>1. waitSet' = [waitSet EXCEPT ![o] = ToSet(rest)]
        BY <1>3, WaitSetAt
    <2>2. ToSet(rest) = waitSet[o] \ W
        BY SetsOf
    <2>3. QED BY <2>1, <2>2
<1>5. /\ W = G \union Q /\ G \intersect Q = {}
      /\ \A p \in Objects \ {o} : owner'[p] = owner[p] /\ lockWaiters'[p] = lockWaiters[p]
      /\ owner[o] # NoThread => G = {} /\ owner'[o] = owner[o]
      /\ owner[o] = NoThread => G = {owner'[o]}
      /\ ToSet(lockWaiters'[o]) = ToSet(lockWaiters[o]) \union Q
    BY ReenterFacts
<1>6. entrySet' = [entrySet EXCEPT ![o] = @ \union Q]
    BY <1>5, EntrySetAt, SetsOf
<1>7. owner' = IF owner[o] = NoThread THEN [owner EXCEPT ![o] = Head(ws)] ELSE owner
    BY DEF Reenter
<1> HIDE DEF Q, W
<1>8. CASE owner[o] # NoThread
    <2>1. Q = W /\ owner' = owner
        BY <1>5, <1>7, <1>8
    <2>2. Monitors!StopWaiting(o, W)
        BY <1>4, <1>6, <1>8, <2>1 DEF Monitors!StopWaiting
    <2>3. QED BY <1>1, <2>2 DEF Monitors!Next
<1>9. CASE owner[o] = NoThread
    <2> DEFINE u == Head(ws)
    <2>1. owner' = [owner EXCEPT ![o] = u]
        BY <1>7, <1>9
    <2>2. G = {u}
        BY <1>9 DEF Granted
    <2>3. u \in W /\ Q = W \ {u}
        BY <1>5, <2>2
    <2> HIDE DEF u
    <2>4. Monitors!StopWaiting(o, W)
        BY <1>4, <1>6, <1>9, <2>1, <2>3 DEF Monitors!StopWaiting
    <2>5. QED BY <1>1, <2>4 DEF Monitors!Next
<1>10. QED BY <1>8, <1>9

\* What the monitors do not see.
LEMMA QuietStep ==
    ASSUME UNCHANGED <<lockVars, waitList>>
    PROVE  UNCHANGED Monitors!vars
BY DEF Monitors!vars, lockVars, entrySet, waitSet

-----------------------------------------------------------------------------
(* The operations.                                                          *)

\* monitorenter, monitorexit and Object.wait.
LEMMA MonitorSteps ==
    ASSUME Consistent, NEW t \in Threads, NEW o \in Objects,
           \/ EnterMonitor(t, o) \/ BlockOnMonitor(t, o) \/ ExitMonitor(t, o)
           \/ \E ms \in Millis \union {0} : Wait(t, o, ms)
    PROVE  [Monitors!Next]_(Monitors!vars)
<1>1. Running(t)
    BY DEF EnterMonitor, BlockOnMonitor, ExitMonitor, Wait
<1>2. Monitors!Free(t)
    BY <1>1, RunningIsFree
<1>3. CASE EnterMonitor(t, o)
    <2>1. entrySet' = entrySet /\ waitSet' = waitSet
        BY <1>3 DEF EnterMonitor, waitVars, entrySet, waitSet
    <2>2. Monitors!Enter(t, o)
        BY <1>2, <1>3, <2>1 DEF EnterMonitor, Monitors!Enter
    <2>3. QED BY <2>2 DEF Monitors!Next
<1>4. CASE BlockOnMonitor(t, o)
    <2>1. waitSet' = waitSet
        BY <1>4 DEF BlockOnMonitor, waitVars, waitSet
    <2>2. lockWaiters \in [Objects -> Seq(Threads)]
        BY DEF Consistent, TypeOK
    <2>3. /\ \A p \in Objects \ {o} : lockWaiters'[p] = lockWaiters[p]
          /\ lockWaiters'[o] = Append(lockWaiters[o], t)
        BY <1>4, <2>2 DEF BlockOnMonitor
    <2>4. ToSet(lockWaiters'[o]) = entrySet[o] \union {t}
        BY <2>2, <2>3, ListAppend, SetsOf
    <2>5. entrySet' = [entrySet EXCEPT ![o] = @ \union {t}]
        BY <2>3, <2>4, EntrySetAt
    <2>6. Monitors!Contend(t, o)
        BY <1>2, <1>4, <2>1, <2>5 DEF BlockOnMonitor, Monitors!Contend
    <2>7. QED BY <2>6 DEF Monitors!Next
<1>5. CASE ExitMonitor(t, o)
    <2>1. waitSet' = waitSet
        BY <1>5 DEF ExitMonitor, waitVars, waitSet
    <2>2. IF depth[t][o] > 1 THEN UNCHANGED <<owner, entrySet>> ELSE Monitors!HandOver(o)
        BY <1>5, UnlockHandsOver DEF ExitMonitor, entrySet
    <2>3. Monitors!Exit(t, o)
        BY <1>2, <1>5, <2>1, <2>2 DEF ExitMonitor, Owns, Monitors!Exit
    <2>4. QED BY <2>3 DEF Monitors!Next
<1>6. ASSUME NEW ms \in Millis \union {0}, Wait(t, o, ms)
      PROVE  Monitors!Next
    <2>1. Monitors!HandOver(o)
        BY <1>6, UnlockHandsOver DEF Wait
    <2>2. waitList \in [Objects -> Seq(Threads)]
        BY DEF Consistent, TypeOK
    <2>3. /\ \A p \in Objects \ {o} : waitList'[p] = waitList[p]
          /\ waitList'[o] = Append(waitList[o], t)
        BY <1>6, <2>2 DEF Wait
    <2>4. ToSet(waitList'[o]) = waitSet[o] \union {t}
        BY <2>2, <2>3, ListAppend, SetsOf
    <2>5. waitSet' = [waitSet EXCEPT ![o] = @ \union {t}]
        BY <2>3, <2>4, WaitSetAt
    <2>6. Monitors!WaitOn(t, o)
        BY <1>2, <1>6, <2>1, <2>5 DEF Wait, Owns, Monitors!WaitOn
    <2>7. QED BY <2>6 DEF Monitors!Next
<1>7. QED BY <1>3, <1>4, <1>5, <1>6

\* Object.notify and notifyAll.
LEMMA NotifyStops ==
    ASSUME Consistent, NEW t \in Threads, NEW o \in Objects, NEW all \in BOOLEAN,
           Notify(t, o, all)
    PROVE  Monitors!Next
<1> DEFINE w == waitList[o]
           ws == IF all THEN w ELSE <<Head(w)>>
           rest == IF all THEN <<>> ELSE Tail(w)
<1>1. w \in Seq(Threads) /\ IsInjective(w) /\ w # <<>>
    BY DEF Notify, Consistent, TypeOK, Places
<1>2. Reenter(o, ws) /\ LeaveWaitList(o, rest) /\ depth' = depth
    BY DEF Notify
<1> HIDE DEF w
<1>3. /\ ws \in Seq(Threads) /\ ws # <<>> /\ IsInjective(ws)
      /\ rest \in Seq(Threads)
      /\ ToSet(ws) \intersect ToSet(rest) = {}
      /\ ToSet(w) = ToSet(ws) \union ToSet(rest)
    <2>1. CASE all
        BY <1>1, <2>1, EmptyList
    <2>2. CASE ~all
        BY <1>1, <2>2, ListTail, SingleThread
    <2>3. QED BY <2>1, <2>2
<1> HIDE DEF ws, rest
<1>4. QED BY <1>2, <1>3, ReenterStopsWaiting DEF w

\* Thread.interrupt of a waiting thread, and a wait that has timed out.
LEMMA OneStops ==
    ASSUME Consistent, NEW u \in Threads,
           WakeWaiter(u) \/ \E t \in Threads : InterruptWait(t, u)
    PROVE  Monitors!Next
<1> DEFINE o == waitObj[u]
           rest == Without(waitList[o], u)
<1>1. InWait(u) /\ Reenter(o, <<u>>) /\ LeaveWaitList(o, rest) /\ depth' = depth
    BY DEF InterruptWait, WakeWaiter
<1>2. /\ o \in Objects /\ rest \in Seq(Threads)
      /\ ToSet(<<u>>) \intersect ToSet(rest) = {}
      /\ ToSet(waitList[o]) = ToSet(<<u>>) \union ToSet(rest)
    BY <1>1, LeaveOne
<1> HIDE DEF o, rest
<1>3. QED BY <1>1, <1>2, SingleThread, ReenterStopsWaiting

\* The end of a thread.
LEMMA FinishStops ==
    ASSUME Consistent, NEW t \in Threads, Finish(t)
    PROVE  [Monitors!Next]_(Monitors!vars)
<1> DEFINE o == ThreadObj[t]
           w == waitList[o]
<1>1. CASE o # NoObject /\ w # <<>>
    <2>1. o \in Objects /\ Reenter(o, w) /\ LeaveWaitList(o, <<>>) /\ depth' = depth
        BY <1>1, ThreadObjAssumption DEF Finish
    <2>2. w \in Seq(Threads) /\ IsInjective(w) /\ w # <<>>
        BY <1>1, <2>1 DEF Consistent, TypeOK, Places
    <2>3. /\ <<>> \in Seq(Threads)
          /\ ToSet(w) \intersect ToSet(<<>>) = {}
          /\ ToSet(w) = ToSet(w) \union ToSet(<<>>)
        BY EmptyList
    <2> HIDE DEF o
    <2>4. QED BY <2>1, <2>2, <2>3, ReenterStopsWaiting
<1>2. CASE ~(o # NoObject /\ w # <<>>)
    <2>1. UNCHANGED <<lockVars, waitList>>
        BY <1>2 DEF Finish, lockVars, waitVars
    <2>2. QED BY <2>1, QuietStep
<1>3. QED BY <1>1, <1>2

\* Every other step leaves locks and wait lists alone.
LEMMA OtherSteps ==
    ASSUME \/ Tick \/ Stopped \/ BeginScan \/ NextList \/ ReturnToScan \/ SleepOver
           \/ NoMoreThreads
           \/ \E t \in Threads :
                \/ StepOver(t) \/ WakeSleeper(t)
                \/ WaitingThreadNotInList(t) \/ WalkStrays(t)
                \/ Poll(t) \/ EventArrives(t) \/ Switch(t)
                \/ HandlePendingInterrupt(t) \/ Yield(t) \/ BlockAsync(t)
                \/ \E ms \in Millis \union {0} : Sleep(t, ms)
                \/ \E u \in Threads : \/ InterruptSleep(t, u)
                                     \/ InterruptPending(t, u)
                                     \/ Start(t, u)
    PROVE  UNCHANGED <<lockVars, waitList>>
BY DEF Tick, Stopped, BeginScan, NextList, ReturnToScan, SleepOver, NoMoreThreads,
       StepOver, WakeSleeper, WaitingThreadNotInList, WalkStrays, Poll, EventArrives, Switch,
       HandlePendingInterrupt, Yield, BlockAsync, Sleep, InterruptSleep,
       InterruptPending, Start, UnblockVars, lockVars, waitVars, vars

\* The operations that change the state of a monitor.
MonitorOperation ==
    \/ \E t \in Threads, o \in Objects :
          \/ EnterMonitor(t, o) \/ BlockOnMonitor(t, o) \/ ExitMonitor(t, o)
          \/ \E ms \in Millis \union {0} : Wait(t, o, ms)
          \/ \E all \in BOOLEAN : Notify(t, o, all)
    \/ \E u \in Threads : WakeWaiter(u) \/ \E t \in Threads : InterruptWait(t, u)
    \/ \E t \in Threads : Finish(t)

LEMMA StepsByMonitor ==
    ASSUME [Next]_vars
    PROVE  MonitorOperation \/ UNCHANGED <<lockVars, waitList>>
<1>1. CASE UNCHANGED vars
    BY <1>1 DEF vars, waitVars
<1>2. CASE Tick \/ Stopped \/ YieldStep
    BY <1>2, OtherSteps DEF YieldStep, MonitorOperation
<1>3. ASSUME NEW t \in Threads, JavaStep(t)
      PROVE  MonitorOperation \/ UNCHANGED <<lockVars, waitList>>
    BY <1>3, OtherSteps DEF JavaStep, MonitorOperation
<1>4. QED BY <1>1, <1>2, <1>3 DEF Next

-----------------------------------------------------------------------------
(* The theorems.                                                            *)

LEMMA MonitorsInit == Init => Monitors!Init
BY EmptyList DEF Init, Monitors!Init, entrySet, waitSet

LEMMA MonitorsNext ==
    ASSUME Consistent, [Next]_vars
    PROVE  [Monitors!Next]_(Monitors!vars)
<1>1. CASE UNCHANGED <<lockVars, waitList>>
    BY <1>1, QuietStep
<1>2. CASE MonitorOperation
    BY <1>2, MonitorSteps, NotifyStops, OneStops, FinishStops DEF MonitorOperation
<1>3. QED BY <1>1, <1>2, StepsByMonitor

\* The scheduler implements the monitors of Java: however a thread leaves Object.wait, it
\* owns the object again before it runs, and a lock that is given up goes to a contender.
THEOREM MonitorsRefined == Spec => ImplementsMonitors
<1>1. Consistent /\ [Next]_vars => [Monitors!Next]_(Monitors!vars)
    BY MonitorsNext
<1>2. QED BY <1>1, MonitorsInit, AlwaysConsistent, PTL
          DEF Spec, ImplementsMonitors, Monitors!Spec

\* Only the running thread gives a lock up, and it goes to the first thread of its queue.
LEMMA StepHandsOff ==
    ASSUME Consistent, [Next]_vars
    PROVE  \A o \in Objects : owner'[o] # owner[o] =>
              /\ owner[o] \in {NoThread, current}
              /\ lockWaiters[o] # <<>> =>
                   /\ owner'[o] = Head(lockWaiters[o])
                   /\ lockWaiters'[o] = Tail(lockWaiters[o])
<1> SUFFICES ASSUME NEW o \in Objects, owner'[o] # owner[o]
             PROVE  /\ owner[o] \in {NoThread, current}
                    /\ lockWaiters[o] # <<>> =>
                         /\ owner'[o] = Head(lockWaiters[o])
                         /\ lockWaiters'[o] = Tail(lockWaiters[o])
    OBVIOUS
<1>1. /\ owner \in [Objects -> Threads \union {NoThread}]
      /\ lockWaiters \in [Objects -> Seq(Threads)]
      /\ owner[o] = NoThread => lockWaiters[o] = <<>>
    BY DEF Consistent, TypeOK, LockQueueServed
<1>2. MonitorOperation
    BY StepsByMonitor DEF lockVars
<1>3. ASSUME NEW p \in Objects, Unlock(p), Owns(current, p)
      PROVE  /\ owner[o] = current
             /\ lockWaiters[o] # <<>> =>
                  /\ owner'[o] = Head(lockWaiters[o])
                  /\ lockWaiters'[o] = Tail(lockWaiters[o])
    BY <1>1, <1>3 DEF Unlock, Owns, NewOwner, First
<1>4. ASSUME NEW p, NEW ws, Reenter(p, ws)
      PROVE  owner[o] = NoThread
    BY <1>1, <1>4 DEF Reenter
<1>5. ASSUME NEW t \in Threads, NEW p \in Objects, EnterMonitor(t, p)
      PROVE  owner[o] = NoThread
    BY <1>1, <1>5 DEF EnterMonitor
<1>6. ASSUME NEW t \in Threads, NEW p \in Objects,
             ExitMonitor(t, p) \/ \E ms \in Millis \union {0} : Wait(t, p, ms)
      PROVE  Unlock(p) /\ Owns(current, p)
    BY <1>6 DEF ExitMonitor, Wait, Running, Owns
<1>7. ASSUME NEW t \in Threads, NEW p \in Objects, BlockOnMonitor(t, p)
      PROVE  FALSE
    BY <1>7 DEF BlockOnMonitor
<1>8. ASSUME NEW t \in Threads, NEW p \in Objects, NEW all \in BOOLEAN, Notify(t, p, all)
      PROVE  \E q, ws : Reenter(q, ws)
    BY <1>8 DEF Notify
<1>9. ASSUME NEW u \in Threads, WakeWaiter(u) \/ \E t \in Threads : InterruptWait(t, u)
      PROVE  \E q, ws : Reenter(q, ws)
    BY <1>9 DEF WakeWaiter, InterruptWait
<1>10. ASSUME NEW t \in Threads, Finish(t)
       PROVE  \E q, ws : Reenter(q, ws)
    BY <1>10 DEF Finish
<1>11. QED BY <1>1, <1>2, <1>3, <1>4, <1>5, <1>6, <1>7, <1>8, <1>9, <1>10
           DEF MonitorOperation

\* Locks change hands only by hand-over: nobody barges in before a queued thread.
THEOREM LockAlwaysHandedOff == Spec => LockHandOff
<1>1. Consistent /\ [Next]_vars =>
        [\A o \in Objects : owner'[o] # owner[o] =>
              /\ owner[o] \in {NoThread, current}
              /\ lockWaiters[o] # <<>> =>
                   /\ owner'[o] = Head(lockWaiters[o])
                   /\ lockWaiters'[o] = Tail(lockWaiters[o])]_vars
    BY StepHandsOff
<1>2. QED BY <1>1, AlwaysConsistent, PTL DEF Spec, LockHandOff

-----------------------------------------------------------------------------
(* Why a wait ends.                                                         *)

\* A walk compares deadlines with a time that has passed: the clock was sampled before.
WalkTimes == \A i \in DOMAIN frames : frames[i].time <= clock

\* Changing the innermost activation of yield, starting one and ending one.
LEMMA WalkTimesOf ==
    ASSUME Consistent, WalkTimes, frames # <<>>, NEW f \in Frame, f.time <= clock
    PROVE  \A i \in DOMAIN (<<f>> \o Tail(frames)) :
              (<<f>> \o Tail(frames))[i].time <= clock
<1> DEFINE g == <<f>> \o Tail(frames)
<1>1. frames \in Seq(Frame) /\ Len(frames) \in Nat \ {0}
    BY DEF Consistent, TypeOK
<1>2. /\ DOMAIN g = 1..Len(frames)
      /\ \A i \in 1..Len(frames) : g[i] = IF i = 1 THEN f ELSE frames[i]
    BY <1>1
<1>3. DOMAIN frames = 1..Len(frames)
    BY <1>1
<1> HIDE DEF g
<1>4. QED BY <1>2, <1>3 DEF WalkTimes, g

\* Java code begins a yield or leaves the walks alone, and takes no time.
LEMMA JavaFrames ==
    ASSUME NEW t \in Threads, JavaStep(t)
    PROVE  clock' = clock /\ (frames' = frames \/ frames' = <<NewFrame>>)
<1>1. ASSUME NEW o \in Objects,
             \/ EnterMonitor(t, o) \/ BlockOnMonitor(t, o) \/ ExitMonitor(t, o)
             \/ \E ms \in Millis \union {0} : Wait(t, o, ms)
             \/ \E all \in BOOLEAN : Notify(t, o, all)
      PROVE  clock' = clock /\ (frames' = frames \/ frames' = <<NewFrame>>)
    BY <1>1 DEF EnterMonitor, BlockOnMonitor, ExitMonitor, Wait, Notify, Yielding
<1>2. ASSUME NEW u \in Threads,
             \/ InterruptSleep(t, u) \/ InterruptWait(t, u) \/ InterruptPending(t, u)
             \/ Start(t, u)
      PROVE  clock' = clock /\ frames' = frames
    BY <1>2 DEF InterruptSleep, InterruptWait, InterruptPending, Start
<1>3. CASE \/ HandlePendingInterrupt(t) \/ Yield(t) \/ Finish(t) \/ BlockAsync(t)
           \/ \E ms \in Millis \union {0} : Sleep(t, ms)
    BY <1>3 DEF HandlePendingInterrupt, Yield, Finish, BlockAsync, Sleep, Yielding
<1>4. QED BY <1>1, <1>2, <1>3 DEF JavaStep

\* Every other step of a walk, by what it does; only Tick moves the clock.
LEMMA ClockAndWalk ==
    ASSUME [Next]_vars
    PROVE  /\ clock' = clock \/ clock' = clock + 1
           /\ \/ frames' = frames \/ frames' \in {<<NewFrame>>, <<>>}
              \/ ReturnToScan \/ BeginScan \/ NextList \/ SleepOver
              \/ \E t \in Threads :
                   StepOver(t) \/ WakeSleeper(t) \/ WakeWaiter(t) \/ EventArrives(t)
<1>1. CASE UNCHANGED vars \/ Tick \/ Stopped
    BY <1>1 DEF vars, Tick, Stopped
<1>2. ASSUME NEW t \in Threads, JavaStep(t)
      PROVE  clock' = clock /\ (frames' = frames \/ frames' = <<NewFrame>>)
    BY <1>2, JavaFrames
<1>3. CASE BeginScan \/ NextList \/ ReturnToScan \/ SleepOver \/ NoMoreThreads
    BY <1>3 DEF BeginScan, NextList, ReturnToScan, SleepOver, NoMoreThreads
<1>4. ASSUME NEW t \in Threads,
             \/ StepOver(t) \/ WakeSleeper(t) \/ WakeWaiter(t)
             \/ WaitingThreadNotInList(t) \/ WalkStrays(t) \/ Poll(t) \/ EventArrives(t) \/ Switch(t)
      PROVE  /\ clock' = clock
             /\ \/ frames' = frames \/ frames' = <<>>
                \/ StepOver(t) \/ WakeSleeper(t) \/ WakeWaiter(t) \/ EventArrives(t)
    BY <1>4 DEF StepOver, WakeSleeper, WakeWaiter, WaitingThreadNotInList, WalkStrays, Poll,
                EventArrives, Switch, UnblockVars
<1>5. CASE YieldStep
    BY <1>3, <1>4, <1>5 DEF YieldStep, NoMoreThreads
<1>6. QED BY <1>1, <1>2, <1>5 DEF Next

LEMMA WalkTimesNext ==
    ASSUME Consistent, WalkTimes, [Next]_vars
    PROVE  WalkTimes'
<1>1. /\ clock \in Nat /\ clock' \in Nat /\ clock <= clock'
      /\ frames \in Seq(Frame)
      /\ \A f \in Frame : f.time \in Nat
    <2>1. clock \in Nat /\ frames \in Seq(Frame)
        BY DEF Consistent, TypeOK
    <2>2. \A f \in Frame : f.time \in Nat
        BY DEF Frame
    <2>3. QED BY <2>1, <2>2, ClockAndWalk
<1>2. CASE frames' = frames
    <2>1. \A i \in DOMAIN frames : frames[i] \in Frame
        BY <1>1
    <2>2. \A i \in DOMAIN frames : frames[i].time <= clock /\ frames[i].time \in Nat
        BY <1>1, <2>1 DEF WalkTimes
    <2>3. \A i \in DOMAIN frames : frames[i].time <= clock'
        BY <1>1, <2>2
    <2>4. QED BY <1>2, <2>3 DEF WalkTimes
<1>3. CASE frames' \in {<<NewFrame>>, <<>>}
    BY <1>1, <1>3 DEF WalkTimes, NewFrame
<1>4. ASSUME frames # <<>>, NEW f \in Frame, f.time <= clock,
             frames' = <<f>> \o Tail(frames)
      PROVE  WalkTimes'
    <2>1. \A i \in DOMAIN frames' : frames'[i].time <= clock
        BY <1>4, WalkTimesOf
    <2>2. frames' \in Seq(Frame)
        BY <1>1, <1>4, SetTopType
    <2>3. \A i \in DOMAIN frames' : frames'[i] \in Frame
        BY <2>2
    <2>4. \A i \in DOMAIN frames' : frames'[i].time <= clock'
        BY <1>1, <2>1, <2>3
    <2>5. QED BY <2>4 DEF WalkTimes
<1>5. CASE ReturnToScan
    <2>1. Len(frames) > 1 /\ frames' = Tail(frames)
        BY <1>5 DEF ReturnToScan
    <2>2. /\ DOMAIN Tail(frames) = 1..(Len(frames) - 1)
          /\ \A i \in 1..(Len(frames) - 1) :
                Tail(frames)[i] = frames[i + 1] /\ i + 1 \in DOMAIN frames
        BY <1>1, <2>1
    <2>3. \A i \in DOMAIN frames : frames[i] \in Frame
        BY <1>1
    <2>4. \A i \in 1..(Len(frames) - 1) : frames[i + 1].time <= clock'
        BY <1>1, <2>2, <2>3 DEF WalkTimes
    <2>5. QED BY <2>1, <2>2, <2>4 DEF WalkTimes
<1>6. frames # <<>> => /\ Top \in Frame /\ Top.time <= clock
                       /\ NewFrame \in Frame /\ NewFrame.time <= clock
    <2>1. frames # <<>> => Top \in Frame /\ 1 \in DOMAIN frames /\ Top = frames[1]
        BY <1>1 DEF Top
    <2>2. QED BY <1>1, <2>1, NewFrameType DEF WalkTimes, NewFrame
<1>7. ASSUME NEW t \in Threads, StepOver(t) \/ WakeSleeper(t) PROVE WalkTimes'
    <2> DEFINE f == [Top EXCEPT !.th = NextOf(t)]
    <2>1. frames # <<>> /\ frames' = <<f>> \o Tail(frames)
        BY <1>7 DEF StepOver, WakeSleeper, Visiting, Scanning, InYield, SetTop
    <2>2. f \in Frame /\ f.time <= clock
        BY <1>6, <2>1, NextOfType DEF Frame
    <2> HIDE DEF f
    <2>3. QED BY <1>4, <2>1, <2>2
<1>8. ASSUME NEW t \in Threads, WakeWaiter(t) PROVE WalkTimes'
    <2> DEFINE f == [Top EXCEPT !.th = NextOf(t)]
               g == <<f>> \o Tail(frames)
    <2>1. /\ frames # <<>>
          /\ frames' = g \/ frames' = <<NewFrame>> \o g
          /\ clock' = clock
        BY <1>8 DEF WakeWaiter, Visiting, Scanning, InYield
    <2>2. f \in Frame /\ f.time <= clock
        BY <1>6, <2>1, NextOfType DEF Frame
    <2>3. g \in Seq(Frame) /\ \A i \in DOMAIN g : g[i].time <= clock
        BY <1>1, <2>1, <2>2, WalkTimesOf, SetTopType
    <2> HIDE DEF f, g
    <2>4. CASE frames' = <<NewFrame>> \o g
        <3> DEFINE h == <<NewFrame>> \o g
        <3>1. /\ Len(g) \in Nat
              /\ DOMAIN h = 1..(1 + Len(g))
              /\ DOMAIN g = 1..Len(g)
              /\ h[1] = NewFrame
              /\ \A i \in 1..Len(g) : h[1 + i] = g[i]
            BY <2>3, NewFrameType, ConcatProperties
        <3> HIDE DEF h
        <3>2. \A i \in DOMAIN h : h[i].time <= clock
            <4> SUFFICES ASSUME NEW i \in DOMAIN h PROVE h[i].time <= clock
                OBVIOUS
            <4>1. CASE i = 1
                BY <1>6, <2>1, <3>1, <4>1
            <4>2. CASE i # 1
                <5>1. i - 1 \in 1..Len(g) /\ 1 + (i - 1) = i
                    BY <3>1, <4>2
                <5>2. h[i] = g[i - 1]
                    BY <3>1, <5>1
                <5>3. QED BY <2>3, <3>1, <5>1, <5>2
            <4>3. QED BY <4>1, <4>2
        <3>3. QED BY <2>1, <2>4, <3>2 DEF WalkTimes, h
    <2>5. CASE frames' = g
        BY <2>1, <2>3, <2>5 DEF WalkTimes
    <2>6. QED BY <2>1, <2>4, <2>5
<1>9. CASE BeginScan \/ NextList \/ SleepOver
    <2> DEFINE started == [stage |-> "scan", time |-> clock, th |-> First(sleepers),
                           nw |-> ChainHead]
               moved == [Top EXCEPT !.th = Top.nw, !.nw = NextWaiting(Top.nw)]
    <2>1. frames # <<>>
        BY <1>9 DEF BeginScan, NextList, SleepOver, ScanDone, Scanning, InYield
    <2>2. CASE BeginScan
        <3>1. started \in Frame /\ started.time <= clock /\ frames' = <<started>> \o Tail(frames)
            BY <1>1, <2>2, FirstType, ChainHeadType
            DEF BeginScan, SetTop, Frame, Consistent, TypeOK
        <3> HIDE DEF started
        <3>2. QED BY <1>4, <2>1, <3>1
    <2>3. CASE NextList
        <3>1. Top.nw \in Threads
            BY <1>6, <2>1, <2>3 DEF NextList, Frame
        <3>2. moved \in Frame /\ moved.time <= clock
            BY <1>6, <2>1, <3>1, NextWaitingType DEF Frame
        <3>3. frames' = <<moved>> \o Tail(frames)
            BY <2>3 DEF NextList, SetTop
        <3> HIDE DEF moved
        <3>4. QED BY <1>4, <2>1, <3>2, <3>3
    <2>4. CASE SleepOver
        BY <1>4, <1>6, <2>1, <2>4 DEF SleepOver, SetTop
    <2>5. QED BY <1>9, <2>2, <2>3, <2>4
<1>10. ASSUME NEW t \in Threads, EventArrives(t) PROVE WalkTimes'
    BY <1>4, <1>6, <1>10 DEF EventArrives, SetTop, ScanDone, Scanning, InYield
<1>11. QED BY <1>2, <1>3, <1>5, <1>7, <1>8, <1>9, <1>10, ClockAndWalk

\* Only what may end a wait takes a thread off a wait list.
LEMMA StepEndsWait ==
    ASSUME Consistent, WalkTimes, [Next]_vars
    PROVE  \A t \in Threads, o \in Objects :
              t \in ToSet(waitList[o]) /\ t \notin ToSet(waitList'[o]) =>
                 \/ owner[o] = current /\ owner'[o] = current
                 \/ wakeupTime[t] # 0 /\ clock >= wakeupTime[t]
                 \/ InterruptWait(current, t)
                 \/ ThreadObj[current] = o /\ status'[current] = "dead"
<1> SUFFICES ASSUME NEW t \in Threads, NEW o \in Objects,
                    t \in ToSet(waitList[o]), t \notin ToSet(waitList'[o])
             PROVE  \/ owner[o] = current /\ owner'[o] = current
                    \/ wakeupTime[t] # 0 /\ clock >= wakeupTime[t]
                    \/ InterruptWait(current, t)
                    \/ ThreadObj[current] = o /\ status'[current] = "dead"
    OBVIOUS
<1>1. /\ owner \in [Objects -> Threads \union {NoThread}]
      /\ waitList \in [Objects -> Seq(Threads)]
      /\ wakeupTime \in [Threads -> 0..MaxClock] /\ clock \in 1..MaxClock
      /\ status \in [Threads -> {"unstarted", "alive", "dead"}]
      /\ frames \in Seq(Frame)
      /\ current \in Threads
    BY DEF Consistent, TypeOK
<1>2. MonitorOperation
    BY StepsByMonitor
<1>3. ASSUME NEW u \in Threads, NEW p \in Objects,
             EnterMonitor(u, p) \/ BlockOnMonitor(u, p) \/ ExitMonitor(u, p)
      PROVE  FALSE
    BY <1>3 DEF EnterMonitor, BlockOnMonitor, ExitMonitor, waitVars
<1>4. ASSUME NEW u \in Threads, NEW p \in Objects, NEW ms \in Millis \union {0}, Wait(u, p, ms)
      PROVE  FALSE
    <2>1. waitList'[o] = waitList[o] \/ waitList'[o] = Append(waitList[o], u)
        BY <1>1, <1>4 DEF Wait
    <2>2. ToSet(Append(waitList[o], u)) = ToSet(waitList[o]) \union {u}
        BY <1>1, ListAppend
    <2>3. QED BY <2>1, <2>2
<1>5. ASSUME NEW p \in Objects, NEW s, LeaveWaitList(p, s)
      PROVE  p = o
    BY <1>1, <1>5 DEF LeaveWaitList
<1>6. ASSUME NEW u \in Threads, NEW p \in Objects, NEW all \in BOOLEAN, Notify(u, p, all)
      PROVE  owner[o] = current /\ owner'[o] = current
    <2>1. u = current /\ owner[p] = u
        BY <1>6 DEF Notify, Running, Owns
    <2>2. p = o
        BY <1>5, <1>6 DEF Notify
    <2>3. owner' = owner
        BY <1>6, <2>1 DEF Notify, Reenter
    <2>4. QED BY <2>1, <2>2, <2>3
<1>7. ASSUME NEW u \in Threads, InWait(u),
             LeaveWaitList(waitObj[u], Without(waitList[waitObj[u]], u))
      PROVE  t = u
    <2>1. /\ waitObj[u] \in Objects
          /\ ToSet(waitList[waitObj[u]]) =
                ToSet(<<u>>) \union ToSet(Without(waitList[waitObj[u]], u))
        BY <1>7, LeaveOne
    <2>2. waitObj[u] = o
        BY <1>5, <1>7, <2>1
    <2>3. waitList'[o] = Without(waitList[o], u)
        BY <1>1, <1>7, <2>2 DEF LeaveWaitList
    <2>4. QED BY <2>1, <2>2, <2>3, SingleThread
<1>8. ASSUME NEW u \in Threads, WakeWaiter(u)
      PROVE  wakeupTime[t] # 0 /\ clock >= wakeupTime[t]
    <2>1. t = u
        BY <1>7, <1>8 DEF WakeWaiter
    <2>2. wakeupTime[u] # 0 /\ Top.time >= wakeupTime[u] /\ frames # <<>>
        BY <1>8 DEF WakeWaiter, Expired, Visiting, Scanning, InYield
    <2>3. Top \in Frame /\ 1 \in DOMAIN frames /\ Top = frames[1]
        BY <1>1, <2>2 DEF Top
    <2>4. Top.time <= clock /\ Top.time \in Nat
        BY <2>3 DEF WalkTimes, Frame
    <2>5. wakeupTime[u] \in Nat /\ clock \in Nat
        BY <1>1
    <2>6. QED BY <2>1, <2>2, <2>4, <2>5
<1>9. ASSUME NEW u \in Threads, NEW v \in Threads, InterruptWait(v, u)
      PROVE  InterruptWait(current, t)
    <2>1. t = u
        BY <1>7, <1>9 DEF InterruptWait
    <2>2. v = current
        BY <1>9 DEF InterruptWait, Running
    <2>3. QED BY <1>9, <2>1, <2>2
<1>10. ASSUME NEW u \in Threads, Finish(u)
       PROVE  ThreadObj[current] = o /\ status'[current] = "dead"
    <2>1. u = current /\ status' = [status EXCEPT ![u] = "dead"]
        BY <1>10 DEF Finish, Running
    <2>2. /\ LeaveWaitList(ThreadObj[u], <<>>)
          /\ ThreadObj[u] \in Objects
        BY <1>10, ThreadObjAssumption DEF Finish, waitVars
    <2>3. ThreadObj[u] = o
        BY <1>5, <2>2
    <2>4. QED BY <1>1, <2>1, <2>3
<1>11. QED BY <1>2, <1>3, <1>4, <1>6, <1>8, <1>9, <1>10 DEF MonitorOperation

\* Object.wait returns only because the owner notified, the deadline passed, the thread was
\* interrupted, or the thread it joins has ended: never on its own.
THEOREM WaitAlwaysEndsForAReason == Spec => WaitEndsForAReason
<1>1. Init => WalkTimes
    BY DEF Init, WalkTimes
<1>2. Consistent /\ WalkTimes /\ [Next]_vars => WalkTimes'
    BY WalkTimesNext
<1>3. Consistent /\ WalkTimes /\ [Next]_vars =>
        [\A t \in Threads, o \in Objects :
            t \in ToSet(waitList[o]) /\ t \notin ToSet(waitList'[o]) =>
               \/ owner[o] = current /\ owner'[o] = current
               \/ wakeupTime[t] # 0 /\ clock >= wakeupTime[t]
               \/ InterruptWait(current, t)
               \/ ThreadObj[current] = o /\ status'[current] = "dead"]_vars
    BY StepEndsWait
<1>4. QED BY <1>1, <1>2, <1>3, AlwaysConsistent, PTL DEF Spec, WaitEndsForAReason

-----------------------------------------------------------------------------
(* The threads a walk points at.                                            *)

Pointers(f) == {f.th, f.nw} \ {NoThread}

\* What has become of a thread that a nested walk has woken.
Woken(t) == InLockQueue(t) \/ (t \in active /\ Expired(t, clock))

\* The rest of a walk is in the list of this_thread and in later lists.
Apart(f) == f.th = NoThread \/ f.nw = NoThread \/ waitObj[f.th] # waitObj[f.nw]

\* WalkPointers in inductive form: only the current thread yields again, it is
\* queued on a lock until that yield is over, and so it cannot do so twice; a nested
\* walk points at waiting threads only, and at no thread twice.
WalkSound ==
    /\ Len(frames) <= 2
    /\ Len(frames) = 2 => InLockQueue(current) /\ Apart(Top)
    /\ \A i \in DOMAIN frames :
          /\ frames[i].stage = "poll" => Pointers(frames[i]) = {}
          /\ \A t \in Pointers(frames[i]) :
                Waiting(t) \/ (i = Len(frames) /\ Woken(t))

\* The thread behind one in a list is another thread of the list.
LEMMA AfterInList ==
    ASSUME NEW s \in Seq(Threads), IsInjective(s), NEW x \in ToSet(s),
           After(s, x) # NoThread
    PROVE  After(s, x) \in ToSet(s) \ {x}
<1> DEFINE i == Position(s, x)
<1>1. i \in 1..Len(s) /\ s[i] = x
    BY PositionInList
<1>2. i # Len(s) /\ After(s, x) = s[i + 1]
    BY DEF After
<1> HIDE DEF i
<1>3. i + 1 \in 1..Len(s)
    BY <1>1, <1>2
<1>4. s[i + 1] \in ToSet(s)
    BY <1>3, ListElements
<1>5. s[i + 1] # s[i]
    BY <1>1, <1>3, ListInjective
<1>6. QED BY <1>1, <1>2, <1>4, <1>5

\* next of a waiting thread waits in the same list; of any other thread there is none.
LEMMA NextOfPointer ==
    ASSUME Consistent, NEW t \in Threads, NextOf(t) # NoThread
    PROVE  /\ NextOf(t) \in Threads \ {t}
           /\ waitObj[NextOf(t)] = waitObj[t]
           /\ InSleep(t) => InSleep(NextOf(t))
           /\ ~InSleep(t) => InWait(t) /\ InWait(NextOf(t))
<1> DEFINE o == waitObj[t]
           n == NextOf(t)
<1>1. /\ sleepers \in Seq(Threads) /\ IsInjective(sleepers)
      /\ \A p \in Objects : waitList[p] \in Seq(Threads) /\ IsInjective(waitList[p])
      /\ o \in Objects \union {NoObject}
    BY DEF Consistent, TypeOK, Places
<1>2. CASE InSleep(t)
    <2>1. n = After(sleepers, t)
        BY <1>2 DEF NextOf
    <2>2. n \in ToSet(sleepers) \ {t}
        BY <1>1, <1>2, <2>1, AfterInList DEF InSleep
    <2>3. n \in Threads
        BY <1>1, <2>2, ListElements
    <2>4. QED BY <1>2, <2>2, <2>3, ListsOfThread DEF InSleep
<1>3. CASE ~InSleep(t)
    <2>1. InWait(t) /\ n = After(waitList[o], t)
        BY <1>3 DEF NextOf
    <2>2. o \in Objects /\ t \in ToSet(waitList[o])
        BY <1>1, <2>1 DEF InWait
    <2>3. n \in ToSet(waitList[o]) \ {t}
        BY <1>1, <2>1, <2>2, AfterInList
    <2>4. n \in Threads
        BY <1>1, <2>2, <2>3, ListElements
    <2>5. waitObj[n] = o
        BY <2>2, <2>3, <2>4 DEF Consistent, WaitChainExact
    <2>6. QED BY <1>3, <2>1, <2>2, <2>3, <2>4, <2>5 DEF InWait
<1>4. QED BY <1>2, <1>3

\* The head of a wait list waits.
LEMMA HeadWaits ==
    ASSUME Consistent, NEW p \in ToSet(waitChain)
    PROVE  /\ p \in Objects
           /\ Head(waitList[p]) \in Threads
           /\ InWait(Head(waitList[p])) /\ waitObj[Head(waitList[p])] = p
<1>1. p \in Objects /\ waitList[p] # <<>>
    BY DEF Consistent, WaitChainExact
<1>2. waitList[p] \in Seq(Threads)
    BY <1>1 DEF Consistent, TypeOK
<1>3. Head(waitList[p]) \in Threads /\ Head(waitList[p]) \in ToSet(waitList[p])
    BY <1>1, <1>2, ListTail
<1>4. waitObj[Head(waitList[p])] = p
    BY <1>1, <1>3 DEF Consistent, WaitChainExact
<1>5. QED BY <1>1, <1>3, <1>4, ObjectsAssumption DEF InWait

LEMMA ChainHeadWaits ==
    ASSUME Consistent, ChainHead # NoThread
    PROVE  ChainHead \in Threads /\ InWait(ChainHead)
<1>1. waitChain # <<>> /\ ChainHead = Head(waitList[Head(waitChain)])
    BY DEF ChainHead
<1>2. waitChain \in Seq(Objects)
    BY DEF Consistent, TypeOK
<1>3. Head(waitChain) \in ToSet(waitChain)
    BY <1>1, <1>2, ListTail
<1>4. QED BY <1>1, <1>3, HeadWaits

\* next_waiting of a waiting thread heads another wait list, of a queued thread it is
\* queued on the same lock, of any other thread there is none.
LEMMA NextWaitingPointer ==
    ASSUME Consistent, NEW t \in Threads, NextWaiting(t) # NoThread
    PROVE  /\ NextWaiting(t) \in Threads
           /\ \/ InLockQueue(t) /\ InLockQueue(NextWaiting(t))
              \/ InWait(NextWaiting(t)) /\ waitObj[NextWaiting(t)] # waitObj[t]
<1> DEFINE o == waitObj[t]
           n == NextWaiting(t)
<1>1. /\ o \in Objects
      /\ waitChain \in Seq(Objects) /\ IsInjective(waitChain)
      /\ waitList[o] \in Seq(Threads)
      /\ lockWaiters[o] \in Seq(Threads) /\ IsInjective(lockWaiters[o])
    BY DEF NextWaiting, Consistent, TypeOK, Places, WaitChainExact
<1>2. CASE t \in ToSet(lockWaiters[o])
    <2>1. n = After(lockWaiters[o], t)
        BY <1>1, <1>2, ObjectsAssumption DEF NextWaiting
    <2>2. n \in ToSet(lockWaiters[o])
        BY <1>1, <1>2, <2>1, AfterInList
    <2>3. n \in Threads
        BY <1>1, <2>2, ListElements
    <2>4. QED BY <1>1, <1>2, <2>2, <2>3 DEF InLockQueue
<1>3. CASE t \notin ToSet(lockWaiters[o])
    <2> DEFINE k == Position(waitChain, o)
    <2>1. /\ t = First(waitList[o]) /\ o # Last(waitChain)
          /\ n = Head(waitList[waitChain[k + 1]])
        BY <1>1, <1>3, ObjectsAssumption DEF NextWaiting
    <2>2. waitList[o] # <<>>
        BY <2>1, ThreadsAssumption DEF First
    <2>3. o \in ToSet(waitChain)
        BY <1>1, <2>2 DEF Consistent, WaitChainExact
    <2>4. k \in 1..Len(waitChain) /\ waitChain[k] = o
        BY <1>1, <2>3, PositionInList
    <2> HIDE DEF k
    <2>5. k # Len(waitChain)
        BY <2>1, <2>4 DEF Last
    <2>6. k + 1 \in 1..Len(waitChain)
        BY <1>1, <2>4, <2>5
    <2>7. waitChain[k + 1] \in ToSet(waitChain)
        BY <1>1, <2>6, ListElements
    <2>8. waitChain[k + 1] # o
        BY <1>1, <2>4, <2>6, ListInjective
    <2>9. QED BY <2>1, <2>7, <2>8, HeadWaits
<1>4. QED BY <1>2, <1>3

-----------------------------------------------------------------------------
(* What a step does to the walks.                                           *)

LEMMA HeadReplaced ==
    ASSUME NEW S, NEW s \in Seq(S), s # <<>>, NEW f \in S,
           NEW g, g = <<f>> \o Tail(s)
    PROVE  /\ g \in Seq(S) /\ Len(g) = Len(s) /\ g[1] = f
           /\ \A i \in 2..Len(s) : g[i] = s[i]
OBVIOUS

LEMMA TwoFrames ==
    ASSUME NEW S, NEW s \in Seq(S), Len(s) = 1, NEW e \in S
    PROVE  LET h == <<e>> \o s
           IN  DOMAIN h = {1, 2} /\ Len(h) = 2 /\ h[1] = e /\ h[2] = s[1]
<1> DEFINE r == <<e>>
<1>1. r \in Seq(S) /\ Len(r) = 1 /\ r[1] = e
    OBVIOUS
<1> HIDE DEF r
<1>2. /\ r \o s \in Seq(S) /\ Len(r \o s) = Len(r) + Len(s)
      /\ \A i \in 1..(Len(r) + Len(s)) :
            (r \o s)[i] = IF i <= Len(r) THEN r[i] ELSE s[i - Len(r)]
    BY <1>1, ConcatProperties, ZenonT(40)
<1> DEFINE h == r \o s
<1> HIDE DEF h
<1>3. /\ h \in Seq(S) /\ Len(h) = 2
      /\ \A i \in 1..2 : h[i] = IF i <= 1 THEN r[i] ELSE s[i - 1]
    BY <1>1, <1>2 DEF h
<1>4. h[1] = e /\ h[2] = s[1]
    BY <1>1, <1>3
<1>5. DOMAIN h = {1, 2}
    BY <1>3
<1>6. QED BY <1>3, <1>4, <1>5 DEF h, r

LEMMA ShortList ==
    ASSUME NEW S, NEW s \in Seq(S), s # <<>>, Len(s) <= 2
    PROVE  Len(s) = 1 \/ Len(s) = 2
<1> DEFINE n == Len(s)
<1>1. n \in Nat /\ n # 0 /\ n <= 2
    OBVIOUS
<1> HIDE DEF n
<1>2. n = 1 \/ n = 2
    BY <1>1
<1>3. QED BY <1>2 DEF n

\* The innermost walk is replaced.
LEMMA NewTop ==
    ASSUME frames \in Seq(Frame), frames # <<>>, Len(frames) <= 2,
           NEW f \in Frame, frames' = <<f>> \o Tail(frames),
           f.stage = "poll" => Pointers(f) = {},
           Len(frames) = 1 => \A t \in Pointers(f) : Waiting(t)' \/ Woken(t)',
           Len(frames) = 2 =>
              /\ InLockQueue(current)' /\ Apart(f)'
              /\ \A t \in Pointers(f) : Waiting(t)'
              /\ frames[2].stage = "poll" => Pointers(frames[2]) = {}
              /\ \A t \in Pointers(frames[2]) : Waiting(t)' \/ Woken(t)'
    PROVE  WalkSound'
<1>1. /\ frames' \in Seq(Frame) /\ Len(frames') = Len(frames) /\ frames'[1] = f
      /\ \A i \in 2..Len(frames) : frames'[i] = frames[i]
    <2> DEFINE g == frames'
    <2>1. g = <<f>> \o Tail(frames)
        OBVIOUS
    <2> HIDE DEF g
    <2>2. /\ g \in Seq(Frame) /\ Len(g) = Len(frames) /\ g[1] = f
          /\ \A i \in 2..Len(frames) : g[i] = frames[i]
        BY <2>1, HeadReplaced
    <2>3. QED BY <2>2 DEF g
<1>2. Len(frames) = 1 \/ Len(frames) = 2
    BY ShortList
<1>3. DOMAIN frames' = 1..Len(frames)
    BY <1>1
<1>4. Top' = f
    BY <1>1, <1>2, <1>3 DEF Top
<1>5. CASE Len(frames) = 1
    <2>1. DOMAIN frames' = {1} /\ Len(frames') = 1
        BY <1>1, <1>3, <1>5
    <2>2. (\A i \in DOMAIN frames :
             /\ frames[i].stage = "poll" => Pointers(frames[i]) = {}
             /\ \A t \in Pointers(frames[i]) :
                   Waiting(t) \/ (i = Len(frames) /\ Woken(t)))'
        BY <1>1, <1>5, <2>1 DEF Pointers
    <2>3. Len(frames') <= 2 /\ Len(frames') # 2
        BY <2>1
    <2>4. QED BY <2>2, <2>3 DEF WalkSound
<1>6. CASE Len(frames) = 2
    <2>1. DOMAIN frames' = {1, 2} /\ frames'[2] = frames[2] /\ Len(frames') = 2
        BY <1>1, <1>3, <1>6
    <2>2. (InLockQueue(current) /\ Apart(Top))'
        BY <1>4, <1>6 DEF Apart
    <2>3. QED BY <1>1, <1>6, <2>1, <2>2 DEF WalkSound, Pointers
<1>7. QED BY <1>2, <1>5, <1>6

\* A step that wakes nobody keeps every pointer as it was.
Quiet ==
    /\ UNCHANGED <<sleepers, waitList, lockWaiters, waitObj, wakeupTime, current>>
    /\ active \subseteq active'
    /\ clock <= clock'

LEMMA QuietPointers ==
    ASSUME Consistent, Quiet, clock' \in Nat, NEW t \in Threads
    PROVE  /\ Waiting(t) => Waiting(t)'
           /\ Woken(t) => Woken(t)'
<1>1. clock \in Nat /\ wakeupTime[t] \in Nat
    BY DEF Consistent, TypeOK
<1>2. Waiting(t) => Waiting(t)'
    BY DEF Quiet, Waiting, InSleep, InWait
<1>3. InLockQueue(t) => InLockQueue(t)'
    BY DEF Quiet, InLockQueue
<1>4. Expired(t, clock) => Expired(t, clock)'
    BY <1>1 DEF Quiet, Expired
<1>5. QED BY <1>2, <1>3, <1>4 DEF Woken, Quiet

LEMMA QuietQueued ==
    ASSUME Quiet, InLockQueue(current)
    PROVE  InLockQueue(current)'
BY DEF Quiet, InLockQueue

\* The walks of a state that is not quite idle.
LEMMA WalkShape ==
    ASSUME Consistent, WalkSound, frames # <<>>
    PROVE  /\ frames \in Seq(Frame) /\ (Len(frames) = 1 \/ Len(frames) = 2)
           /\ Top = frames[1] /\ Top \in Frame
           /\ Top.stage = "poll" => Pointers(Top) = {}
           /\ \A t \in Pointers(Top) : t \in Threads /\ (Waiting(t) \/ Woken(t))
           /\ Len(frames) = 2 =>
                /\ InLockQueue(current) /\ Apart(Top)
                /\ \A t \in Pointers(Top) : t \in Threads /\ Waiting(t)
                /\ frames[2].stage = "poll" => Pointers(frames[2]) = {}
                /\ \A t \in Pointers(frames[2]) : t \in Threads /\ (Waiting(t) \/ Woken(t))
<1>1. frames \in Seq(Frame) /\ (Len(frames) = 1 \/ Len(frames) = 2)
    <2>1. frames \in Seq(Frame) /\ Len(frames) <= 2
        BY DEF Consistent, TypeOK, WalkSound
    <2>2. QED BY <2>1, ShortList
<1>2. /\ 1 \in DOMAIN frames /\ frames[1] \in Frame /\ Top = frames[1]
      /\ Len(frames) = 2 => 2 \in DOMAIN frames /\ frames[2] \in Frame
    BY <1>1 DEF Top
<1>3. \A f \in Frame : Pointers(f) \subseteq Threads
    BY DEF Pointers, Frame
<1>4. \A t \in Pointers(frames[1]) : Waiting(t) \/ (1 = Len(frames) /\ Woken(t))
    BY <1>2 DEF WalkSound
<1>5. Len(frames) = 2 => \A t \in Pointers(frames[2]) : Waiting(t) \/ Woken(t)
    BY <1>2 DEF WalkSound
<1>6. QED BY <1>1, <1>2, <1>3, <1>4, <1>5 DEF WalkSound

LEMMA WaitingNotQueued ==
    ASSUME Consistent, NEW t \in Threads, Waiting(t)
    PROVE  ~InLockQueue(t)
BY ListsOfThread
DEF Waiting, InSleep, InWait, InLockQueue, Consistent, TypeOK, Places, WaitChainExact

\* A walk that moves on and wakes nobody.
LEMMA QuietTop ==
    ASSUME Consistent, WalkSound, frames # <<>>, Quiet, clock' \in Nat,
           NEW f \in Frame, frames' = <<f>> \o Tail(frames),
           f.stage = "poll" => Pointers(f) = {},
           \A t \in Pointers(f) :
              t \in Threads /\ (Waiting(t) \/ (Len(frames) = 1 /\ Woken(t))),
           Len(frames) = 2 => Apart(f)
    PROVE  WalkSound'
<1>1. /\ frames \in Seq(Frame) /\ Len(frames) <= 2
      /\ Len(frames) = 1 \/ Len(frames) = 2
    BY WalkShape DEF WalkSound
<1>2. \A t \in Pointers(f) : /\ Len(frames) = 1 => Waiting(t)' \/ Woken(t)'
                             /\ Len(frames) = 2 => Waiting(t)'
    BY QuietPointers
<1>3. Len(frames) = 2 =>
         /\ InLockQueue(current)'
         /\ frames[2].stage = "poll" => Pointers(frames[2]) = {}
         /\ \A t \in Pointers(frames[2]) : Waiting(t)' \/ Woken(t)'
    BY WalkShape, QuietPointers, QuietQueued
<1>4. Len(frames) = 2 => Apart(f)'
    BY DEF Apart, Quiet
<1>5. QED BY <1>1, <1>2, <1>3, <1>4, NewTop

\* A step that leaves the walks alone.
LEMMA SameWalks ==
    ASSUME Consistent, WalkSound, Quiet, clock' \in Nat, frames' = frames
    PROVE  WalkSound'
<1>1. \A i \in DOMAIN frames : \A t \in Pointers(frames[i]) : t \in Threads
    <2>1. \A i \in DOMAIN frames : frames[i] \in Frame
        BY DEF Consistent, TypeOK
    <2>2. QED BY <2>1 DEF Pointers, Frame
<1>2. (\A i \in DOMAIN frames :
         /\ frames[i].stage = "poll" => Pointers(frames[i]) = {}
         /\ \A t \in Pointers(frames[i]) :
               Waiting(t) \/ (i = Len(frames) /\ Woken(t)))'
    BY <1>1, QuietPointers DEF WalkSound, Pointers
<1>3. (Len(frames) = 2 => InLockQueue(current) /\ Apart(Top))'
    BY QuietQueued DEF WalkSound, Apart, Top, Quiet
<1>4. QED BY <1>2, <1>3 DEF WalkSound

LEMMA WalkBegins ==
    ASSUME frames' = <<>> \/ frames' = <<NewFrame>>
    PROVE  WalkSound'
<1>1. CASE frames' = <<>>
    BY <1>1 DEF WalkSound
<1>2. CASE frames' = <<NewFrame>>
    <2>1. Len(frames') = 1 /\ DOMAIN frames' = {1} /\ frames'[1] = NewFrame
        BY <1>2
    <2>2. Pointers(NewFrame) = {}
        BY DEF Pointers, NewFrame
    <2>3. QED BY <2>1, <2>2 DEF WalkSound, Pointers
<1>3. QED BY <1>1, <1>2

LEMMA NewFrameSound ==
    NewFrame \in Frame /\ Pointers(NewFrame) = {} /\ Apart(NewFrame)
<1>1. Pointers(NewFrame) = {}
    BY DEF Pointers, NewFrame
<1>2. Apart(NewFrame)
    BY DEF Apart, NewFrame
<1>3. QED BY <1>1, <1>2, NewFrameType

\* The steps of a walk that wake nobody.
LEMMA WalkMoves ==
    ASSUME Consistent, WalkSound,
           \/ BeginScan \/ NextList \/ SleepOver
           \/ \E t \in Threads : StepOver(t) \/ EventArrives(t)
    PROVE  WalkSound'
<1>1. clock \in Nat
    BY DEF Consistent, TypeOK
<1>2. CASE BeginScan
    <2> DEFINE f == [stage |-> "scan", time |-> clock, th |-> First(sleepers),
                     nw |-> ChainHead]
    <2>1. frames # <<>> /\ Quiet /\ clock' \in Nat /\ frames' = <<f>> \o Tail(frames)
        BY <1>1, <1>2 DEF BeginScan, InYield, SetTop, Quiet, lockVars, waitVars, threadVars
    <2>2. sleepers \in Seq(Threads)
        BY DEF Consistent, TypeOK
    <2>3. f \in Frame
        BY <2>2, FirstType, ChainHeadType DEF Frame, Consistent, TypeOK
    <2>4. First(sleepers) # NoThread => First(sleepers) \in Threads /\ InSleep(First(sleepers))
        BY <2>2, ListTail DEF First, InSleep
    <2>5. ChainHead # NoThread => ChainHead \in Threads /\ InWait(ChainHead)
        BY ChainHeadWaits
    <2>6. \A t \in Pointers(f) : t \in Threads /\ Waiting(t)
        BY <2>4, <2>5 DEF Pointers, Waiting
    <2>7. Apart(f)
        BY <2>4, <2>5, ListsOfThread DEF Apart, InSleep, InWait
    <2>8. f.stage # "poll"
        OBVIOUS
    <2> HIDE DEF f
    <2>9. QED BY <2>1, <2>3, <2>6, <2>7, <2>8, QuietTop
<1>3. CASE NextList
    <2> DEFINE n == NextWaiting(Top.nw)
               f == [Top EXCEPT !.th = Top.nw, !.nw = n]
    <2>1. frames # <<>> /\ Quiet /\ clock' \in Nat /\ frames' = <<f>> \o Tail(frames)
        BY <1>1, <1>3
        DEF NextList, Scanning, InYield, SetTop, Quiet, lockVars, waitVars, threadVars
    <2>2. /\ Top \in Frame /\ Top.stage = "scan" /\ Top.nw # NoThread
          /\ Top.nw \in Pointers(Top)
        BY <1>3, <2>1, WalkShape DEF NextList, Scanning, Pointers
    <2>3. /\ Top.nw \in Threads
          /\ Waiting(Top.nw) \/ Woken(Top.nw)
          /\ Len(frames) = 2 => Waiting(Top.nw)
          /\ Len(frames) = 1 \/ Len(frames) = 2
        BY <2>1, <2>2, WalkShape
    <2>4. f \in Frame /\ f.stage = "scan" /\ f.th = Top.nw /\ f.nw = n
        BY <2>2, <2>3, NextWaitingType DEF Frame
    <2>5. n # NoThread =>
             /\ n \in Threads
             /\ \/ InLockQueue(Top.nw) /\ InLockQueue(n)
                \/ InWait(n) /\ waitObj[n] # waitObj[Top.nw]
        BY <2>3, NextWaitingPointer
    <2>6. n # NoThread /\ Len(frames) = 2 => InWait(n) /\ waitObj[n] # waitObj[Top.nw]
        BY <2>3, <2>5, WaitingNotQueued
    <2> HIDE DEF f, n
    <2>7. \A t \in Pointers(f) :
             t \in Threads /\ (Waiting(t) \/ (Len(frames) = 1 /\ Woken(t)))
        BY <2>3, <2>4, <2>5, <2>6 DEF Pointers, Waiting, Woken
    <2>8. Len(frames) = 2 => Apart(f)
        BY <2>4, <2>6 DEF Apart
    <2>9. QED BY <2>1, <2>4, <2>7, <2>8, QuietTop
<1>4. CASE SleepOver
    <2>1. frames # <<>> /\ Quiet /\ clock' \in Nat /\ frames' = <<NewFrame>> \o Tail(frames)
        BY <1>1, <1>4
        DEF SleepOver, ScanDone, Scanning, InYield, SetTop, Quiet, lockVars, waitVars, threadVars
    <2>2. QED BY <2>1, NewFrameSound, QuietTop
<1>5. ASSUME NEW t \in Threads, EventArrives(t) PROVE WalkSound'
    <2>1. frames # <<>> /\ Quiet /\ clock' \in Nat /\ frames' = <<NewFrame>> \o Tail(frames)
        BY <1>1, <1>5
        DEF EventArrives, UnblockVars, ScanDone, Scanning, InYield, SetTop, Quiet, lockVars,
            waitVars, threadVars
    <2>2. QED BY <2>1, NewFrameSound, QuietTop
<1>6. ASSUME NEW t \in Threads, StepOver(t) PROVE WalkSound'
    <2> DEFINE n == NextOf(t)
               f == [Top EXCEPT !.th = n]
    <2>1. frames # <<>> /\ Quiet /\ clock' \in Nat /\ frames' = <<f>> \o Tail(frames)
        BY <1>1, <1>6
        DEF StepOver, Visiting, Scanning, InYield, SetTop, Quiet, lockVars, waitVars, threadVars
    <2>2. /\ Top \in Frame /\ Top.stage = "scan" /\ Top.th = t
          /\ Len(frames) = 1 \/ Len(frames) = 2
        BY <1>6, <2>1, WalkShape DEF StepOver, Visiting, Scanning
    <2>3. f \in Frame /\ f.stage = "scan" /\ f.th = n /\ f.nw = Top.nw
        BY <2>2, NextOfType DEF Frame
    <2>4. n # NoThread => n \in Threads /\ Waiting(n) /\ waitObj[n] = waitObj[t]
        BY NextOfPointer DEF Waiting
    <2>5. Top.nw # NoThread =>
             Top.nw \in Threads /\ (Waiting(Top.nw) \/ (Len(frames) = 1 /\ Woken(Top.nw)))
        BY <2>1, <2>2, WalkShape DEF Pointers
    <2>6. Len(frames) = 2 => Apart(Top)
        BY <2>1, WalkShape
    <2> HIDE DEF f, n
    <2>7. \A u \in Pointers(f) :
             u \in Threads /\ (Waiting(u) \/ (Len(frames) = 1 /\ Woken(u)))
        BY <2>3, <2>4, <2>5 DEF Pointers
    <2>8. Len(frames) = 2 => Apart(f)
        BY <2>2, <2>3, <2>4, <2>6, ThreadsAssumption DEF Apart
    <2>9. QED BY <2>1, <2>3, <2>7, <2>8, QuietTop
<1>7. QED BY <1>2, <1>3, <1>4, <1>5, <1>6

\* A nested walk ends, and the walk that caused it goes on.
LEMMA WalkReturns ==
    ASSUME Consistent, WalkSound, ReturnToScan
    PROVE  WalkSound'
<1>1. /\ frames # <<>> /\ Len(frames) > 1 /\ frames' = Tail(frames)
      /\ Quiet /\ clock' \in Nat
    BY DEF ReturnToScan, ScanDone, Scanning, InYield, Quiet, lockVars, waitVars, threadVars,
           Consistent, TypeOK
<1>2. /\ frames \in Seq(Frame) /\ Len(frames) = 2
      /\ frames[2].stage = "poll" => Pointers(frames[2]) = {}
      /\ \A t \in Pointers(frames[2]) : t \in Threads /\ (Waiting(t) \/ Woken(t))
    BY <1>1, WalkShape
<1>3. DOMAIN frames' = {1} /\ Len(frames') = 1 /\ frames'[1] = frames[2]
    BY <1>1, <1>2
<1>4. \A t \in Pointers(frames[2]) : Waiting(t)' \/ Woken(t)'
    BY <1>1, <1>2, QuietPointers
<1>5. QED BY <1>2, <1>3, <1>4 DEF WalkSound, Pointers

\* A thread whose time has come is queued on its lock or active; nobody else moves.
LEMMA WakeFacts ==
    ASSUME Consistent, WalkTimes, NEW t \in Threads, WakeSleeper(t) \/ WakeWaiter(t),
           NEW u \in Threads
    PROVE  /\ u = t => Woken(u)'
           /\ u # t => /\ Waiting(u) => Waiting(u)'
                       /\ Woken(u) => Woken(u)'
                       /\ waitObj'[u] = waitObj[u]
           /\ InLockQueue(u) => InLockQueue(u)'
           /\ current' = current
<1>1. /\ sleepers \in Seq(Threads) /\ IsInjective(sleepers)
      /\ waitObj \in [Threads -> Objects \union {NoObject}]
      /\ wakeupTime \in [Threads -> 0..MaxClock] /\ clock \in Nat
      /\ lockWaiters \in [Objects -> Seq(Threads)]
      /\ waitList \in [Objects -> Seq(Threads)]
    BY DEF Consistent, TypeOK, Places
<1>2. Expired(t, clock)
    <2>1. Expired(t, Top.time) /\ frames # <<>>
        BY DEF WakeSleeper, WakeWaiter, Visiting, Scanning, InYield
    <2>2. frames \in Seq(Frame)
        BY DEF Consistent, TypeOK
    <2>3. Top \in Frame /\ 1 \in DOMAIN frames /\ Top = frames[1]
        BY <2>1, <2>2 DEF Top
    <2>4. Top.time <= clock /\ Top.time \in Nat
        BY <2>3 DEF WalkTimes, Frame
    <2>5. wakeupTime[t] \in Nat
        BY <1>1
    <2>6. QED BY <1>1, <2>1, <2>4, <2>5 DEF Expired
<1>3. CASE WakeSleeper(t)
    <2>1. /\ t \in ToSet(sleepers) /\ sleepers' = Without(sleepers, t)
          /\ active' = active \union {t}
          /\ UNCHANGED <<clock, current, lockVars, waitList, waitObj, wakeupTime>>
        BY <1>3 DEF WakeSleeper, InSleep, threadVars
    <2>2. ToSet(sleepers') = ToSet(sleepers) \ {t}
        BY <1>1, <2>1, WithoutList
    <2>3. u # t /\ Waiting(u) => Waiting(u)'
        BY <2>1, <2>2 DEF Waiting, InSleep, InWait
    <2>4. InLockQueue(u) => InLockQueue(u)'
        BY <2>1 DEF InLockQueue, lockVars
    <2>5. Expired(u, clock) => Expired(u, clock)'
        BY <2>1 DEF Expired
    <2>6. QED BY <1>2, <2>1, <2>3, <2>4, <2>5 DEF Woken
<1>4. CASE WakeWaiter(t)
    <2> DEFINE o == waitObj[t]
               rest == Without(waitList[o], t)
               G == Granted(o, <<t>>)
               Q == ToSet(Queued(o, <<t>>))
    <2>1. /\ InWait(t) /\ Reenter(o, <<t>>) /\ LeaveWaitList(o, rest)
          /\ active' = active \union G
          /\ UNCHANGED <<clock, current>>
        BY <1>4 DEF WakeWaiter
    <2>2. /\ o \in Objects
          /\ ToSet(waitList[o]) = {t} \union ToSet(rest)
        BY <2>1, LeaveOne, SingleThread
    <2>3. /\ <<t>> \in Seq(Threads) /\ <<t>> # <<>> /\ IsInjective(<<t>>)
          /\ ToSet(<<t>>) = {t} /\ ToSet(<<t>>) \subseteq ToSet(waitList[o])
        BY <2>2, SingleThread
    <2>4. /\ {t} = G \union Q /\ G \intersect Q = {}
          /\ lockWaiters' \in [Objects -> Seq(Threads)]
          /\ \A p \in Objects \ {o} : lockWaiters'[p] = lockWaiters[p]
          /\ ToSet(lockWaiters'[o]) = ToSet(lockWaiters[o]) \union Q
        BY <2>1, <2>2, <2>3, ReenterFacts
    <2>5. /\ waitObj' = [x \in Threads |-> IF x \in G THEN NoObject ELSE waitObj[x]]
          /\ wakeupTime' = [x \in Threads |-> IF x \in Q THEN 0 ELSE wakeupTime[x]]
        BY <2>1 DEF Reenter, WithoutTimeout
    <2>6. /\ sleepers' = sleepers
          /\ waitList' = [waitList EXCEPT ![o] = rest]
        BY <2>1 DEF LeaveWaitList
    <2> HIDE DEF G, Q, rest, o
    <2>7. u # t => waitObj'[u] = waitObj[u] /\ wakeupTime'[u] = wakeupTime[u]
        BY <1>1, <2>4, <2>5
    <2>8. /\ waitList'[o] = rest
          /\ \A p \in Objects \ {o} : waitList'[p] = waitList[p]
        BY <1>1, <2>2, <2>6
    <2>9. u # t /\ InWait(u) => InWait(u)'
        <3> SUFFICES ASSUME u # t, InWait(u) PROVE InWait(u)'
            OBVIOUS
        <3>1. waitObj[u] \in Objects /\ u \in ToSet(waitList[waitObj[u]])
            BY <1>1 DEF InWait
        <3>2. u \in ToSet(waitList'[waitObj[u]])
            BY <2>2, <2>8, <3>1
        <3>3. QED BY <2>7, <3>1, <3>2, ObjectsAssumption DEF InWait
    <2>10. u # t /\ Waiting(u) => Waiting(u)'
        BY <2>6, <2>9 DEF Waiting, InSleep
    <2>11. InLockQueue(u) => InLockQueue(u)'
        BY <2>2, <2>4 DEF InLockQueue
    <2>12. u # t /\ Expired(u, clock) => Expired(u, clock)'
        BY <2>1, <2>7 DEF Expired
    <2>13. u # t /\ Woken(u) => Woken(u)'
        BY <2>1, <2>11, <2>12 DEF Woken
    <2>14. u = t => Woken(u)'
        <3> SUFFICES ASSUME u = t PROVE Woken(u)'
            OBVIOUS
        <3>1. CASE t \in Q
            BY <2>2, <2>4, <3>1 DEF Woken, InLockQueue
        <3>2. CASE t \in G
            <4>1. wakeupTime'[t] = wakeupTime[t]
                BY <1>1, <2>4, <2>5, <3>2
            <4>2. QED BY <1>2, <2>1, <3>2, <4>1 DEF Woken, Expired
        <3>3. QED BY <2>4, <3>1, <3>2
    <2>15. QED BY <2>1, <2>7, <2>10, <2>11, <2>13, <2>14
<1>5. QED BY <1>3, <1>4

\* The current thread that has to queue for its monitor yields inside the walk.
LEMMA WalkNests ==
    ASSUME Consistent, WalkSound, NEW t \in Threads, WakeWaiter(t),
           YieldsAgain(t, waitObj[t])
    PROVE  Len(frames) = 1 /\ InLockQueue(current)'
<1> DEFINE o == waitObj[t]
<1>1. /\ InWait(t) /\ Reenter(o, <<t>>) /\ t = current /\ current' = current
      /\ frames # <<>>
    BY DEF WakeWaiter, YieldsAgain, Visiting, Scanning, InYield
<1>2. o \in Objects /\ ToSet(<<t>>) \subseteq ToSet(waitList[o])
    BY <1>1, LeaveOne
<1>3. /\ ToSet(<<t>>) = {t}
      /\ ToSet(lockWaiters'[o]) = ToSet(lockWaiters[o]) \union ToSet(Queued(o, <<t>>))
    BY <1>1, <1>2, SingleThread, ReenterFacts
<1>4. Queued(o, <<t>>) # <<>>
    BY DEF YieldsAgain
<1>5. Queued(o, <<t>>) = <<t>>
    BY <1>4 DEF Queued
<1>6. t \in ToSet(lockWaiters'[o])
    BY <1>3, <1>5
<1>7. InLockQueue(current)'
    BY <1>1, <1>2, <1>6 DEF InLockQueue
<1>8. ~InLockQueue(current)
    BY <1>1, WaitingNotQueued DEF Waiting
<1>9. QED BY <1>1, <1>7, <1>8, WalkShape

\* The walk has woken the thread it came to.
LEMMA WalkWakes ==
    ASSUME Consistent, WalkTimes, WalkSound,
           NEW t \in Threads, WakeSleeper(t) \/ WakeWaiter(t)
    PROVE  WalkSound'
<1> PICK n : n = NextOf(t)
    OBVIOUS
<1> PICK m : m = Top.nw
    OBVIOUS
<1> PICK f : f = [Top EXCEPT !.th = n]
    OBVIOUS
<1> DEFINE g == <<f>> \o Tail(frames)
<1>1. /\ frames # <<>> /\ Top.stage = "scan" /\ Top.th = t
      /\ \/ frames' = g
         \/ WakeWaiter(t) /\ YieldsAgain(t, waitObj[t]) /\ frames' = <<NewFrame>> \o g
    BY DEF WakeSleeper, WakeWaiter, Visiting, Scanning, InYield, SetTop
<1> HIDE DEF g
<1>2. /\ frames \in Seq(Frame) /\ Top \in Frame /\ Len(frames) <= 2
      /\ Len(frames) = 1 \/ Len(frames) = 2
    BY <1>1, WalkShape DEF WalkSound
<1>3. f \in Frame /\ f.stage = "scan" /\ f.th = n /\ f.nw = m
    BY <1>1, <1>2, NextOfType DEF Frame
<1>4. n # NoThread =>
         n \in Threads \ {t} /\ Waiting(n)' /\ waitObj[n] = waitObj[t]
            /\ waitObj'[n] = waitObj[n]
    BY NextOfPointer, WakeFacts DEF Waiting
<1>5. ASSUME NEW u \in Threads, Waiting(u) \/ Woken(u)
      PROVE  Waiting(u)' \/ Woken(u)'
    BY <1>5, WakeFacts
<1>6. m # NoThread => m \in Threads /\ (Waiting(m)' \/ Woken(m)')
    BY <1>1, <1>2, <1>5, WalkShape DEF Pointers
<1>7. \A u \in Pointers(f) : Waiting(u)' \/ Woken(u)'
    BY <1>3, <1>4, <1>6 DEF Pointers
<1>8. Len(frames) = 2 /\ m # NoThread =>
         /\ waitObj[t] # waitObj[m]
         /\ m \in Threads \ {t}
         /\ Waiting(m)' /\ waitObj'[m] = waitObj[m]
    <2> SUFFICES ASSUME Len(frames) = 2, m # NoThread
                 PROVE  /\ waitObj[t] # waitObj[m]
                        /\ m \in Threads \ {t}
                        /\ Waiting(m)' /\ waitObj'[m] = waitObj[m]
        OBVIOUS
    <2>1. m \in Threads /\ Waiting(m) /\ Apart(Top)
        BY <1>1, <1>2, WalkShape DEF Pointers
    <2>2. waitObj[t] # waitObj[m]
        BY <1>1, <2>1, ThreadsAssumption DEF Apart
    <2>3. m \in Threads \ {t}
        BY <2>1, <2>2
    <2>4. QED BY <2>1, <2>2, <2>3, WakeFacts
<1>9. Len(frames) = 2 =>
         /\ InLockQueue(current)'
         /\ \A u \in Pointers(frames[2]) : Waiting(u)' \/ Woken(u)'
         /\ frames[2].stage = "poll" => Pointers(frames[2]) = {}
    <2> SUFFICES ASSUME Len(frames) = 2
                 PROVE  /\ InLockQueue(current)'
                        /\ \A u \in Pointers(frames[2]) : Waiting(u)' \/ Woken(u)'
                        /\ frames[2].stage = "poll" => Pointers(frames[2]) = {}
        OBVIOUS
    <2>1. /\ InLockQueue(current)
          /\ \A u \in Pointers(frames[2]) : u \in Threads /\ (Waiting(u) \/ Woken(u))
          /\ frames[2].stage = "poll" => Pointers(frames[2]) = {}
        BY <1>1, WalkShape
    <2>2. current \in Threads /\ current' = current
        BY WakeFacts DEF Consistent, TypeOK
    <2>3. InLockQueue(current)'
        BY <2>1, <2>2, WakeFacts DEF InLockQueue
    <2>4. QED BY <1>5, <2>1, <2>3
<1>10. CASE frames' = g
    <2>1. Len(frames) = 2 => Apart(f)'
        BY <1>3, <1>4, <1>8 DEF Apart
    <2>2. Len(frames) = 2 => \A u \in Pointers(f) : Waiting(u)'
        BY <1>3, <1>4, <1>8 DEF Pointers
    <2>3. frames' = <<f>> \o Tail(frames)
        BY <1>10 DEF g
    <2>4. QED BY <1>1, <1>2, <1>3, <1>7, <1>9, <2>1, <2>2, <2>3, NewTop
<1>11. CASE WakeWaiter(t) /\ YieldsAgain(t, waitObj[t]) /\ frames' = <<NewFrame>> \o g
    <2>1. Len(frames) = 1 /\ InLockQueue(current)'
        BY <1>11, WalkNests
    <2>2. g \in Seq(Frame) /\ Len(g) = 1 /\ g[1] = f
        BY <1>1, <1>2, <1>3, <2>1, HeadReplaced DEF g
    <2>3. /\ DOMAIN frames' = {1, 2} /\ Len(frames') = 2
          /\ frames'[1] = NewFrame /\ frames'[2] = f
        BY <1>11, <2>2, NewFrameType, TwoFrames
    <2>4. Pointers(NewFrame) = {} /\ Apart(NewFrame)'
        BY NewFrameSound DEF Apart, NewFrame
    <2>5. (InLockQueue(current) /\ Apart(Top))'
        BY <2>1, <2>3, <2>4 DEF Top, Apart
    <2>6. (\A i \in DOMAIN frames :
             /\ frames[i].stage = "poll" => Pointers(frames[i]) = {}
             /\ \A u \in Pointers(frames[i]) :
                   Waiting(u) \/ (i = Len(frames) /\ Woken(u)))'
        BY <1>3, <1>7, <2>3, <2>4 DEF Pointers
    <2>7. QED BY <2>3, <2>5, <2>6 DEF WalkSound
<1>12. QED BY <1>1, <1>10, <1>11

LEMMA WalkSoundNext ==
    ASSUME Consistent, WalkTimes, WalkSound, [Next]_vars
    PROVE  WalkSound'
<1>1. clock \in Nat /\ clock' \in Nat /\ clock <= clock'
    <2>1. clock \in Nat
        BY DEF Consistent, TypeOK
    <2>2. QED BY <2>1, ClockAndWalk
<1>2. CASE UNCHANGED vars \/ Tick \/ Stopped
    BY <1>1, <1>2, SameWalks
    DEF vars, Tick, Stopped, Quiet, lockVars, waitVars, threadVars
<1>3. ASSUME NEW t \in Threads, JavaStep(t) PROVE WalkSound'
    <2>1. frames = <<>>
        BY <1>3 DEF JavaStep, EnterMonitor, BlockOnMonitor, ExitMonitor, Wait, Notify,
           Sleep, HandlePendingInterrupt, Yield, InterruptSleep, InterruptWait,
           InterruptPending, Start, Finish, BlockAsync, Running
    <2>2. frames' = frames \/ frames' = <<NewFrame>>
        BY <1>3, JavaFrames
    <2>3. QED BY <2>1, <2>2, WalkBegins
<1>4. CASE YieldStep
    <2>1. CASE BeginScan \/ NextList \/ SleepOver
        BY <2>1, WalkMoves
    <2>2. ASSUME NEW t \in Threads, StepOver(t) \/ EventArrives(t) PROVE WalkSound'
        BY <2>2, WalkMoves
    <2>3. ASSUME NEW t \in Threads, WakeSleeper(t) \/ WakeWaiter(t) PROVE WalkSound'
        BY <2>3, WalkWakes
    <2>4. ASSUME NEW t \in Threads,
                 \/ WaitingThreadNotInList(t) \/ WalkStrays(t) \/ Poll(t)
          PROVE  WalkSound'
        BY <1>1, <2>4, SameWalks
        DEF WaitingThreadNotInList, WalkStrays, Poll, UnblockVars, Quiet, lockVars,
            waitVars, threadVars
    <2>5. ASSUME NEW t \in Threads, Switch(t) PROVE WalkSound'
        BY <2>5, WalkBegins DEF Switch
    <2>6. CASE ReturnToScan
        BY <2>6, WalkReturns
    <2>7. CASE NoMoreThreads
        BY <1>1, <2>7, SameWalks DEF NoMoreThreads, Quiet, lockVars, waitVars, threadVars
    <2>8. QED BY <1>4, <2>1, <2>2, <2>3, <2>4, <2>5, <2>6, <2>7 DEF YieldStep
<1>5. QED BY <1>2, <1>3, <1>4 DEF Next

\* The walk over the timed-out threads nests at most once, and a thread that it points at
\* waits, or was woken by the walk nested in it: then it is queued on a lock, or is
\* active with a deadline that has passed.
THEOREM AlwaysWalkPointers == Spec => []WalkPointers
<1>1. Init => WalkTimes /\ WalkSound
    BY DEF Init, WalkTimes, WalkSound
<1>2. Consistent /\ WalkTimes /\ WalkSound /\ [Next]_vars => WalkTimes' /\ WalkSound'
    BY WalkTimesNext, WalkSoundNext
<1>3. WalkSound => WalkPointers
    BY DEF WalkSound, WalkPointers, Pointers, Woken
<1>4. QED BY <1>1, <1>2, <1>3, AlwaysConsistent, PTL DEF Spec

=============================================================================
