# pico-jvm in TLA+

Specifications of the parts of pico-jvm (a CLDC 1.1 Java virtual machine for the
Raspberry Pi Pico, with a Linux build) whose correctness depends on the order of events:
green threads and monitors, the choice of the next thread, the initialization of classes,
the garbage-collected heap, and the network natives that share their state with lwIP's
interrupts.

Paths: `vm/` stands for `src/lib/src/vm/`, `runtime/`, `natives/` and `memory/` for
those directories of `vm/share/`. `PROJECT.json` maps each definition to its lines.

## 1. The system

### How it fits together

One native thread runs everything. The C interpreter (`vm/cpu/c/Interpreter_c.cpp`)
executes the bytecodes of the *current* Java thread; every Java thread is a green thread
with a stack of its own in the heap. An operation that cannot finish calls
`Scheduler::yield`, which wakes threads whose timeout is over, polls the embedder for
events of blocked native calls, and picks the next thread; `switch_thread` then continues
that thread. On Linux a timer tick sets a flag and the interpreter yields at the next
branch or call (`Interpreter_c.cpp` 500-510, 2144-2152; `Thread::timer_tick`,
`runtime/Thread.cpp` 685-719). On the Pico there are no ticks: a switch happens only where
the running thread calls into the scheduler. A native method of `pico.*` runs to its end
without a switch; what interrupts it is lwIP, whose callbacks run in interrupt context
(`CMakeLists.txt` 171, `pico_cyw43_arch_lwip_threadsafe_background`).

As built: no isolates, debugger or compiler (`ENABLE_ISOLATES`, `ENABLE_JAVA_DEBUGGER`,
`ENABLE_COMPILER` are 0), CLDC 1.1 on (interrupts exist), master mode (the VM owns the
main loop), PRODUCT (`src/lib/CMakeLists.txt` 479: `GUARANTEE`s are not compiled).

### Components

| component | state it keeps | operations | hard behaviour | what makes it correct |
|---|---|---|---|---|
| Scheduler lists and wake-up walk (`runtime/Scheduler.cpp`) | active queues, sleep list, chain of wait lists, blocked list, `wakeup_time`, `wait_obj`, pending interrupts | start, end, sleep, wait, notify, interrupt, block, unblock, yield | a walk over lists that the walk itself changes; yields nested in the walk; idle sleep | each live thread is on one list; links are exact; timeouts end; no walk touches a thread that left |
| Monitors (`runtime/Synchronizer.cpp`, `lock_object`/`unlock_object`) | owner, queue of waiters, stack locks of frames | enter, exit, hand-over, the release in `wait` | hand-over against timeouts and interrupts; nested locks; end of a joined thread | exclusion, no lost waiter, the lock is back before `wait` returns |
| Run queues (`Scheduler::get_next_runnable_thread`) | list per priority, bit mask, cached next thread, execution counts, last queue | add, remove, set priority, search | stale bit mask or cache; quotas that skip every list; starvation | mask = lists; the search succeeds; priority is respected up to quota; threads that yield share |
| Thread natives (`natives/Natives.cpp`, `runtime/Thread.cpp`) | thread status | `yield`, `setPriority`, `interrupt`, end of `run` | unsynchronized `setPriority`; joiners | with the two above |
| Native blocking (`natives/sni.cpp`) | blocked threads and re-entry data | block, unblock, poll | events between the poll and the idle sleep | as the scheduler lists |
| TCP and UDP sockets (`src/src/pico/NetNatives.cpp` 50-669) | 8 slots: state, pcb, receive ring, one datagram | connect, send, receive, close, bind | callbacks between any two steps of a native | bytes once and in order; end of stream last; slots and pcbs paired |
| MQTT client (`NetNatives.cpp` 676-1160) | 2 contexts: answers, one message buffer | connect, publish, subscribe, receive, disconnect | callbacks; connection lost while waiting | whole messages; answers to their own requests; calls return |
| Object heap (`memory/ObjectHeap.cpp`, the natives of `WeakReference`) | cells of two generations, bit vector, marking stack, finalizer lists, array of weak references | allocate, store, mark, rescan, finalize, clear, compact, collect again | old objects that point to young ones; overflow of the marking stack; finalizers that let objects go; the order of finalizers and weak references | nothing reachable is lost; weak references are cleared in time; memory is refused only when it is gone; a collection ends |
| Class initialization (`java/lang/Class.java` 359-411, `vm/share/handles/InstanceClass.cpp`, the test in the bytecodes) | status bits, initializing thread, the lock of the class | the 11 steps | status set without the lock; waiting threads; initializers that need each other, or throw | once, by one thread, superclass first; no wake-up lost; every use ends |
| WiFi natives, hardware natives, clock | the drivers' | single driver calls | - | not modelled |
| Flash and SD files (`FSNatives.cpp`, `SDNatives.cpp`) | descriptor tables | open, read, write, close | partial failure of mount and open | planned (section 9) |
| Desktop sockets (`natives/BSDSocket.cpp`) | select sets | poll | Linux only | planned with native blocking |
| Interpreter bytecodes, class loader, verifier, romizer, Java library | - | - | sequential | not modelled (section 8) |

Interactions: the interpreter calls Synchronizer for contended locks; Synchronizer calls
`Scheduler::wait_for` and `signal_lock`, the scheduler calls Synchronizer when it wakes a
waiter; both change the run queues through `add_to_active` and `remove_from_active`. The
socket and MQTT natives share `sockets[]` and `mqtt_clients[]` with lwIP's callbacks and
call lwIP between `cyw43_arch_lwip_begin` and `_end`. They do not call the scheduler: a
blocking network call holds up every Java thread. Class initialization is Java code,
`Class.initialize`, called by the interpreter; it uses the monitors like any other Java
code. The collector runs inside an allocation, with every thread stopped; a collection
that was asked for by an allocation runs finalizers before it decides whether it freed
enough.

## 2. Modules

| module | content |
|---|---|
| `Scheduler` | lists, monitors, wake-up walk with nesting, idle loop, clock: the core |
| `JavaMonitors` | abstract monitors: owner, contenders, wait set. `Scheduler` implements it |
| `RunQueue` | the choice of the next thread in full detail |
| `ClassInit` | `Class.initialize` from call to call, on an instance of `JavaMonitors` |
| `JavaClasses` | abstract initialization: linked, begun, running, and for good. `ClassInit` implements it |
| `ObjectHeap` | allocation, write barrier and the mark-compact collector with two generations |
| `JavaObjects` | abstract heap: a graph of objects, weak references, a collector of which one sees what it takes. `ObjectHeap` implements it (`HeapRefined`) |
| `NetSockets` | sockets: natives as step sequences, callbacks between the steps |
| `Mqtt` | MQTT client, in the same style |
| `ListFacts` | lemmas on sequences used as lists |
| `SchedulerProofs` | the inductive invariant of `Scheduler` and its consequences; that it implements `JavaMonitors`; what one step may do to a lock and to a waiting thread; what a walk points at |
| `JavaMonitorsProofs` | the abstract monitors exclude each other's owners |
| `RunQueueProofs` | mask, lists and cache agree; the search is complete and respects priority |
| `ClassInitProofs` | the inductive invariant of `ClassInit`, and that it implements `JavaClasses` |
| `NetSocketsProofs` | the ring, the end of a stream, the slots and datagrams, for every interleaving with lwIP |
| `MqttProofs` | order, wholeness, answers and accounting of the MQTT client |
| `ObjectHeapProofs` | marking is exact, finalizers are found, memory is refused only when it is gone, a collection ends, and `ObjectHeap` implements `JavaObjects`, for every heap |
| `MC*` and `.cfg` | instances for TLC |

`Scheduler` leaves out the *order* of active threads (any active thread may be next), and
`RunQueue` leaves out *why* a thread becomes active or stops being so. Each is sound for
the other: every choice of `RunQueue` is one `Scheduler` allows, and everything
`Scheduler` does to the active threads is one of `RunQueue`'s `MakeActive`, `WakeUp`,
`Leave`, `Yield`.

### Scheduler

| state | code |
|---|---|
| `frames` | stack of the activations of `yield`; each has `this_thread` (`th`), `next_waiting` (`nw`), the sampled `time`, and whether it is polling or walking |
| `active` | threads on some priority list |
| `sleepers` | list from `scheduler_waiting->_next` |
| `waitChain`, `waitList` | wait lists hung from each other by `_next_waiting` of their heads |
| `owner`, `lockWaiters` | `StackLock::_thread`, `_waiters` |
| `depth` | stack locks of a thread's frames for an object: the real one counts recursion, the others are null-owner locks |
| `waitObj`, `wakeupTime`, `pendingInterrupt`, `async`, `status`, `clock` | fields of the same name, blocked list, `ThreadObj` status, `Os::monotonic_time_millis` |

A list of the code is a sequence. The three kinds of links (`_next`, `_next_waiting` of a
list head, `_next_waiting` of a lock waiter) are *computed* from the sequences (`NextOf`,
`NextWaiting`, `ChainHead`), each where the code reads it: what the walk reads before it
wakes a thread, and uses after, is kept in its frame.

Java operations are actions of the running thread and are atomic, as in the code: nothing
else runs until they yield. `yield` is not atomic, because of the nested walk, so each
iteration of `wake_up_timed_out_sleepers` is an action. `halted` says why the model goes no
further: the VM has ended (`exit`), `remove_waiting_thread` was called for a thread in no
list (`fault`), or the walk has followed `_next` of a thread that a nested walk has made
active (`WalkStrays`): this is the circular list of its priority, and the walk goes round in
it for ever (`endless`) or takes one of its threads for a timed-out one (`fault`).

### RunQueue

`queue` per priority, `valid` (`_priority_queue_valid`), `next` (`_next_runnable_thread`),
`lastQueue`, `executed` (`_executed_thread_count`). `Dispatch` is
`get_next_runnable_thread` whole: start at the last queue, rotate when the yielding thread
is the head, skip lists over their quota, reset the counts and repeat when all are.
`SetPriority` (the native writes the priority before the scheduler moves the thread) and
`MoveToPriority` are as in the code.

### ClassInit

`ClassInit` stands on `JavaMonitors`, not on `Scheduler`: what it needs of monitors is what
the run `monitors` shows that the scheduler provides, so the two compose without exploring
their product.

| state | code |
|---|---|
| `status`, `thread` | `Class.status`, as the set of its bits, and `Class.thread` |
| `calls` | per thread, its nested calls of `initialize`: the class, the place it has got to, and whether it ends with an exception |
| `owner`, `entrySet`, `waitSet`, `depth` | the lock of each class, see `JavaMonitors` |

A thread may be switched at each method call and each `monitorenter`, so an action goes
from one call to the next. Steps 1 to 11 of the comments in `Class.java` are the actions
`Step1` to `Step11`. Step 7 may push a call for the superclass, `Use` one for any class
that a static initializer uses; a call that returns hands an exception to the `catch` of
its caller. Verification is a step that may throw.

### ObjectHeap

| state | code |
|---|---|
| `mem`, `root` | the objects up to `_inline_allocation_top`, oldest first, and which of them is the thread's stack |
| `oldEnd`, `youngEnd`, `full` | `_old_generation_end`, `_inline_allocation_end`, where `_collection_area_start` is |
| `bits`, `overflow` | the bit vector (marks of headers, remembered slots of the old generation), `_marking_stack_overflow` |
| `table` | the array of weak references |
| `list`, `pending` | `_finalizer_reachable`, `_finalizer_pending` |
| `phase`, `resume`, `need`, `round`, `wasFull` | where `collect` and `internal_collect` are |

Each object takes one cell, so a full heap and a marking stack that overflows appear with
few objects: as in the code the stack gets the room that is left in the heap, with a
minimum (`MinStack`). A phase of a collection is one action; within it marking is computed
object by object with the stack (`MarkAndPush`, `ContinueMarking`), because what overflows
depends on that order. Of a bit word `mark_and_stack_pointers` (`ObjectHeap.cpp` 2283-2323)
pushes the pointers of all remembered slots before `continue_marking` empties the stack;
`MarkSlots` follows them one at a time. The marked objects are the same: the stack of the
model is emptier there and overflows later, which the rescans make up for in both, and the
properties and theorems hold for every `MinStack`. The program does what an interpreter does to the heap: allocate,
load, store, drop, make and use weak references, `System.gc`.

### NetSockets and Mqtt

`call` is the native in progress with its program counter; `slots`/`ctx` are the C
tables; `pcbs`, `pbufs` and `lwip` are lwIP as far as the natives see it (external:
lwIP is not in the repository). A step of a native is one access to what the callbacks
also touch; a section under the lwIP lock is one step; a callback is one step. Bytes
and messages are numbered so that loss, repetition and mixing show. `stream` and
`delivered` observe what Java got and are read by no action.

`Errs` is what lwIP may pass as `err` to `on_tcp_connected` and with bytes to `on_tcp_recv`.
lwIP as it is passes `ERR_OK` ("ok") to both; its interface allows an error, and the code has
a branch for one (169-172, 186-191), which sets the state to an error and leaves the slot its
pcb. The run `sockets` and the theorems have these branches, and with them the abort of a
failed `tcp_connect` (391-395); the runs `null_pcb` and `lost_bytes`, which show what goes
wrong, have `ERR_OK` only. A failed connect is three steps: the test of the pcb
(`ConnectFails`), the abort under the lock (`ConnectAbort`; `tcp_abort` calls `on_tcp_err`
before it returns) and `free_socket` (`ConnectFree`). Where a native tests the state and then
the pcb without the lock (389 and 391, 415), the two reads are one step: a state
that has become an error stays one, and the pcb decides what is called. Bytes that arrive with an error
(`on_tcp_recv_error`) are freed and get no number; that lwIP keeps data for which a callback
returns an error is not modelled. A native that passes lwIP a null pcb (`PassNull`) is not
followed further.

Resolving names, calls that fail at once without keeping anything, and the contents of
what is sent are left out; so is a `receive` into an empty array, whose result 0 says
nothing.

## 3. Runs

All with the bounds in the `.cfg`, deadlock checked unless said otherwise.

| run | question | instance |
|---|---|---|
| `monitors` | do the lists stay a partition, the chain exact, the walk's pointers and its nesting explained; is hand-over first come first served (`LockQueueServed`, `LockHandOff`); does a wait end only for a reason; does the scheduler implement `JavaMonitors` | 3 threads, 2 objects, timeouts of 1 and 2, a clock of 3, `FewAtOnce`, symmetric |
| `nested` | is the monitor held with all its locks again (`MonitorHeld`), does the invariant of the proofs hold, do sleeps and timed waits end, does every queued thread get its lock | 2 threads, 1 object that is `t1`'s Thread object, 2 nested locks, fair |
| `stale_walk` | **violated**: is a timed-out thread that the walk reaches in a list | 3 threads, 2 objects, one timeout, symmetric |
| `queues` | are mask, lists, cache and quotas consistent, is the search complete, is priority respected, do threads that only yield all run | 3 threads, 2 priorities, fair |
| `classes` | is nobody who waits forgotten, does a call return only with a usable class, does the invariant of the proofs hold, does `Class.initialize` implement `JavaClasses`, does every use end | 3 threads, a class and its superclass whose initializer uses the class, fair |
| `heap` | is exactly the right set marked, are all finalizers found, is memory refused only when it is gone, does a collection come closer to its end with each step, does the heap implement `JavaObjects` | 2 objects, 2 weak references, 2 variables, 4 cells |
| `unconstructed` | **violated**: does a finalizer give back only what a constructor took | as `heap`, constructors may be abandoned |
| `sockets` | ring, end of stream, callbacks and their slots, nothing leaks, connect and receive return | 2 slots, 2 connections, ring of 3, 3 bytes, 2 datagrams, errors passed to callbacks, fair |
| `null_pcb` | **violated**: is lwIP never given a null pcb | 1 slot |
| `lost_bytes` | **violated**: is nothing that arrived lost | 1 slot |
| `mqtt` | order, wholeness, answers, accounting, and do connect and a receive with a timeout return | 2 clients, 2 messages, buffer of 2, fair |
| `torn_message` | **violated**: is a payload that of its topic | 1 client |

**Why the bounds are enough.** The pointers of the wake-up walk concern the thread in
hand, the next of its list and the head of the next list: three threads on two objects
give a list with a successor and a following list, heads that are removed in the middle
of the chain, and a nested walk that removes what the outer one points at. Time is
compared with deadlines only, but a nested walk samples a later time than the walk it is
nested in, and a deadline may lie between the two: that takes timeouts of one and two
milliseconds and a clock of three. `FewAtOnce` keeps that instance small: one thread at a
time has an interrupt pending or is in native code, and an interrupt is pending only in the
first millisecond. Without it the instance has 2.5 million states and the invariants hold as
well. Hand-over order
needs a queue of two and an owner, three threads. The search of `RunQueue` distinguishes
the last queue, queues above and below it: with two priorities each of them is the last,
the upper and the lower one in turn (the proofs hold for any number). Three threads on a
class and its superclass give every relation of a call to the one below it, two threads that
wait when the third fails, and initializers that wait for each other. Four cells for a stack and four objects: the heap is full before every
object exists, dead objects lie below, between and above live ones, both generations are
non-empty, and more objects are marked than the smallest marking stack takes. What this
instance does not reach: an overflow of the marking stack in a collection of the young
generation, and while the objects to be finalized are marked (a WeakReference has no fields
there). Rings wrap with three cells
(two usable) and overflow with a third byte, as 5840 bytes overflow 2047; a slot is reused
with two connections on it. MQTT messages are shorter and longer than the buffer.
`MaxClock`, `MaxDepth`, `Pcbs`, `MaxSent`, `MaxLen`, `Datagrams`, `Messages`
and `Timeouts` bound what TLC explores; they are not limits of the code.

Symmetry is used for runs without liveness only. Deadlock is not checked for the network runs
because there the VM may stop (`udp_receive` waits without a timeout for a datagram that
need not come), nor for `classes`, where static initializers that need each other can
really wait for each other for ever; `EveryCallEnds` says that nothing else can stop them.

## 4. Fairness

- `WF(Tick)`: time passes. `WF(YieldStep)`: a yield that was begun goes on (it is C code
  on the only thread).
- `WF(Yield(t))`: a running thread yields again and again. On Linux timer ticks force it;
  on the Pico it is an assumption about the program, which the liveness results inherit.
- `SF(Switch(t))`: a thread that is active again and again is chosen again and again.
  This is what `RunQueue` provides among threads that yield (`YieldersShare`), and does not
  provide against a thread of higher priority that sleeps and wakes (section 6); the runs of
  `Scheduler` are about lists and locks, given a fair choice. `RunQueue` itself assumes only
  that a running thread yields and that a yield ends.
- `SF(ExitMonitor(t, o))`, also for the outermost region alone: a program leaves its
  synchronized regions. Without it nobody could promise a lock, and with the first alone
  a thread could enter and leave an inner region for ever and keep the outer one.
- `LockGranted` also presumes, in the formula, that blocked native calls return.
- `ClassInit`: every thread runs on in its innermost call, which says also that a static
  initializer ends; and `SF(GetsLock(t))`, of the threads that contend for a lock each gets
  it, because the scheduler hands a lock over in the order of its queue (`LockHandOff`,
  `LockGranted`).
- `ObjectHeap` needs none: that a collection ends is a variant (`Left`) that each of its
  steps lowers, `CollectionAdvances`, which is proved too (`AlwaysAdvances`).
- `NetSockets`, `Mqtt`: a native runs on; lwIP answers a connect (it retransmits and then
  gives up) and, while connected, a request (it has a timeout). No fairness for what a
  peer sends.

## 5. Proofs

`SchedulerProofs` proves for every set of threads and objects, every clock and nesting
bound, every assignment of Thread objects:

| theorem | |
|---|---|
| `AlwaysConsistent` | the inductive invariant holds |
| `AlwaysTypeOK`, `AlwaysOnePlace`, `AlwaysWaitChainExact`, `AlwaysMonitorHeld`, `AlwaysLockQueueServed` | its consequences, each checked by a run |
| `MonitorsRefined` | the scheduler implements `JavaMonitors` |
| `LockAlwaysHandedOff` | `LockHandOff`: a lock with a queue goes to the first thread of the queue |
| `WaitAlwaysEndsForAReason` | `WaitEndsForAReason`: a wait ends only by notify, deadline, interrupt or the end of the joined thread |
| `AlwaysWalkPointers` | `WalkPointers`: walks nest at most once, and what has become of a thread that a walk still points at |

`JavaMonitorsProofs` proves `AlwaysExclusion`: in the abstract monitors an owner neither
contends nor waits, nobody contends for a free object, and locks belong to exactly the
threads that own, contend or wait. `TypeOK /\ Exclusion` is inductive. With
`MonitorsRefined` this is what the scheduler promises to Java code.

`RunQueueProofs`, for every set of threads and priorities and every number of slots:

| theorem | |
|---|---|
| `AlwaysQueuesConsistent` | bit mask, lists, priorities and the cached thread agree |
| `AlwaysTypeOK` | the counts stay at most one above their quota |
| `SearchAlwaysComplete` | a yield goes idle only when no thread is active |
| `PriorityAlwaysRespected` | a higher queue is passed over only when its quota is used up; a thread follows itself only when it is alone on its list |

`ClassInitProofs`, for every set of threads and classes, every superclass relation and all
that static initializers use:

| theorem | |
|---|---|
| `AlwaysConsistent` | the inductive invariant holds |
| `NoLostWakeUp` | `WaitersRemembered`: whoever waits has another that will notify |
| `ReturnsOnlyInitialized` | a call that returns normally leaves a usable class |
| `ClassesRefined` | `Class.initialize` implements `JavaClasses` |

`NetSocketsProofs`, for every number of slots, pcbs and datagrams, every size of the ring and
of the window, and any segments that peers send, with
or without errors passed to the callbacks:

| theorem | |
|---|---|
| `AlwaysInv`, `AlwaysTypeOK` | the inductive invariant; indexes stay inside the ring |
| `RingAlwaysFaithful` | `RingFaithful`: what was taken over is what was returned, then what is in the ring |
| `EofAlwaysTheEnd` | `EofIsTheEnd`: a receive that reports the end has returned everything |
| `CallbackAlwaysOwnsSlot` | `CallbackOwnsSlot`: no callback finds a later user of its slot |
| `NothingEverLeaks` | `NothingLeaks`: slots and datagrams are accounted for |

`MqttProofs`, for every number of handles, every size of the buffer and all messages:

| theorem | |
|---|---|
| `AlwaysInv`, `AlwaysTypeOK` | the inductive invariant; no payload runs past the buffer |
| `MessageAlwaysWhole` | `QuietMessageWhole`: a ready message that no other has followed is whole |
| `AlwaysDeliveredInOrder` | `DeliveredInOrder`: in order, none twice, each with its own length |
| `AnswerAlwaysOwn` | `AnswerIsOwn`: a request returns on its own answer |
| `ContextsAlwaysAccounted` | `ContextsAccounted`: no context is lost |

`ObjectHeapProofs`, for every number of objects, fields and variables, every size of the heap,
of the young generation and of the marking stack:

| theorem | |
|---|---|
| `AlwaysInv`, `AlwaysTypeOK` | the inductive invariant; every address is that of a cell |
| `MarkingAlwaysExact` | `MarkingExact`: before a compaction exactly what can be reached is marked |
| `FinalizersAlwaysFound` | `FinalizersFound`: what is pending is what nothing else keeps alive |
| `MemoryAlwaysServed` | `MemoryServed`: no OutOfMemoryError before memory is gone, and room after a collection for it |
| `HeapRefined` | `ImplementsJavaObjects`: the heap implements `JavaObjects` |
| `AlwaysAdvances` | `CollectionAdvances`: each step of a collection lowers `Left` |

All rest on the assumptions of the modules about their constants (`ThreadsAssumption`,
`ObjectsAssumption`, `ThreadObjAssumption`, `BoundsAssumption` of `Scheduler`,
`ThreadsAssumption` and `PrioritiesAssumption` of `RunQueue`, `ClassAssumption` of
`ClassInit`, `SocketAssumption` of `NetSockets`, `MqttAssumption` of `Mqtt`, `HeapAssumption` of
`ObjectHeap`), which TLC
evaluates in each of their runs: null is no thread, object, class, pcb or datagram; timeouts
are positive naturals; priorities are slots; a ring has at least two cells; numbers of
messages and lengths are naturals; a heap has room for the stack and the first object.

**The argument for `Scheduler`.** No part is inductive alone. `OnePlace` needs to know, when a thread
leaves a wait list, that it is on no other: only `waitObj` says which one it is on, so
`WaitChainExact` comes in, and `OnePlace` is restated through `waitObj` as `Places`.
Handing a lock over in `Unlock` gives it to the head of the queue: that this thread then
holds it (`MonitorHeld`) needs that it has locks to get back (`HeldWhileWaiting`), and
that no waiter is left on a free lock (`LockQueueServed`) when `Reenter` finds it free.
That the running thread is on no waiting list when it begins to wait needs
`RunningIsActive`. `TypeOK` includes the frames, since what the walk reads must be a
thread: `NextOf`, `NextWaiting` and `ChainHead` take heads and successors, so it needs
non-empty lists on the chain (`WaitChainExact`). `Consistent` is the conjunction. It has
one lemma per action or group of actions with the same effect (`WaitStep`,
`ExitMonitorStep`, `ReenterStep` for all ways to wake waiters...), on top of lemmas about
the shared pieces (`UnlockFacts`, `ReenterFacts`, `LeaveFacts`) and about lists
(`ListFacts`: append, tail, removal, concatenation keep elements and injectivity).
`NextConsistent` joins them. `Consistent` is also checked by the run `nested`.

The refinement is the identity on owner and depth, and lists become sets. `UnlockHandsOver`
shows that `Unlock` is the abstract hand-over, `ReenterStopsWaiting` that `Reenter` with
`LeaveWaitList` is one `StopWaiting`, whether a notify, an interrupt, a timeout or the end of
a thread caused it; every step that is no `MonitorOperation` stutters. Both need `Consistent`:
a thread that is granted a free lock is the only owner because nobody queues on it, and the
running thread is `Free` because it is in no list. `LockHandOff` follows from
`LockQueueServed`. `WaitEndsForAReason` needs one more invariant, `WalkTimes`: the time a walk,
also a suspended one, compares deadlines with is a time that has passed.

**The argument for the walk.** `WalkPointers` says nothing of why walks nest only once. A walk
that wakes a waiting thread yields again only for the *current* thread, and only if that
thread must queue for its monitor; it is then on a lock queue until the nested yield is over, so
the nested walk never wakes it. That is `InLockQueue(current)` in `WalkSound`. Nothing else
suspends a walk, so what the *innermost* walk points at is waiting: it has only `Apart` to
keep, that its rest is in the list of `this_thread` and in later lists, so that the thread it
wakes is not the one it goes to next (`AfterInList`, `NextOfPointer`,
`NextWaitingPointer`). For the outer walk a thread may have been woken meanwhile (`Woken`).
`WalkSound`, with `WalkTimes` and `Consistent`, is inductive; `WalkNests` and `WalkWakes` are
the steps that push a frame and that wake a thread.

The first attempt at this proof failed, for a reason: `WalkPointers` used to say that the woken
thread is one the outer walk takes for timed out. The nested walk samples the clock again,
later, and may wake a thread whose deadline the outer walk does not know to be over. With
two timeouts and a clock of three milliseconds TLC shows it, which one timeout did not. The
model was wrong there too: it let the outer walk step over such a thread to the end of a
wait list, while in the code its `_next` already leads round the active threads. Hence
`WalkStrays`, and the second half of finding 1.

`Consistent` holds even in the behaviour of finding 1: there the walk reaches a thread
that is rightly elsewhere, and the model stops before the code would corrupt a list.

**The argument for `RunQueue`.** `TypeOK /\ QueuesConsistent` is inductive; the proofs restate
it as `Inv` over the lists (`WellPlaced`, `On`, `NonEmpty`), so that the lemmas about adding,
removing and turning a list (`AddedFacts`, `RemovedFacts`, `FromFacts`) serve every action,
also those that change lists twice before they look at them. `PickFacts` is the search: when
the mask is exact, the start at the last queue excludes nothing (`NoHigher` is only true
when no higher queue has threads), and a set of priorities has a highest one
(`HighestExists`, from the library's well-founded induction). The two action properties
follow from `Inv` in the state before the step.

**The argument for `ClassInit`.** `Consistent` joins what the locks say (`Exclusion`, proved in
`JavaMonitorsProofs` and used through its instance, and `LocksHeld`: who holds or wants the
lock of a class is at a place in a synchronized region of it), what a call may assume of the
status of its class (`CallsInStep`), that one call has the initialization of a class in hand
(`OneInitializer`), that outer calls wait at the superclass or in the static initializer
(`CallsNested`), that a call about to return may (`ReadyToReturn`), and `WaitersRemembered`.
The step that matters is `Step10`, which writes status and thread without the lock: that
nobody else writes them meanwhile follows from `OneInitializer`, and that a thread on its way
to `wait` is not missed from `WaitersRemembered`, which counts a call at `relock` as one that
will notify. The refinement maps a class to the stage of the call that initializes it
(`Stage`); `StageOfCall` computes it from that call, `QuietMove` shows that a step which
changes neither status nor stage is a stutter, and each of `Claim`, `Step8`, `Done`, `Throw`,
`Leave` with an exception, `Step10` is the step of `JavaClasses` it should be.

**The argument for `NetSockets`.** A property of the ring is a property of a native that is
half done: between reading the count of bytes and copying them a callback may append, set the end or
the error, and `tcp_receive` holds results of its earlier reads. So `Inv` has, besides
`NothingLeaks`, a part for each place of a native (`CallOK`: bytes that were seen are still
there, an end that was seen stays; the copied bytes are still the first in the ring), one for each slot
(`SlotOK` with `Ring` and `Owned`) and one for each pcb (`PcbOK`: its callback argument is the slot that
holds it, and the end of the stream came over it). The ring arithmetic is in lemmas of its
own (`Positions`, `FilledRing`, `AdvancedRing`, ...): the contents as a sequence, and what appending at the head and dropping at the tail
do to it modulo the size. `CallOK` must remember that `tcp_close`
has cleared the callback argument although the pcb is still in the slot, and that a failed
`tcp_connect` has no pcb any more when it frees the slot. A slot in the error state may still
have its pcb, whose callbacks go on (`RecvErrorStep`); while a connection is being set up it
has not failed (`PcbOK`), so that no callback takes an error back that `tcp_receive` has seen.

**The argument for `Mqtt`.** `Inv` follows a message: while it arrives the part that fits is at
the front of the buffer (`Arriving`); when it is ready it is whole unless another has begun
(`Ready`); what was delivered is older than what is ready or arriving (`Delivered`). `CallOK`
keeps what `mqtt_receive` has read from one step to the next: a callback may overwrite the
payload of a ready message (finding 5) but neither its length nor its topic. `Requested` says that
lwIP has at most the request of the native in progress, because the native waits for the
answer before it returns: so the flag that was cleared under the lock is set by that answer only.

**The argument for `ObjectHeap`.** Marking recurses over the memory, but the model writes it with
recursive functions and folds, and for these `ListFacts` has what is needed (`RepeatExists`,
`FoldExists`, `StepByStep`: the function exists, and induction up to n is a set of numbers
that contains its successors). So marking is proved once, for a marking state: `Pushed` is what following
the fields of one object does, `Following` is kept by each object popped and what is left to do
(`Room`: objects not yet marked, and those on the stack) gets less, and when the stack is
empty `MarkedFrom` holds: everything marked can be reached from the roots, the roots
are marked, and if the stack did not overflow so is all that the newly marked refer to.
`MarkedFrom` composes, so each phase adds its roots to it.

What can be reached is, in the proofs, the least closed set (`Reached`); `ClosureIsReached`
shows that `Closure`, which iterates as often as there are cells, computes it: a set that is not yet closed
grows, and there are only so many cells.

`Inv` says phase by phase what has been marked (`MarkOK`). While objects are left behind by an
overflow only soundness is known (`Started`); completeness (`Followed`) comes with the rescan
that does not overflow. Between collections the remembered set (`BitsOK`) is what a young collection needs:
every field of an old object that refers to a young one has its bit. The execution stack is the exception:
a store into a variable sets no bit, so while the program runs nothing is known of the slots of an old stack, and
`Collect` sets them; `Boundary` takes them away again when the young generation is reused.
`ListOK` has the order by age (`Decreasing`) that lets the search for finalizers stop; `WeakOK` that an
entry of the array of weak references belongs to one object, on one of the two lists, so that its
finalizer gives back its own entry. `FullOK` follows the loop of `collect`: after a full collection
all that has a finalizer can be reached; a second one that finds no finalizer leaves nothing that the program
cannot reach; this is why OutOfMemoryError is justified then and not before.

`Compact` is the step where everything moves. `PlaceFacts` and `SourceFacts` show that `Place` is an
injection of what is kept onto the cells up to the new top, in order; `MovedFacts` that an object refers to the same ones
afterwards (`MovedRight`), although in the part that stays only slots with a bit are updated: a slot without
one refers to something that does not move. Then each part of `Inv` is carried along
`Place` (`CompactKeeps`), reachability too.

**That `ObjectHeap` implements `JavaObjects`.** The mapping names objects, not addresses: the object of
a cell, its fields, the variables, the referents, the objects with a finalizer to run. A second
invariant, `JavaOK`, has what it needs beyond `Inv`: no reference and no weak reference points at the stack;
the finalizers on the two lists are distinct, and are those of weak references; once the weak references have been
cleared, none points at an object that is to be finalized; and those objects are out of the program's reach until
they have been. `Seen` says the mapping cell by cell, so that each operation is compared in the cells it touches.
Marking, discovering and rescanning are stutters. Clearing weak references takes away only referents that cannot be reached
(`MarkingExact` again). A compaction moves what it keeps one to one (`Slid`); such a move changes no name
(`SlidIsSeen`), and what it drops is out of reach: the step is `Reclaim` of `JavaObjects`.

**That a collection ends.** `Left` has three digits: collections still to come, phases still to come,
and what is left of the phase (twice the cells that are not marked and one for the overflow, or the
pending finalizers). `Rounds` says that every collection after the first is full, so there are at most three. A
rescan that ends in an overflow again has marked at least one cell more (`RescanMarksMore`): the stack is empty when it starts,
so it is filled only by cells that were not marked. The lower digits never reach the base (`StepsBound`,
because the pending finalizers are distinct: `JavaOK`).

**Only model-checked:** liveness (`TimeoutEnds`, `LockGranted`, `YieldersShare`,
`EveryCallEnds`, `NativesReturn`), which with fairness is outside what the proof system does.
All other properties of the passing runs are theorems.

## 6. Findings

1. `stale_walk`: the walk keeps pointers across `notify_wakeup`. When the thread it wakes
   is the current one and must queue for its monitor, `wait_for` yields and the nested
   walk may wake what the outer walk points at. `remove_waiting_thread` is then called for
   a thread in no list: the `GUARANTEE`s at `Scheduler.cpp` 525, 537 and 565; in the
   product build the lists are relinked from the wrong place. When the thread's deadline lies
   between the times that the two walks have sampled, the outer walk does not remove it
   but follows its `_next` (724) round the active threads (`WalkStrays`).
2. `unconstructed`: a WeakReference has a finalizer from its allocation on, and its
   `referent_index` is 0 until the constructor runs. When the argument of the constructor
   throws, the finalizer takes 0 for an index it must give back (`Natives.cpp` 1489): the
   `GUARANTEE` "Invalid global reference type" (`ObjectHeap.cpp` 1423).
3. `null_pcb`: `tcp_send` and `tcp_close` test the pcb before they take the lwIP lock. So does
   the abort of `tcp_connect` (391, 393), which is reached only if lwIP passes an error to
   `on_tcp_connected`; the run shows the first two.
4. `lost_bytes`: bytes beyond the ring are freed although TCP acknowledged them; the
   window is larger than the ring and is opened when bytes are copied, not when read.
5. `torn_message`: the "double buffer" of the MQTT client is one buffer; a message that
   is ready gets the payload of the next one.

Also seen: `MQTTClient.java` 160 documents timeout 0 as non-blocking, `mqtt_receive` gives
up only if `timeoutMs > 0` (`NetNatives.cpp` 1079) and so waits for ever; publish,
subscribe and unsubscribe wait for an answer without looking at the connection (956, 1003,
1047), and wait for ever if lwIP drops the requests of a connection that is lost;
`TCPSocket.java` documents -1 for a closed connection, `tcp_receive` returns 0
(-1 becomes an exception); `MQTTClient.java` speaks of a "native ring buffer", there is
one message; `allocate_blocked_threads_buffer` grows a buffer that has the size asked for.

The comments at `Scheduler.cpp` 247 and 305 promise no starvation, but a thread of higher
priority that wakes at each yield of one thread, and sleeps, keeps that thread at the head
of its list (the rotation at 2268 needs the yielding thread on the list that is searched):
its peer never runs. `YieldersShare` therefore speaks of threads that only yield.

`WeakReference.java` 31-38 says that a weak reference is cleared when its referent is
weakly reachable; one to an object that only a finalizable object keeps alive is cleared a
collection later, since only the finalizable objects themselves lose their mark before the
weak references are looked at (`ObjectHeap.cpp` 2475-2487). If memory is short when step 11
of `Class.initialize` takes the lock, `monitorenter` throws OutOfMemoryError and
`notifyAll` is skipped: the waiting threads wait for ever. Deadlocked initializers of a class
and its superclass are possible, as the Java Language Specification allows.

## 7. Hazards and mutants

`PROJECT.json` lists what is hard to test in this code, with the line and the properties
that watch it, and for each property a plausible wrong version of a definition that
violates it. The wrong versions stand beside the right ones in the modules
(`NewOwnerLast` before `NewOwner`); the specifications do not use them.

Two hazards have no property: the wait for the answer to an MQTT request (it does wait for
ever, section 6), and a failed allocation in step 11 (the same). The growth of the buffer of
blocked threads belongs to a mode no module covers.

## 8. Not modelled

- Two hundred sequential bytecodes, class files, the verifier and the romizer, most of the
  code by lines: sequential code over raw memory, whose errors a model that abstracts the
  data would not see.
- Of the heap: strong and soft references, whose array is handled as that of the weak ones;
  near objects and class objects; growing and shrinking, which the Pico's fixed heap never
  does; the layout of objects, and the cons cells of the finalizer lists.
- Of class initialization: allocation failures inside it, and system classes, which are
  initialized before there is a second thread.
- Isolates, debugger, compiler: not in the build. The compiler area of the heap with them.
- Where the interpreter keeps stack locks in a frame (`Interpreter_c.cpp` 1037-1107), and
  the monitors of interned strings (a proxy object per string): planned.
- The resolver's flag (`NetNatives.cpp` 152) and the pool of pbufs: lwIP's side.
- WiFi and hardware natives, clock and sleep: single calls of drivers.
- The Java library: sequential code above the natives.

## 9. Plan

In this order, most important first; done: 1-10.

1. `Scheduler` with runs; 2. `JavaMonitors`, the refinement, `Exclusion`; 3. `RunQueue`;
4. `SchedulerProofs`; 5. `NetSockets`; 6. `Mqtt`; 7. `ObjectHeap` and
`JavaObjects`; 8. `ClassInit`, `JavaClasses`, `ClassInitProofs`; 9. `RunQueueProofs`.

10. `AlwaysWalkPointers`, `NetSocketsProofs`, `MqttProofs`, `ObjectHeapProofs` with
    the refinement of `JavaObjects`.
11. `BlockedThreads`: the buffer of blocked threads, `get_blocked_threads`, the poll of
    `BSDSocket.cpp`, master and slave mode; composed with `Scheduler`'s `BlockAsync`,
    `Poll`, `EventArrives`.
12. `FrameLocks`: stack locks in frames, unlocking by exceptions, interned-string proxies;
    shown to implement `depth` and `owner` of `Scheduler`.
13. `Files`: descriptor tables of flash and SD in front of a file system that may fail.
14. An abstract `ByteStream` (bytes in order, an end) that `NetSockets` implements when
    the window is no larger than the ring.

One run asks all the questions of one instance that pass; a component that is added joins
the run of the component it is composed with where their instances fit together.
