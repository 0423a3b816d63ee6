------------------------------ MODULE ObjectHeap ------------------------------
(***************************************************************************)
(* The object heap and its mark-compact collector with two generations     *)
(* (memory/ObjectHeap.cpp, runtime/HotRoutines.incl.hpp, the natives of    *)
(* java.lang.ref.WeakReference and Runtime.gc).                            *)
(*                                                                         *)
(* Memory is a sequence of cells, one object in each, oldest first; an     *)
(* address is the number of a cell and 0 is null.  One cell is the         *)
(* execution stack of the thread, whose fields are the local variables.    *)
(* The bit vector has one bit for the header of each object, which marks   *)
(* it, and one for each of its fields: in the old generation the latter    *)
(* are the remembered set.                                                 *)
(*                                                                         *)
(* The cons cells of the finalizer lists and the array of weak references  *)
(* are kept beside the memory, classes are left out, the heap has a fixed  *)
(* size as on the Pico.  Module JavaObjects says what all this is for.     *)
(*                                                                         *)
(* (An operator whose name extends that of the one after it, as            *)
(* NotEnoughOnce does that of NotEnough, is a wrong version of it, which   *)
(* the properties are tested on; the specification does not use it.)       *)
(***************************************************************************)
EXTENDS Integers, SequencesExt

CONSTANTS
    Objects, Weaks, FieldCount, LocalCount, NoObject,  \* see JavaObjects
    Stack,           \* what the cell of the execution stack holds
    Capacity,        \* the cells of the heap
    MinStack,        \* the room that the marking stack has at least
    YoungTarget,     \* the size the young generation should have
    MinYoung,        \* the free room in it below which a full collection is due
    MinReuse,        \* the free room that lets the young generation be reused
    SurvivalPercent, \* the share of it that may have survived for that
    MayAbandon       \* whether the argument of new WeakReference(...) may throw

ASSUME HeapAssumption ==
    /\ Weaks \subseteq Objects /\ IsFiniteSet(Weaks)
    /\ NoObject \notin Objects /\ Stack \notin Objects
    /\ FieldCount \in [Objects -> Nat] /\ LocalCount \in Nat \ {0}
    /\ Capacity \in Nat /\ Capacity >= 2 /\ MinStack \in Nat \ {0}
    /\ {YoungTarget, MinYoung, MinReuse, SurvivalPercent} \subseteq Nat
    /\ MayAbandon \in BOOLEAN

VARIABLES
    mem,       \* the cells up to _inline_allocation_top: [obj, ref, index]
    root,      \* the address of the execution stack
    oldEnd,    \* _old_generation_end, where the young generation starts
    youngEnd,  \* _inline_allocation_end
    full,      \* whether _collection_area_start is the start of the heap
    bits,      \* the bits set: <<address, field>>, field 0 for the header
    overflow,  \* _marking_stack_overflow
    table,     \* the array of weak references: an address, 0 dead, -1 unused
    list,      \* _finalizer_reachable, newest first
    pending,   \* _finalizer_pending
    phase,     \* "java" while the program runs, or what the collector does next
    resume,    \* the phase after the collection
    need,      \* min_free_after_collection
    round,     \* which call of internal_collect this is
    wasFull    \* what the last one returned

program == <<mem, root, table, list>>
space   == <<oldEnd, youngEnd, full>>
marks   == <<bits, overflow>>
job     == <<resume, need, round, wasFull>>
vars    == <<program, space, marks, pending, phase, job>>

Top == Len(mem)
Free == Capacity - Top                        \* free_memory
StackLimit == Capacity - Top + MinStack
AreaStart == IF full THEN 0 ELSE oldEnd       \* the last cell below the area
InArea(a) == a > AreaStart
Marked(B) == {a \in AreaStart + 1 .. Top : <<a, 0>> \in B}
Locals == {mem[root].ref[l] : l \in 1..LocalCount} \ {0}
IsWeak(a) == mem[a].obj \in Weaks
Cell(o) == [obj |-> o, ref |-> [f \in 1..FieldCount[o] |-> 0], index |-> 0]

\* a WeakReference on which the constructor has not run is in the one variable
\* its creation has put it in, and nothing can be done with it
Unconstructed == {a \in 1..Top : IsWeak(a) /\ mem[a].index = 0}
Writable(l) == mem[root].ref[l] \notin Unconstructed
InHand == Locals \ Unconstructed

Init ==
    \E o \in Objects \ Weaks :
        /\ mem = <<Cell(o), [obj |-> Stack, ref |-> [l \in 1..LocalCount |-> IF l = 1 THEN 1 ELSE 0],
                             index |-> 0]>>
        /\ root = 2 /\ oldEnd = 0 /\ youngEnd = Capacity /\ full = TRUE
        /\ bits = {} /\ overflow = FALSE
        /\ table = [i \in 1..Cardinality(Weaks) |-> -1]
        /\ list = <<>> /\ pending = <<>>
        /\ phase = "java" /\ resume = "java" /\ need = 0 /\ round = 0 /\ wasFull = FALSE

-----------------------------------------------------------------------------
(* The program.                                                            *)

SetLocal(l, a) == mem' = [mem EXCEPT ![root].ref[l] = a]

\* internal_collect starts: the slots of a stack in the old generation that
\* point into the young one are remembered, the bits of the area are cleared
Collect(isFull, n, r) ==
    LET area  == IF isFull THEN 0 ELSE oldEnd
        stack == {<<root, f>> : f \in {g \in 1..LocalCount : mem[root].ref[g] > area}}
    IN  /\ bits' = {b \in bits \union (IF root <= area THEN stack ELSE {}) :
                       b[1] <= area \/ b[1] > Top}
        /\ full' = isFull /\ need' = n /\ round' = r /\ phase' = "roots"
        /\ UNCHANGED <<program, oldEnd, youngEnd, overflow, pending, wasFull>>

\* a mistake: an object with a finalizer is added at the old end of the list
AllocateAtEnd(o, l) ==
    /\ phase \in {"java", "allocate"}
    /\ \A a \in 1..Top : mem[a].obj # o
    /\ Writable(l)
    /\ Top + 1 <= youngEnd
    /\ mem' = Append([mem EXCEPT ![root].ref[l] = Top + 1], Cell(o))
    /\ list' = IF o \in Weaks THEN Append(list, Top + 1) ELSE list
    /\ phase' = "java"
    /\ UNCHANGED <<root, table, space, marks, pending, job>>

\* a new object at the end of the young generation; one that has a finalizer
\* is registered
Allocate(o, l) ==
    /\ phase \in {"java", "allocate"}
    /\ \A a \in 1..Top : mem[a].obj # o
    /\ Writable(l)
    /\ Top + 1 <= youngEnd
    /\ mem' = Append([mem EXCEPT ![root].ref[l] = Top + 1], Cell(o))
    /\ list' = IF o \in Weaks THEN <<Top + 1>> \o list ELSE list
    /\ phase' = "java"
    /\ UNCHANGED <<root, table, space, marks, pending, job>>

AllocationFails ==
    /\ phase \in {"java", "allocate"}
    /\ \E o \in Objects : \A a \in 1..Top : mem[a].obj # o
    /\ \E l \in 1..LocalCount : Writable(l)
    /\ Top + 1 > youngEnd
    /\ resume' = "allocate"
    /\ Collect(full, 1, 1)

SystemGc ==
    /\ phase = "java"
    /\ resume' = "java"
    /\ Collect(TRUE, 1, 1)

\* a mistake: a store into an old object is not remembered
PutFieldForgotten(a, f, v) ==
    /\ phase = "java"
    /\ a \in InHand /\ v \in InHand \union {0}
    /\ mem' = [mem EXCEPT ![a].ref[f] = v]
    /\ UNCHANGED <<root, table, list, space, marks, pending, phase, job>>

\* a store into an object goes through the write barrier
PutField(a, f, v) ==
    /\ phase = "java"
    /\ a \in InHand /\ v \in InHand \union {0}
    /\ mem' = [mem EXCEPT ![a].ref[f] = v]
    /\ bits' = IF a <= oldEnd /\ v > a THEN bits \union {<<a, f>>} ELSE bits
    /\ UNCHANGED <<root, table, list, space, overflow, pending, phase, job>>

\* a store into a variable does not
GetField(l, a, f) ==
    /\ phase = "java"
    /\ Writable(l)
    /\ a \in InHand
    /\ SetLocal(l, mem[a].ref[f])
    /\ UNCHANGED <<root, table, list, space, marks, pending, phase, job>>

ClearLocal(l) ==
    /\ phase = "java"
    /\ ~Writable(l) => MayAbandon
    /\ SetLocal(l, 0)
    /\ UNCHANGED <<root, table, list, space, marks, pending, phase, job>>

\* the constructor of the WeakReference in w: the first unused entry is taken
\* for the referent, none when it is null
ConstructWeak(w, v) ==
    /\ phase = "java"
    /\ w \in Locals \intersect Unconstructed
    /\ v \in InHand \union {0}
    /\ IF v = 0
       THEN /\ mem' = [mem EXCEPT ![w].index = -1]
            /\ UNCHANGED table
       ELSE LET i == Min({j \in DOMAIN table : table[j] = -1})
            IN  /\ mem' = [mem EXCEPT ![w].index = i]
                /\ table' = [table EXCEPT ![i] = v]
    /\ UNCHANGED <<root, list, space, marks, pending, phase, job>>

GetWeak(l, w) ==
    /\ phase = "java"
    /\ Writable(l)
    /\ w \in InHand /\ IsWeak(w)
    /\ SetLocal(l, IF mem[w].index < 0 THEN 0 ELSE table[mem[w].index])
    /\ UNCHANGED <<root, table, list, space, marks, pending, phase, job>>

\* WeakReference.clear, and its finalizer: the entry is given back
GiveUp(w) ==
    IF mem[w].index < 0
    THEN UNCHANGED <<mem, table>>
    ELSE /\ mem' = [mem EXCEPT ![w].index = -1]
         /\ table' = [table EXCEPT ![mem[w].index] = -1]

ClearWeak(w) ==
    /\ phase = "java"
    /\ w \in InHand /\ IsWeak(w)
    /\ GiveUp(w)
    /\ UNCHANGED <<root, list, space, marks, pending, phase, job>>

Program ==
    \/ SystemGc \/ AllocationFails
    \/ \E l \in 1..LocalCount :
          \/ \E o \in Objects : Allocate(o, l)
          \/ ClearLocal(l)
          \/ \E a \in InHand : \E f \in 1..Len(mem[a].ref) : GetField(l, a, f)
          \/ \E w \in InHand : GetWeak(l, w)
    \/ \E a \in InHand, v \in InHand \union {0} :
          \E f \in 1..Len(mem[a].ref) : PutField(a, f, v)
    \/ \E w \in Locals, v \in InHand \union {0} : ConstructWeak(w, v)
    \/ \E w \in InHand : ClearWeak(w)

-----------------------------------------------------------------------------
(* Marking.  A state of it: the bits, the marking stack and whether the    *)
(* stack overflowed.                                                       *)

Marking == [bits |-> bits, stack |-> <<>>, overflow |-> overflow]
Unmarked(s, a) == InArea(a) /\ <<a, 0>> \notin s.bits

\* an object that does not fit on the marking stack is marked, not followed
MarkAndPush(s, a) ==
    IF ~Unmarked(s, a) THEN s
    ELSE LET m == [s EXCEPT !.bits = @ \union {<<a, 0>>}]
         IN  IF Len(s.stack) = StackLimit
             THEN [m EXCEPT !.overflow = TRUE]
             ELSE [m EXCEPT !.stack = Append(@, a)]

\* continue_marking: objects are popped and followed until the stack is empty,
\* at most as many as there are
ContinueMarking(s) ==
    LET popped[n \in 0..Top] ==
          IF n = 0 THEN s
          ELSE LET p == popped[n - 1]
               IN  IF p.stack = <<>> THEN p
                   ELSE FoldLeft(MarkAndPush, [p EXCEPT !.stack = Front(@)],
                                 mem[Last(p.stack)].ref)
    IN  popped[Top]

MarkRoot(s, a) ==
    IF ~Unmarked(s, a) THEN s
    ELSE ContinueMarking([s EXCEPT !.bits = @ \union {<<a, 0>>}, !.stack = <<a>>])

MarkRoots(s, roots) == FoldLeft(MarkRoot, s, roots)

\* mark_remembered_set: what the slots of the old generation whose bit is set
\* refer to is marked; the bits of those that refer to old objects are cleared
MarkSlots(s, a) ==
    MarkRoots(s, [f \in DOMAIN mem[a].ref |-> IF <<a, f>> \in bits THEN mem[a].ref[f] ELSE 0])

MarkRememberedSet(s) ==
    LET slots == {b \in bits : b[1] <= oldEnd}
        kept  == {b \in slots : InArea(mem[b[1]].ref[b[2]])}
        m     == FoldLeft(MarkSlots, s, [a \in 1..oldEnd |-> a])
    IN  [m EXCEPT !.bits = (@ \ slots) \union kept]

\* the collector has done the marking s: it rescans after an overflow, or goes
\* on with next
Marks(s, rescan, next) ==
    /\ bits' = s.bits
    /\ overflow' = s.overflow
    /\ phase' = IF s.overflow THEN rescan ELSE next
    /\ UNCHANGED <<mem, root, space, job>>

MarkFromRoots ==
    /\ phase = "roots"
    /\ LET s == MarkRoot(Marking, root)
       IN  Marks(IF full THEN s ELSE MarkRememberedSet(s), "rescan_roots", "finalizers")
    /\ UNCHANGED <<table, list, pending>>

\* check_marking_stack_overflow: while the stack overflowed, what every marked
\* object refers to is marked again
MarkAgain(s, a) == IF <<a, 0>> \in bits THEN MarkRoots(s, mem[a].ref) ELSE s

Rescan ==
    /\ phase \in {"rescan_roots", "rescan_finalizers"}
    /\ Marks(FoldLeft(MarkAgain, [Marking EXCEPT !.overflow = FALSE],
                      [i \in 1..Top - AreaStart |-> AreaStart + i]),
             phase, IF phase = "rescan_roots" THEN "finalizers" ELSE "weak")
    /\ UNCHANGED <<table, list, pending>>

\* a marked object stays on the list of finalizers, another is put in front of
\* those that are pending
Sort(p, a) ==
    IF <<a, 0>> \in bits THEN [p EXCEPT !.live = Append(@, a)]
                         ELSE [p EXCEPT !.dead = <<a>> \o @]

\* the objects with a finalizer are sorted, up to the first one that is older
\* than the area; all are marked
DiscoverFinalizers ==
    /\ phase = "finalizers"
    /\ LET old == {i \in DOMAIN list : ~InArea(list[i])}
           n   == IF old = {} THEN Len(list) ELSE Min(old) - 1
           p   == FoldLeft(Sort, [live |-> <<>>, dead |-> <<>>], SubSeq(list, 1, n))
       IN  /\ list' = p.live \o SubSeq(list, n + 1, Len(list))
           /\ pending' = p.dead
    /\ Marks(MarkRoots(MarkRoots(Marking, list'), pending'),
             "rescan_finalizers", "weak")
    /\ UNCHANGED table

\* a mistake: weak references to objects that are about to be finalized stay
ClearWeakReferencesLate ==
    /\ phase = "weak"
    /\ table' = [i \in DOMAIN table |->
                    IF table[i] > 0 /\ Unmarked(Marking, table[i]) THEN 0 ELSE table[i]]
    /\ Marks(Marking, "compact", "compact")
    /\ UNCHANGED <<list, pending>>

\* with the mark of the pending ones taken back, weak references to objects
\* that are not marked become dead
ClearWeakReferences ==
    /\ phase = "weak"
    /\ LET taken == [Marking EXCEPT !.bits = @ \ {<<a, 0>> : a \in Range(pending)}]
       IN  /\ table' = [i \in DOMAIN table |->
                           IF table[i] > 0 /\ Unmarked(taken, table[i]) THEN 0 ELSE table[i]]
           /\ Marks(MarkRoots(taken, pending), "compact", "compact")
    /\ UNCHANGED <<list, pending>>

-----------------------------------------------------------------------------
(* Compaction.                                                             *)

\* a mistake: the young generation is not cut off at the end of the heap
BoundaryPastEnd(top, free, reuse, B) ==
    /\ oldEnd' = IF reuse THEN oldEnd ELSE top
    /\ youngEnd' = IF reuse THEN youngEnd ELSE top + YoungTarget + free
    /\ full' = (youngEnd' - (top + free) < MinYoung)
    /\ bits' = {}

\* set_collection_area_boundary, when free cells are to be left: the young
\* generation is reused, or what survived becomes old and a new one follows
Boundary(top, free, reuse, B) ==
    LET end == IF reuse THEN youngEnd
               ELSE top + Min({YoungTarget + free, Capacity - top})
    IN  /\ oldEnd' = IF reuse THEN oldEnd ELSE top
        /\ youngEnd' = end
        /\ full' = (end - (top + free) < MinYoung)
        /\ bits' = IF reuse
                   THEN IF root' <= oldEnd
                        THEN B \ {<<root', l>> : l \in 1..LocalCount}
                        ELSE B
                   ELSE {b \in B : b[1] > top}

\* the marked objects slide down to the start of the area
Place(M, a) == IF a \in M THEN AreaStart + Cardinality({b \in M : b <= a}) ELSE a

\* the end of those in front of the first dead one, which stay, and the slots in
\* these that refer to later objects
Fixed(M) == Max({e \in AreaStart..Top : AreaStart + 1 .. e \subseteq M})
Forward(M) == UNION {{<<a, f>> : f \in {g \in DOMAIN mem[a].ref : mem[a].ref[g] > a}} :
                        a \in AreaStart + 1 .. Fixed(M)}

\* in the objects that stay and in the old generation only the slots with a bit
\* are updated; in the others every one is
Moved(M, B, a) ==
    [mem[a] EXCEPT !.ref = [f \in DOMAIN @ |->
        IF a > Fixed(M) \/ <<a, f>> \in B THEN Place(M, @[f]) ELSE @[f]]]

Compact ==
    /\ phase = "compact"
    /\ LET M      == Marked(bits)
           B      == bits \union Forward(M)
           top    == AreaStart + Cardinality(M)
           spared == Top - top
           reuse  == /\ ~full
                     /\ spared >= need
                     /\ spared >= MinReuse
                     /\ 100 * Cardinality(M) < (youngEnd - oldEnd) * SurvivalPercent
       IN  /\ mem' = [i \in 1..top |->
                         Moved(M, B, IF i <= Fixed(M) THEN i ELSE CHOOSE a \in M : Place(M, a) = i)]
           /\ root' = Place(M, root)
           /\ table' = [i \in DOMAIN table |-> Place(M, table[i])]
           /\ list' = [i \in DOMAIN list |-> Place(M, list[i])]
           /\ pending' = [i \in DOMAIN pending |-> Place(M, pending[i])]
           /\ Boundary(top, need, reuse, B)
    /\ wasFull' = full
    /\ phase' = "finalize"
    /\ UNCHANGED <<overflow, resume, need, round>>

\* the pending finalizers run.  For a WeakReference that was never
\* constructed an entry is given back that is not there.
RunFinalizer ==
    /\ phase = "finalize"
    /\ pending # <<>>
    /\ IF mem[Head(pending)].index = 0
       THEN phase' = "fault" /\ UNCHANGED <<mem, table>>
       ELSE GiveUp(Head(pending)) /\ UNCHANGED phase
    /\ pending' = Tail(pending)
    /\ UNCHANGED <<root, list, space, marks, job>>

JobDone == resume' = "java" /\ need' = 0 /\ round' = 0 /\ wasFull' = FALSE

\* what collect makes of it: more than enough after the young generation was
\* collected, or enough after a full collection
Enough ==
    /\ phase = "finalize" /\ pending = <<>>
    /\ IF wasFull THEN Free >= need ELSE Free > need
    /\ phase' = resume
    /\ JobDone
    /\ UNCHANGED <<program, space, marks, pending>>

\* a mistake: that a full collection did not help is forgotten
NotEnoughAgain ==
    /\ phase = "finalize" /\ pending = <<>>
    /\ IF wasFull THEN Free < need ELSE Free <= need
    /\ round < 3
    /\ Collect(TRUE, need, IF wasFull THEN round ELSE 2)
    /\ UNCHANGED resume

\* a mistake: there is no collection after the one whose finalizers let objects go
NotEnoughOnce ==
    /\ phase = "finalize" /\ pending = <<>>
    /\ IF wasFull THEN Free < need ELSE Free <= need
    /\ round < 3
    /\ Collect(TRUE, need, 3)
    /\ UNCHANGED resume

NotEnough ==
    /\ phase = "finalize" /\ pending = <<>>
    /\ IF wasFull THEN Free < need ELSE Free <= need
    /\ round < 3
    /\ Collect(TRUE, need, IF wasFull THEN 3 ELSE 2)
    /\ UNCHANGED resume

OutOfMemory ==
    /\ phase = "finalize" /\ pending = <<>>
    /\ round = 3 /\ Free < need
    /\ Boundary(Top, 0, FALSE, bits)
    /\ phase' = "out_of_memory"
    /\ UNCHANGED <<program, overflow, pending, job>>

\* the error is thrown, or forgotten by System.gc
Thrown ==
    /\ phase = "out_of_memory"
    /\ phase' = "java"
    /\ JobDone
    /\ UNCHANGED <<program, space, marks, pending>>

Collector ==
    \/ MarkFromRoots
    \/ Rescan
    \/ DiscoverFinalizers
    \/ ClearWeakReferences
    \/ Compact
    \/ RunFinalizer
    \/ Enough \/ NotEnough \/ OutOfMemory \/ Thrown

Next == Program \/ Collector

Spec == Init /\ [][Next]_vars

-----------------------------------------------------------------------------
(* Properties.                                                             *)

\* every variable has its type; addresses are those of cells
TypeOK ==
    LET Address == 0..Top
    IN  /\ \A a \in 1..Top :
               /\ mem[a].obj \in Objects \union {Stack}
               /\ Range(mem[a].ref) \subseteq Address
               /\ mem[a].index \in -1..Len(table)
        /\ root \in 1..Top /\ mem[root].obj = Stack
        /\ Range(table) \subseteq Address \union {-1}
        /\ Range(list) \union Range(pending) \subseteq 1..Top
        /\ 0 <= oldEnd /\ oldEnd <= youngEnd /\ Top <= youngEnd /\ youngEnd <= Capacity
        /\ {full, wasFull, overflow} \subseteq BOOLEAN
        /\ need \in 0..1 /\ round \in 0..3

\* the cells that can be reached from those of A
Closure(A) ==
    LET after[n \in 0..Top] ==
          IF n = 0 THEN A
          ELSE LET X == after[n - 1]
               IN  X \union ((UNION {Range(mem[a].ref) : a \in X}) \ {0})
    IN  after[Top]

Area == AreaStart + 1 .. Top

\* The objects marked when compaction starts are those that can be reached
\* from the stack, from the old generation when the young one is collected,
\* and from the objects to be finalized: the remembered set missed no pointer
\* into the young generation, and an overflow of the marking stack no object
\* (mark_remembered_set, check_marking_stack_overflow).
MarkingExact ==
    phase = "compact" =>
        Marked(bits) = Area \intersect Closure({root} \union 1..AreaStart \union Range(pending))

\* Of the objects with a finalizer in the collection area, those are pending
\* that nothing else keeps alive: the search that stops at the first old
\* object misses none (discover_finalizer_reachable_objects).
FinalizersFound ==
    phase = "compact" =>
        LET alive == Closure({root} \union 1..AreaStart)
        IN  /\ Range(pending) \intersect alive = {}
            /\ Range(list) \intersect Area \subseteq alive

\* OutOfMemoryError is thrown only when what the program can reach and the new
\* object do not fit in the heap together; what a finalizer let go of is not
\* counted (collect).  After a collection for it that did not fail, an object
\* can be allocated: "No more than 2 iterations" (the loop of allocate).
MemoryServed ==
    /\ phase = "out_of_memory" => Cardinality(Closure({root})) + need > Capacity
    /\ phase = "allocate" => Top + 1 <= youngEnd

Exists == {mem[a].obj : a \in 1..Top} \ {Stack}
At(o) == CHOOSE a \in 1..Top : mem[a].obj = o
Id(a) == IF a = 0 THEN NoObject ELSE mem[a].obj

fields == [o \in Exists |-> [f \in 1..FieldCount[o] |-> Id(mem[At(o)].ref[f])]]
locals == [l \in 1..LocalCount |-> Id(mem[root].ref[l])]
RefersTo(w) ==
    LET i == mem[w].index
    IN  IF i > 0 /\ table[i] > 0 THEN table[i] ELSE 0
referent == [w \in Exists \intersect Weaks |-> Id(RefersTo(At(w)))]
unfinalized == {mem[a].obj : a \in Range(list) \union Range(pending)}

JavaHeap == INSTANCE JavaObjects

\* The program never loses an object it can reach, nor a field of it, a weak
\* reference is cleared only when its referent is out of reach, and finalizers
\* run once, before their object is taken (internal_collect, mark_objects,
\* WeakReference.get).
ImplementsJavaObjects == JavaHeap!Spec

\* what is left of a collection: calls of internal_collect, stages of this
\* one, finalizers that have to run or objects that may yet be marked
Left ==
    LET stages == <<"out_of_memory", "finalize", "compact", "weak",
                    "rescan_finalizers", "finalizers", "rescan_roots", "roots">>
        stage  == CHOOSE i \in DOMAIN stages : stages[i] = phase
        steps  == IF phase = "finalize" THEN Len(pending)
                  ELSE 2 * Cardinality(Area \ Marked(bits)) + (IF overflow THEN 1 ELSE 0)
        most   == 2 * Capacity + 2
    IN  ((3 - round) * (Len(stages) + 1) + stage) * most + steps

\* Each step of a collection brings it closer to its end: the rescans after
\* overflows of the marking stack end, and so does the loop of collections
\* (check_marking_stack_overflow, collect).
CollectionAdvances ==
    [][{phase, phase'} \intersect {"java", "allocate", "fault"} = {} => Left' < Left]_vars

\* A finalizer gives back only what a constructor has taken:
\* "Invalid global reference type" (unregister_global_ref_object).
NoInvalidReference == phase # "fault"

=============================================================================
