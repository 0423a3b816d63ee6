------------------------- MODULE ObjectHeapProofs -------------------------
(***************************************************************************)
(* Theorems about module ObjectHeap, for every number of objects, fields   *)
(* and variables, every size of the heap, of the young generation and of   *)
(* the marking stack.                                                      *)
(*                                                                         *)
(* Marking is proved once for a marking state: what MarkRoot, with the     *)
(* marking stack it drives, adds to the marks (MarkedFrom).  Each phase of *)
(* the collector adds its roots to that; the invariant says phase by phase *)
(* what has been marked.  Compaction moves the cells, and every set of     *)
(* addresses that the invariant speaks of, along one injection (Place).    *)
(*                                                                         *)
(* A second invariant (JavaOK) says where references, weak references and  *)
(* pending finalizers may point; with it each step is one of JavaObjects   *)
(* or shows the program nothing.  The last part takes apart the number     *)
(* Left that each step of a collection lowers.                             *)
(***************************************************************************)
EXTENDS ObjectHeap, ListFacts, FiniteSetTheorems, TLAPS

-----------------------------------------------------------------------------
(* The invariant.                                                          *)

Cells == 1..Top
Size(o) == IF o = Stack THEN LocalCount ELSE FieldCount[o]
Refs(a) == ToSet(mem[a].ref) \ {0}
Closed(C) == \A a \in C : Refs(a) \subseteq C

\* The cells that can be reached from those of A: in every closed set that
\* has those of A.
Reached(A) == {a \in Cells : \A C \in SUBSET Cells : A \subseteq C /\ Closed(C) => a \in C}

Cell_ == [obj : Objects \union {Stack}, ref : Seq(Nat), index : Int]

Phases == {"java", "allocate", "fault", "out_of_memory", "finalize", "compact", "weak",
           "rescan_finalizers", "finalizers", "rescan_roots", "roots"}
Collecting == {"compact", "weak", "rescan_finalizers", "finalizers", "rescan_roots", "roots"}
Started == Collecting \ {"roots"}        \* the roots have been marked
Found == {"compact", "weak", "rescan_finalizers"}     \* and the finalizers found
Followed == {"compact", "weak", "finalizers"}  \* what is marked has been followed

Shape ==
    /\ mem \in Seq(Cell_)
    /\ \A a \in Cells : /\ Len(mem[a].ref) = Size(mem[a].obj)
                        /\ \A f \in 1..Len(mem[a].ref) : mem[a].ref[f] <= Top
    /\ \A a, b \in Cells : mem[a].obj = mem[b].obj => a = b
    /\ root \in Cells /\ mem[root].obj = Stack

\* The entries of the array of weak references belong to one object each, which
\* is on a list of those with finalizers.
WeakOK ==
    /\ table \in [1..Cardinality(Weaks) -> Int]
    /\ \A i \in DOMAIN table : -1 <= table[i] /\ table[i] <= Top
    /\ \A a \in Cells : -1 <= mem[a].index /\ mem[a].index <= Cardinality(Weaks)
    /\ \A a \in Cells : mem[a].index > 0 => IsWeak(a) /\ table[mem[a].index] >= 0
    /\ \A a, b \in Cells : mem[a].index > 0 /\ mem[a].index = mem[b].index => a = b
    /\ \A i \in DOMAIN table : table[i] >= 0 => \E a \in Cells : mem[a].index = i
    /\ phase # "fault" =>
          \A a \in Cells : IsWeak(a) /\ mem[a].index >= 0 => a \in ToSet(list) \union ToSet(pending)

ListOK ==
    /\ list \in Seq(Nat \ {0}) /\ pending \in Seq(Nat \ {0})
    /\ \A i \in 1..Len(list) : list[i] <= Top
    /\ \A i \in 1..Len(pending) : pending[i] <= Top
    /\ Decreasing(list)
    /\ phase \in {"java", "allocate", "out_of_memory", "roots", "rescan_roots", "finalizers"}
          => pending = <<>>

JobOK ==
    /\ phase \in Phases /\ resume \in {"java", "allocate"}
    /\ full \in BOOLEAN /\ wasFull \in BOOLEAN /\ overflow \in BOOLEAN
    /\ oldEnd \in Nat /\ youngEnd \in Nat
    /\ oldEnd <= Top /\ Top <= youngEnd /\ youngEnd <= Capacity
    /\ round \in 0..3
    /\ need = IF phase \in {"java", "allocate"} THEN 0 ELSE 1
    /\ phase = "finalize" => (Top < Capacity => Top < youngEnd)
    /\ phase = "allocate" => Top < youngEnd
    /\ phase = "out_of_memory" => Top = Capacity

MarkedNow == Marked(bits)

BitsOK ==
    /\ bits \in SUBSET (Nat \X Nat)
    /\ phase = "roots" => MarkedNow = {}
    /\ ~full =>
         \A a \in 1..oldEnd : \A f \in 1..Len(mem[a].ref) :
             mem[a].ref[f] > oldEnd /\ (a # root \/ phase \in Collecting) => <<a, f>> \in bits

Old == 1..AreaStart
FromRoot == Reached({root})
FromOld == Reached({root} \union Old)
FromAll == Reached({root} \union Old \union ToSet(pending))

MarkOK ==
    /\ phase \in Started =>
          /\ MarkedNow \subseteq FromAll
          /\ root \in Area => root \in MarkedNow
          /\ \A a \in Old : Refs(a) \intersect Area \subseteq MarkedNow
          /\ ToSet(pending) \subseteq MarkedNow
    /\ phase \in Followed =>
          \A a \in MarkedNow : Refs(a) \intersect Area \subseteq MarkedNow
    /\ phase \in Found =>
          /\ ToSet(list) \intersect Area \subseteq MarkedNow
          /\ ToSet(list) \intersect Area \subseteq FromOld
          /\ ToSet(pending) \intersect FromOld = {}
    /\ phase = "compact" =>
          \A i \in DOMAIN table : table[i] \in Area => table[i] \in MarkedNow

\* After a full collection the program can reach all that has a finalizer yet to
\* come; the full collection after it leaves nothing else.
FullOK ==
    /\ phase = "finalize" /\ wasFull => ToSet(list) \subseteq FromRoot
    /\ round = 3 /\ phase \in Collecting =>
          full /\ ToSet(list) \subseteq FromRoot /\ pending = <<>>
    /\ round = 3 /\ phase = "finalize" =>
          wasFull /\ pending = <<>> /\ Cells \subseteq FromRoot
    /\ phase = "out_of_memory" => Cells \subseteq FromRoot

Inv == Shape /\ WeakOK /\ ListOK /\ JobOK /\ BitsOK /\ MarkOK /\ FullOK

-----------------------------------------------------------------------------
(* The loops of the collector, as sequences of steps.                       *)

\* MarkAndPush over what an object refers to.
MarkAndPushSteps(g, base, seq) ==
    /\ g[0] = base /\ g[Len(seq)] = FoldLeft(MarkAndPush, base, seq)
    /\ \A i \in 1..Len(seq) : g[i] = MarkAndPush(g[i - 1], seq[i])

\* MarkAndPush over a list, one element at a time.
LEMMA MarkAndPushFold ==
    ASSUME NEW V, NEW E, \A s \in V, a \in E : MarkAndPush(s, a) \in V,
           NEW base \in V, NEW seq \in Seq(E)
    PROVE  \E g \in [0..Len(seq) -> V] : MarkAndPushSteps(g, base, seq)
<1> DEFINE n == Len(seq)
           F == [p \in V \X (1..n) |-> MarkAndPush(p[1], seq[p[2]])]
<1>1. n \in Nat /\ DOMAIN seq = 1..n /\ \A i \in 1..n : seq[i] \in E
    OBVIOUS
<1> HIDE DEF n
<1>2. F \in [V \X (1..n) -> V]
    BY <1>1
<1>3. \A s \in V, i \in 1..n : F[<<s, i>>] = MarkAndPush(s, seq[i])
    OBVIOUS
<1> HIDE DEF F
<1>4. PICK h \in [SUBSET (1..n) -> V] : FoldOf(h, base, n, F)
    BY <1>1, <1>2, FoldExists
<1>5. ASSUME NEW s \in SUBSET (1..n), s # {}
      PROVE  F[<<h[s \ {Max(s)}], Max(s)>>] = MarkAndPush(h[s \ {Max(s)}], seq[Max(s)])
    <2>1. Max(s) \in 1..n
        BY <1>1, <1>5, MaxUpTo
    <2>2. h[s \ {Max(s)}] \in V
        OBVIOUS
    <2>3. QED BY <1>3, <2>1, <2>2
<1>6. h = [s \in SUBSET DOMAIN seq |->
             IF s = {} THEN base ELSE MarkAndPush(h[s \ {Max(s)}], seq[Max(s)])]
    BY <1>1, <1>4, <1>5 DEF FoldOf
<1> DEFINE iter == CHOOSE f : f = [s \in SUBSET DOMAIN seq |->
                       IF s = {} THEN base ELSE MarkAndPush(f[s \ {Max(s)}], seq[Max(s)])]
<1>7. FoldLeft(MarkAndPush, base, seq) = iter[DOMAIN seq]
    BY Zenon DEF FoldLeft, MapThenFoldSet
<1>8. iter = [s \in SUBSET DOMAIN seq |->
                IF s = {} THEN base ELSE MarkAndPush(iter[s \ {Max(s)}], seq[Max(s)])]
    BY <1>6, Zenon
<1> HIDE DEF iter
<1> DEFINE g == [i \in 0..n |-> iter[1..i]]
<1>9. g[0] = base
    <2>1. 1..0 = {} /\ 0 \in 0..n
        BY <1>1
    <2>2. QED BY <1>8, <2>1
<1>10. ASSUME NEW i \in 1..n PROVE g[i] = MarkAndPush(g[i - 1], seq[i])
    <2>1. /\ 1..i \in SUBSET DOMAIN seq /\ 1..i # {} /\ Max(1..i) = i
          /\ (1..i) \ {i} = 1..(i - 1) /\ i \in 0..n /\ i - 1 \in 0..n
        BY <1>1, MaxOfInterval
    <2>2. iter[1..i] = MarkAndPush(iter[1..(i - 1)], seq[i])
        BY <1>8, <2>1
    <2>3. QED BY <2>1, <2>2
<1>11. g[n] = FoldLeft(MarkAndPush, base, seq)
    BY <1>1, <1>7
<1>12. \A i \in 0..n : g[i] \in V
    <2> DEFINE S == {i \in 0..n : g[i] \in V}
    <2>1. 0 \in S
        BY <1>1, <1>9
    <2>2. ASSUME NEW i \in 1..n, i - 1 \in S PROVE i \in S
        <3>1. g[i - 1] \in V /\ seq[i] \in E /\ i \in 0..n
            BY <1>1, <2>2
        <3> HIDE DEF g
        <3>2. QED BY <1>10, <3>1
    <2> HIDE DEF S
    <2>3. 0..n \subseteq S
        BY <1>1, <2>1, <2>2, StepByStep
    <2>4. QED BY <2>3 DEF S
<1>13. g \in [0..n -> V]
    BY <1>12
<1> HIDE DEF g
<1>14. MarkAndPushSteps(g, base, seq)
    BY <1>9, <1>10, <1>11 DEF n, MarkAndPushSteps
<1>15. QED BY <1>13, <1>14 DEF n

\* MarkRoot over a list of roots.
MarkRootSteps(g, base, seq) ==
    /\ g[0] = base /\ g[Len(seq)] = FoldLeft(MarkRoot, base, seq)
    /\ \A i \in 1..Len(seq) : g[i] = MarkRoot(g[i - 1], seq[i])

\* MarkRoot over a list.
LEMMA MarkRootFold ==
    ASSUME NEW V, NEW E, \A s \in V, a \in E : MarkRoot(s, a) \in V,
           NEW base \in V, NEW seq \in Seq(E)
    PROVE  \E g \in [0..Len(seq) -> V] : MarkRootSteps(g, base, seq)
<1> DEFINE n == Len(seq)
           F == [p \in V \X (1..n) |-> MarkRoot(p[1], seq[p[2]])]
<1>1. n \in Nat /\ DOMAIN seq = 1..n /\ \A i \in 1..n : seq[i] \in E
    OBVIOUS
<1> HIDE DEF n
<1>2. F \in [V \X (1..n) -> V]
    BY <1>1
<1>3. \A s \in V, i \in 1..n : F[<<s, i>>] = MarkRoot(s, seq[i])
    OBVIOUS
<1> HIDE DEF F
<1>4. PICK h \in [SUBSET (1..n) -> V] : FoldOf(h, base, n, F)
    BY <1>1, <1>2, FoldExists
<1>5. ASSUME NEW s \in SUBSET (1..n), s # {}
      PROVE  F[<<h[s \ {Max(s)}], Max(s)>>] = MarkRoot(h[s \ {Max(s)}], seq[Max(s)])
    <2>1. Max(s) \in 1..n
        BY <1>1, <1>5, MaxUpTo
    <2>2. h[s \ {Max(s)}] \in V
        OBVIOUS
    <2>3. QED BY <1>3, <2>1, <2>2
<1>6. h = [s \in SUBSET DOMAIN seq |->
             IF s = {} THEN base ELSE MarkRoot(h[s \ {Max(s)}], seq[Max(s)])]
    BY <1>1, <1>4, <1>5 DEF FoldOf
<1> DEFINE iter == CHOOSE f : f = [s \in SUBSET DOMAIN seq |->
                       IF s = {} THEN base ELSE MarkRoot(f[s \ {Max(s)}], seq[Max(s)])]
<1>7. FoldLeft(MarkRoot, base, seq) = iter[DOMAIN seq]
    BY Zenon DEF FoldLeft, MapThenFoldSet
<1>8. iter = [s \in SUBSET DOMAIN seq |->
                IF s = {} THEN base ELSE MarkRoot(iter[s \ {Max(s)}], seq[Max(s)])]
    BY <1>6, Zenon
<1> HIDE DEF iter
<1> DEFINE g == [i \in 0..n |-> iter[1..i]]
<1>9. g[0] = base
    <2>1. 1..0 = {} /\ 0 \in 0..n
        BY <1>1
    <2>2. QED BY <1>8, <2>1
<1>10. ASSUME NEW i \in 1..n PROVE g[i] = MarkRoot(g[i - 1], seq[i])
    <2>1. /\ 1..i \in SUBSET DOMAIN seq /\ 1..i # {} /\ Max(1..i) = i
          /\ (1..i) \ {i} = 1..(i - 1) /\ i \in 0..n /\ i - 1 \in 0..n
        BY <1>1, MaxOfInterval
    <2>2. iter[1..i] = MarkRoot(iter[1..(i - 1)], seq[i])
        BY <1>8, <2>1
    <2>3. QED BY <2>1, <2>2
<1>11. g[n] = FoldLeft(MarkRoot, base, seq)
    BY <1>1, <1>7
<1>12. \A i \in 0..n : g[i] \in V
    <2> DEFINE S == {i \in 0..n : g[i] \in V}
    <2>1. 0 \in S
        BY <1>1, <1>9
    <2>2. ASSUME NEW i \in 1..n, i - 1 \in S PROVE i \in S
        <3>1. g[i - 1] \in V /\ seq[i] \in E /\ i \in 0..n
            BY <1>1, <2>2
        <3> HIDE DEF g
        <3>2. QED BY <1>10, <3>1
    <2> HIDE DEF S
    <2>3. 0..n \subseteq S
        BY <1>1, <2>1, <2>2, StepByStep
    <2>4. QED BY <2>3 DEF S
<1>13. g \in [0..n -> V]
    BY <1>12
<1> HIDE DEF g
<1>14. MarkRootSteps(g, base, seq)
    BY <1>9, <1>10, <1>11 DEF n, MarkRootSteps
<1>15. QED BY <1>13, <1>14 DEF n

\* MarkSlots over the old generation.
MarkSlotsSteps(g, base, seq) ==
    /\ g[0] = base /\ g[Len(seq)] = FoldLeft(MarkSlots, base, seq)
    /\ \A i \in 1..Len(seq) : g[i] = MarkSlots(g[i - 1], seq[i])

\* MarkSlots over a list.
LEMMA MarkSlotsFold ==
    ASSUME NEW V, NEW E, \A s \in V, a \in E : MarkSlots(s, a) \in V,
           NEW base \in V, NEW seq \in Seq(E)
    PROVE  \E g \in [0..Len(seq) -> V] : MarkSlotsSteps(g, base, seq)
<1> DEFINE n == Len(seq)
           F == [p \in V \X (1..n) |-> MarkSlots(p[1], seq[p[2]])]
<1>1. n \in Nat /\ DOMAIN seq = 1..n /\ \A i \in 1..n : seq[i] \in E
    OBVIOUS
<1> HIDE DEF n
<1>2. F \in [V \X (1..n) -> V]
    BY <1>1
<1>3. \A s \in V, i \in 1..n : F[<<s, i>>] = MarkSlots(s, seq[i])
    OBVIOUS
<1> HIDE DEF F
<1>4. PICK h \in [SUBSET (1..n) -> V] : FoldOf(h, base, n, F)
    BY <1>1, <1>2, FoldExists
<1>5. ASSUME NEW s \in SUBSET (1..n), s # {}
      PROVE  F[<<h[s \ {Max(s)}], Max(s)>>] = MarkSlots(h[s \ {Max(s)}], seq[Max(s)])
    <2>1. Max(s) \in 1..n
        BY <1>1, <1>5, MaxUpTo
    <2>2. h[s \ {Max(s)}] \in V
        OBVIOUS
    <2>3. QED BY <1>3, <2>1, <2>2
<1>6. h = [s \in SUBSET DOMAIN seq |->
             IF s = {} THEN base ELSE MarkSlots(h[s \ {Max(s)}], seq[Max(s)])]
    BY <1>1, <1>4, <1>5 DEF FoldOf
<1> DEFINE iter == CHOOSE f : f = [s \in SUBSET DOMAIN seq |->
                       IF s = {} THEN base ELSE MarkSlots(f[s \ {Max(s)}], seq[Max(s)])]
<1>7. FoldLeft(MarkSlots, base, seq) = iter[DOMAIN seq]
    BY Zenon DEF FoldLeft, MapThenFoldSet
<1>8. iter = [s \in SUBSET DOMAIN seq |->
                IF s = {} THEN base ELSE MarkSlots(iter[s \ {Max(s)}], seq[Max(s)])]
    BY <1>6, Zenon
<1> HIDE DEF iter
<1> DEFINE g == [i \in 0..n |-> iter[1..i]]
<1>9. g[0] = base
    <2>1. 1..0 = {} /\ 0 \in 0..n
        BY <1>1
    <2>2. QED BY <1>8, <2>1
<1>10. ASSUME NEW i \in 1..n PROVE g[i] = MarkSlots(g[i - 1], seq[i])
    <2>1. /\ 1..i \in SUBSET DOMAIN seq /\ 1..i # {} /\ Max(1..i) = i
          /\ (1..i) \ {i} = 1..(i - 1) /\ i \in 0..n /\ i - 1 \in 0..n
        BY <1>1, MaxOfInterval
    <2>2. iter[1..i] = MarkSlots(iter[1..(i - 1)], seq[i])
        BY <1>8, <2>1
    <2>3. QED BY <2>1, <2>2
<1>11. g[n] = FoldLeft(MarkSlots, base, seq)
    BY <1>1, <1>7
<1>12. \A i \in 0..n : g[i] \in V
    <2> DEFINE S == {i \in 0..n : g[i] \in V}
    <2>1. 0 \in S
        BY <1>1, <1>9
    <2>2. ASSUME NEW i \in 1..n, i - 1 \in S PROVE i \in S
        <3>1. g[i - 1] \in V /\ seq[i] \in E /\ i \in 0..n
            BY <1>1, <2>2
        <3> HIDE DEF g
        <3>2. QED BY <1>10, <3>1
    <2> HIDE DEF S
    <2>3. 0..n \subseteq S
        BY <1>1, <2>1, <2>2, StepByStep
    <2>4. QED BY <2>3 DEF S
<1>13. g \in [0..n -> V]
    BY <1>12
<1> HIDE DEF g
<1>14. MarkSlotsSteps(g, base, seq)
    BY <1>9, <1>10, <1>11 DEF n, MarkSlotsSteps
<1>15. QED BY <1>13, <1>14 DEF n

\* MarkAgain over the objects of the area.
MarkAgainSteps(g, base, seq) ==
    /\ g[0] = base /\ g[Len(seq)] = FoldLeft(MarkAgain, base, seq)
    /\ \A i \in 1..Len(seq) : g[i] = MarkAgain(g[i - 1], seq[i])

\* MarkAgain over a list.
LEMMA MarkAgainFold ==
    ASSUME NEW V, NEW E, \A s \in V, a \in E : MarkAgain(s, a) \in V,
           NEW base \in V, NEW seq \in Seq(E)
    PROVE  \E g \in [0..Len(seq) -> V] : MarkAgainSteps(g, base, seq)
<1> DEFINE n == Len(seq)
           F == [p \in V \X (1..n) |-> MarkAgain(p[1], seq[p[2]])]
<1>1. n \in Nat /\ DOMAIN seq = 1..n /\ \A i \in 1..n : seq[i] \in E
    OBVIOUS
<1> HIDE DEF n
<1>2. F \in [V \X (1..n) -> V]
    BY <1>1
<1>3. \A s \in V, i \in 1..n : F[<<s, i>>] = MarkAgain(s, seq[i])
    OBVIOUS
<1> HIDE DEF F
<1>4. PICK h \in [SUBSET (1..n) -> V] : FoldOf(h, base, n, F)
    BY <1>1, <1>2, FoldExists
<1>5. ASSUME NEW s \in SUBSET (1..n), s # {}
      PROVE  F[<<h[s \ {Max(s)}], Max(s)>>] = MarkAgain(h[s \ {Max(s)}], seq[Max(s)])
    <2>1. Max(s) \in 1..n
        BY <1>1, <1>5, MaxUpTo
    <2>2. h[s \ {Max(s)}] \in V
        OBVIOUS
    <2>3. QED BY <1>3, <2>1, <2>2
<1>6. h = [s \in SUBSET DOMAIN seq |->
             IF s = {} THEN base ELSE MarkAgain(h[s \ {Max(s)}], seq[Max(s)])]
    BY <1>1, <1>4, <1>5 DEF FoldOf
<1> DEFINE iter == CHOOSE f : f = [s \in SUBSET DOMAIN seq |->
                       IF s = {} THEN base ELSE MarkAgain(f[s \ {Max(s)}], seq[Max(s)])]
<1>7. FoldLeft(MarkAgain, base, seq) = iter[DOMAIN seq]
    BY Zenon DEF FoldLeft, MapThenFoldSet
<1>8. iter = [s \in SUBSET DOMAIN seq |->
                IF s = {} THEN base ELSE MarkAgain(iter[s \ {Max(s)}], seq[Max(s)])]
    BY <1>6, Zenon
<1> HIDE DEF iter
<1> DEFINE g == [i \in 0..n |-> iter[1..i]]
<1>9. g[0] = base
    <2>1. 1..0 = {} /\ 0 \in 0..n
        BY <1>1
    <2>2. QED BY <1>8, <2>1
<1>10. ASSUME NEW i \in 1..n PROVE g[i] = MarkAgain(g[i - 1], seq[i])
    <2>1. /\ 1..i \in SUBSET DOMAIN seq /\ 1..i # {} /\ Max(1..i) = i
          /\ (1..i) \ {i} = 1..(i - 1) /\ i \in 0..n /\ i - 1 \in 0..n
        BY <1>1, MaxOfInterval
    <2>2. iter[1..i] = MarkAgain(iter[1..(i - 1)], seq[i])
        BY <1>8, <2>1
    <2>3. QED BY <2>1, <2>2
<1>11. g[n] = FoldLeft(MarkAgain, base, seq)
    BY <1>1, <1>7
<1>12. \A i \in 0..n : g[i] \in V
    <2> DEFINE S == {i \in 0..n : g[i] \in V}
    <2>1. 0 \in S
        BY <1>1, <1>9
    <2>2. ASSUME NEW i \in 1..n, i - 1 \in S PROVE i \in S
        <3>1. g[i - 1] \in V /\ seq[i] \in E /\ i \in 0..n
            BY <1>1, <2>2
        <3> HIDE DEF g
        <3>2. QED BY <1>10, <3>1
    <2> HIDE DEF S
    <2>3. 0..n \subseteq S
        BY <1>1, <2>1, <2>2, StepByStep
    <2>4. QED BY <2>3 DEF S
<1>13. g \in [0..n -> V]
    BY <1>12
<1> HIDE DEF g
<1>14. MarkAgainSteps(g, base, seq)
    BY <1>9, <1>10, <1>11 DEF n, MarkAgainSteps
<1>15. QED BY <1>13, <1>14 DEF n

\* Sort over the list of finalizers.
SortSteps(g, base, seq) ==
    /\ g[0] = base /\ g[Len(seq)] = FoldLeft(Sort, base, seq)
    /\ \A i \in 1..Len(seq) : g[i] = Sort(g[i - 1], seq[i])

\* Sort over a list.
LEMMA SortFold ==
    ASSUME NEW V, NEW E, \A s \in V, a \in E : Sort(s, a) \in V,
           NEW base \in V, NEW seq \in Seq(E)
    PROVE  \E g \in [0..Len(seq) -> V] : SortSteps(g, base, seq)
<1> DEFINE n == Len(seq)
           F == [p \in V \X (1..n) |-> Sort(p[1], seq[p[2]])]
<1>1. n \in Nat /\ DOMAIN seq = 1..n /\ \A i \in 1..n : seq[i] \in E
    OBVIOUS
<1> HIDE DEF n
<1>2. F \in [V \X (1..n) -> V]
    BY <1>1
<1>3. \A s \in V, i \in 1..n : F[<<s, i>>] = Sort(s, seq[i])
    OBVIOUS
<1> HIDE DEF F
<1>4. PICK h \in [SUBSET (1..n) -> V] : FoldOf(h, base, n, F)
    BY <1>1, <1>2, FoldExists
<1>5. ASSUME NEW s \in SUBSET (1..n), s # {}
      PROVE  F[<<h[s \ {Max(s)}], Max(s)>>] = Sort(h[s \ {Max(s)}], seq[Max(s)])
    <2>1. Max(s) \in 1..n
        BY <1>1, <1>5, MaxUpTo
    <2>2. h[s \ {Max(s)}] \in V
        OBVIOUS
    <2>3. QED BY <1>3, <2>1, <2>2
<1>6. h = [s \in SUBSET DOMAIN seq |->
             IF s = {} THEN base ELSE Sort(h[s \ {Max(s)}], seq[Max(s)])]
    BY <1>1, <1>4, <1>5 DEF FoldOf
<1> DEFINE iter == CHOOSE f : f = [s \in SUBSET DOMAIN seq |->
                       IF s = {} THEN base ELSE Sort(f[s \ {Max(s)}], seq[Max(s)])]
<1>7. FoldLeft(Sort, base, seq) = iter[DOMAIN seq]
    BY Zenon DEF FoldLeft, MapThenFoldSet
<1>8. iter = [s \in SUBSET DOMAIN seq |->
                IF s = {} THEN base ELSE Sort(iter[s \ {Max(s)}], seq[Max(s)])]
    BY <1>6, Zenon
<1> HIDE DEF iter
<1> DEFINE g == [i \in 0..n |-> iter[1..i]]
<1>9. g[0] = base
    <2>1. 1..0 = {} /\ 0 \in 0..n
        BY <1>1
    <2>2. QED BY <1>8, <2>1
<1>10. ASSUME NEW i \in 1..n PROVE g[i] = Sort(g[i - 1], seq[i])
    <2>1. /\ 1..i \in SUBSET DOMAIN seq /\ 1..i # {} /\ Max(1..i) = i
          /\ (1..i) \ {i} = 1..(i - 1) /\ i \in 0..n /\ i - 1 \in 0..n
        BY <1>1, MaxOfInterval
    <2>2. iter[1..i] = Sort(iter[1..(i - 1)], seq[i])
        BY <1>8, <2>1
    <2>3. QED BY <2>1, <2>2
<1>11. g[n] = FoldLeft(Sort, base, seq)
    BY <1>1, <1>7
<1>12. \A i \in 0..n : g[i] \in V
    <2> DEFINE S == {i \in 0..n : g[i] \in V}
    <2>1. 0 \in S
        BY <1>1, <1>9
    <2>2. ASSUME NEW i \in 1..n, i - 1 \in S PROVE i \in S
        <3>1. g[i - 1] \in V /\ seq[i] \in E /\ i \in 0..n
            BY <1>1, <2>2
        <3> HIDE DEF g
        <3>2. QED BY <1>10, <3>1
    <2> HIDE DEF S
    <2>3. 0..n \subseteq S
        BY <1>1, <2>1, <2>2, StepByStep
    <2>4. QED BY <2>3 DEF S
<1>13. g \in [0..n -> V]
    BY <1>12
<1> HIDE DEF g
<1>14. SortSteps(g, base, seq)
    BY <1>9, <1>10, <1>11 DEF n, SortSteps
<1>15. QED BY <1>13, <1>14 DEF n

\* The parameters.
LEMMA Parameters ==
    /\ Weaks \subseteq Objects /\ IsFiniteSet(Weaks)
    /\ Stack \notin Objects /\ FieldCount \in [Objects -> Nat] /\ LocalCount \in Nat \ {0}
    /\ Capacity \in Nat /\ MinStack \in Nat \ {0}
    /\ YoungTarget \in Nat /\ MinYoung \in Nat
BY HeapAssumption

-----------------------------------------------------------------------------
(* What follows of the shape of the heap.                                  *)

\* The cells, and those of the collection area.
LEMMA HeapFacts ==
    ASSUME Shape, JobOK
    PROVE  /\ Top \in Nat /\ AreaStart \in Nat /\ AreaStart <= Top /\ StackLimit \in Nat \ {0}
           /\ DOMAIN mem = Cells /\ Area \subseteq Cells
           /\ \A a \in Area : InArea(a) /\ a \in Nat
           /\ \A a \in 0..Top : InArea(a) <=> a \in Area
           /\ root \in Cells
<1>1. Top \in Nat /\ DOMAIN mem = 1..Top /\ root \in 1..Top
    BY DEF Shape, Top, Cells
<1>2. Top <= Capacity
    BY <1>1, Parameters DEF JobOK
<1>3. QED BY <1>1, <1>2, Parameters DEF JobOK, AreaStart, StackLimit, Area, Cells, InArea

\* What a cell holds.
LEMMA CellFacts ==
    ASSUME Shape, JobOK, NEW a \in Cells
    PROVE  /\ mem[a] \in Cell_ /\ mem[a].ref \in Seq(Nat) /\ mem[a].ref \in Seq(0..Top)
           /\ mem[a].obj \in Objects \union {Stack} /\ mem[a].index \in Int
           /\ Len(mem[a].ref) \in Nat /\ DOMAIN mem[a].ref = 1..Len(mem[a].ref)
           /\ \A f \in 1..Len(mem[a].ref) :
                 /\ mem[a].ref[f] \in 0..Top
                 /\ mem[a].ref[f] # 0 => mem[a].ref[f] \in Refs(a)
           /\ Refs(a) \subseteq Cells
           /\ \A x \in Refs(a) : \E f \in 1..Len(mem[a].ref) : mem[a].ref[f] = x
<1>1. Top \in Nat /\ DOMAIN mem = Cells
    BY HeapFacts
<1>2. mem[a] \in Cell_
    BY <1>1 DEF Shape
<1>3. mem[a].ref \in Seq(Nat)
    BY <1>2 DEF Cell_
<1>4. \A f \in 1..Len(mem[a].ref) : mem[a].ref[f] \in Nat /\ mem[a].ref[f] <= Top
    BY <1>3 DEF Shape
<1> DEFINE r == mem[a].ref
<1>5. r \in Seq(Nat) /\ \A f \in 1..Len(r) : r[f] \in 0..Top
    BY <1>1, <1>3, <1>4
<1> HIDE DEF r
<1>6. r \in Seq(0..Top) /\ ToSet(r) = {r[f] : f \in 1..Len(r)}
    <2>1. Len(r) \in Nat /\ DOMAIN r = 1..Len(r)
        BY <1>5
    <2>2. r \in Seq(0..Top)
        BY <1>5, ListOfOthers
    <2>3. QED BY <2>1, <2>2 DEF ToSet
<1>7. QED BY <1>1, <1>2, <1>3, <1>4, <1>5, <1>6 DEF r, Cell_, Refs, Cells

-----------------------------------------------------------------------------
(* Marking.                                                                *)

MState == [bits : SUBSET (Nat \X Nat), stack : Seq(Cells), overflow : BOOLEAN]
Quiet == {s \in MState : s.stack = <<>>}
Mk(s) == Marked(s.bits)
Room(s) == Cardinality(Area \ Mk(s)) + Len(s.stack)
Headers == {<<x, 0>> : x \in Area}

\* From s objects among those of S have been marked, and put on the stack as far
\* as it goes; this is how r came about.
Pushed(s, r, S) ==
    /\ r \in MState
    /\ s.bits \subseteq r.bits /\ r.bits \subseteq s.bits \union Headers
    /\ Mk(r) \subseteq Mk(s) \union S
    /\ S \intersect Area \subseteq Mk(r)
    /\ s.overflow => r.overflow
    /\ ToSet(s.stack) \subseteq ToSet(r.stack)
    /\ ToSet(r.stack) \subseteq ToSet(s.stack) \union (Mk(r) \ Mk(s))
    /\ ~r.overflow => Mk(r) \ Mk(s) \subseteq ToSet(r.stack)
    /\ Room(r) <= Room(s)

\* From s all that can be reached from those of R by objects that were not
\* marked has been marked, but for an overflow; this is how t came about.
MarkedFrom(s, t, R) ==
    /\ t \in Quiet
    /\ s.bits \subseteq t.bits /\ t.bits \subseteq s.bits \union Headers
    /\ R \intersect Area \subseteq Mk(t)
    /\ s.overflow => t.overflow
    /\ t # s => ~(Mk(t) \subseteq Mk(s))
    /\ \A C \in SUBSET Cells : Closed(C) /\ R \intersect Cells \subseteq C => Mk(t) \subseteq Mk(s) \union C
    /\ ~t.overflow => \A x \in Mk(t) \ Mk(s) : Refs(x) \intersect Area \subseteq Mk(t)

\* The marks of a marking, and the objects of the area it has yet to mark.
LEMMA MarkFacts ==
    ASSUME Shape, JobOK, NEW s \in MState
    PROVE  /\ Mk(s) \subseteq Area
           /\ \A x \in Area : x \in Mk(s) <=> <<x, 0>> \in s.bits
           /\ IsFiniteSet(Area \ Mk(s)) /\ Cardinality(Area \ Mk(s)) \in Nat
           /\ Len(s.stack) \in Nat /\ Room(s) \in Nat
<1>1. Mk(s) \subseteq Area /\ \A x \in Area : x \in Mk(s) <=> <<x, 0>> \in s.bits
    BY DEF Mk, Marked, Area
<1>2. IsFiniteSet(Area)
    BY HeapFacts, FS_Interval DEF Area
<1>3. IsFiniteSet(Area \ Mk(s)) /\ Cardinality(Area \ Mk(s)) \in Nat
    BY <1>2, FS_Difference, FS_CardinalityType
<1>4. Len(s.stack) \in Nat
    BY DEF MState
<1>5. QED BY <1>1, <1>3, <1>4 DEF Room

\* More bits, of headers, are more marks.
LEMMA MarksGrow ==
    ASSUME NEW s, NEW t, s.bits \subseteq t.bits
    PROVE  Mk(s) \subseteq Mk(t)
BY DEF Mk, Marked

\* What is left to do in a marking is a number.
LEMMA RoomType ==
    ASSUME Shape, JobOK, NEW s \in MState
    PROVE  Room(s) \in Nat /\ Len(s.stack) \in Nat /\ Cardinality(Area \ Mk(s)) \in Nat
BY MarkFacts

\* A mark more; the marking stack may have become longer, or have overflowed.
LEMMA MarkType ==
    ASSUME NEW s \in MState, NEW a \in Nat, NEW q \in Seq(Cells), NEW o \in BOOLEAN
    PROVE  [s EXCEPT !.bits = @ \union {<<a, 0>>}, !.stack = q, !.overflow = o] \in MState
<1> DEFINE B == s.bits \union {<<a, 0>>}
<1>1. B \in SUBSET (Nat \X Nat)
    BY DEF MState
<1> HIDE DEF B
<1>2. [s EXCEPT !.bits = B, !.stack = q, !.overflow = o] \in MState
    BY <1>1 DEF MState
<1>3. QED BY <1>2 DEF B

\* One object of the area more is marked: one less is left.
LEMMA MarkOne ==
    ASSUME Shape, JobOK, NEW s \in MState, NEW a \in Area, a \notin Mk(s),
           NEW t \in MState, t.bits = s.bits \union {<<a, 0>>}
    PROVE  /\ Mk(t) = Mk(s) \union {a}
           /\ Cardinality(Area \ Mk(t)) = Cardinality(Area \ Mk(s)) - 1
<1>1. Mk(t) = Mk(s) \union {a}
    BY DEF Mk, Marked, Area
<1> DEFINE rest == Area \ Mk(s)
<1>2. Area \ Mk(t) = rest \ {a} /\ a \in rest
    BY <1>1
<1>3. IsFiniteSet(rest)
    BY MarkFacts
<1> HIDE DEF rest
<1>4. Cardinality(rest \ {a}) = Cardinality(rest) - 1
    BY <1>2, <1>3, FS_RemoveElement
<1>5. QED BY <1>1, <1>2, <1>4 DEF rest

\* mark_and_push marks the object, and pushes it or overflows.
LEMMA MarkAndPushPushes ==
    ASSUME Shape, JobOK, NEW s \in MState, NEW a \in 0..Top
    PROVE  Pushed(s, MarkAndPush(s, a), {a})
<1> DEFINE r == MarkAndPush(s, a)
<1>1. CASE ~Unmarked(s, a)
    <2>1. r = s
        BY <1>1 DEF MarkAndPush
    <2>2. a \in Area => a \in Mk(s)
        BY <1>1, MarkFacts, HeapFacts DEF Unmarked
    <2>3. Room(s) \in Nat
        BY RoomType
    <2>4. Pushed(s, s, {a})
        BY <2>2, <2>3 DEF Pushed
    <2>5. QED BY <2>1, <2>4
<1>2. CASE Unmarked(s, a)
    <2>1. a \in Area /\ a \notin Mk(s) /\ a \in Cells /\ a \in Nat
        BY <1>2, MarkFacts, HeapFacts DEF Unmarked
    <2>2. <<a, 0>> \in Headers
        BY <2>1 DEF Headers
    <2>3. s.stack \in Seq(Cells) /\ s.overflow \in BOOLEAN
        BY DEF MState
    <2>4. CASE Len(s.stack) = StackLimit
        <3>1. r = [s EXCEPT !.bits = @ \union {<<a, 0>>}, !.stack = s.stack, !.overflow = TRUE]
            BY <1>2, <2>4 DEF MarkAndPush, MState
        <3>2. r \in MState
            <4>1. [s EXCEPT !.bits = @ \union {<<a, 0>>}, !.stack = s.stack, !.overflow = TRUE] \in MState
                BY <2>1, <2>3, MarkType
            <4>2. QED BY <3>1, <4>1
        <3>3. r.bits = s.bits \union {<<a, 0>>} /\ r.overflow = TRUE /\ r.stack = s.stack
            BY <3>1 DEF MState
        <3> HIDE DEF r
        <3>4. Mk(r) = Mk(s) \union {a} /\ Cardinality(Area \ Mk(r)) = Cardinality(Area \ Mk(s)) - 1
            BY <2>1, <3>2, <3>3, MarkOne
        <3>5. Room(r) <= Room(s)
            <4>1. Len(s.stack) \in Nat /\ Cardinality(Area \ Mk(s)) \in Nat
                BY RoomType
            <4>2. QED BY <3>3, <3>4, <4>1 DEF Room
        <3>6. Pushed(s, r, {a})
            BY <2>1, <2>2, <3>2, <3>3, <3>4, <3>5 DEF Pushed
        <3>7. QED BY <3>6 DEF r
    <2>5. CASE Len(s.stack) # StackLimit
        <3>1. r = [s EXCEPT !.bits = @ \union {<<a, 0>>}, !.stack = Append(s.stack, a),
                            !.overflow = s.overflow]
            BY <1>2, <2>5 DEF MarkAndPush, MState
        <3>2. /\ Append(s.stack, a) \in Seq(Cells)
              /\ ToSet(Append(s.stack, a)) = ToSet(s.stack) \union {a}
              /\ Len(Append(s.stack, a)) = Len(s.stack) + 1
            BY <2>1, <2>3, ListAppend
        <3>3. r \in MState
            <4> DEFINE q == Append(s.stack, a)
            <4>1. q \in Seq(Cells)
                BY <3>2
            <4> HIDE DEF q, r
            <4>2. [s EXCEPT !.bits = @ \union {<<a, 0>>}, !.stack = q, !.overflow = s.overflow] \in MState
                BY <2>1, <2>3, <4>1, MarkType
            <4>3. QED BY <3>1, <4>2 DEF q
        <3>4. /\ r.bits = s.bits \union {<<a, 0>>}
              /\ r.overflow = s.overflow /\ r.stack = Append(s.stack, a)
            BY <3>1 DEF MState
        <3> HIDE DEF r
        <3>5. Mk(r) = Mk(s) \union {a} /\ Cardinality(Area \ Mk(r)) = Cardinality(Area \ Mk(s)) - 1
            BY <2>1, <3>3, <3>4, MarkOne
        <3>6. Room(r) <= Room(s)
            <4>1. Len(s.stack) \in Nat /\ Cardinality(Area \ Mk(s)) \in Nat
                BY RoomType
            <4>2. QED BY <3>2, <3>4, <3>5, <4>1 DEF Room
        <3>7. Pushed(s, r, {a})
            BY <2>1, <2>2, <3>2, <3>3, <3>4, <3>5, <3>6 DEF Pushed
        <3>8. QED BY <3>7 DEF r
    <2>6. QED BY <2>4, <2>5
<1>3. QED BY <1>1, <1>2

\* Nothing has been pushed.
LEMMA PushedOnce ==
    ASSUME Shape, JobOK, NEW s \in MState
    PROVE  Pushed(s, s, {})
<1>1. Room(s) \in Nat
    BY RoomType
<1>2. QED BY <1>1 DEF Pushed

\* Some objects have been pushed, then others.
LEMMA PushedMore ==
    ASSUME Shape, JobOK, NEW s \in MState, NEW r \in MState, NEW t \in MState,
           NEW S, NEW T, Pushed(s, r, S), Pushed(r, t, T)
    PROVE  Pushed(s, t, S \union T)
<1>1. Mk(s) \subseteq Mk(r) /\ Mk(r) \subseteq Mk(t)
    BY MarksGrow DEF Pushed
<1>2. Room(t) <= Room(s)
    <2>1. Room(r) <= Room(s) /\ Room(t) <= Room(r)
        BY DEF Pushed
    <2>2. Room(s) \in Nat /\ Room(r) \in Nat /\ Room(t) \in Nat
        BY RoomType
    <2>3. QED BY <2>1, <2>2
<1>3. ~t.overflow => Mk(t) \ Mk(s) \subseteq ToSet(t.stack)
    BY <1>1 DEF Pushed
<1>4. ToSet(t.stack) \subseteq ToSet(s.stack) \union (Mk(t) \ Mk(s))
    BY <1>1 DEF Pushed
<1>5. QED BY <1>1, <1>2, <1>3, <1>4 DEF Pushed

\* Every field of an object is marked and pushed.
LEMMA PushAll ==
    ASSUME Shape, JobOK, NEW s \in MState, NEW seq \in Seq(0..Top)
    PROVE  Pushed(s, FoldLeft(MarkAndPush, s, seq), ToSet(seq))
<1>1. \A r \in MState, a \in 0..Top : MarkAndPush(r, a) \in MState
    BY MarkAndPushPushes DEF Pushed
<1> DEFINE n == Len(seq)
           E == 0..Top
<1>2. \E g \in [0..Len(seq) -> MState] : MarkAndPushSteps(g, s, seq)
    <2> HIDE DEF E
    <2>1. \A r \in MState, a \in E : MarkAndPush(r, a) \in MState
        BY <1>1 DEF E
    <2>2. seq \in Seq(E)
        BY DEF E
    <2>3. QED BY <2>1, <2>2, MarkAndPushFold
<1>3. PICK g \in [0..n -> MState] :
         /\ g[0] = s /\ g[n] = FoldLeft(MarkAndPush, s, seq)
         /\ \A i \in 1..n : g[i] = MarkAndPush(g[i - 1], seq[i])
    BY <1>2 DEF MarkAndPushSteps
<1> DEFINE Done(i) == {seq[j] : j \in 1..i}
           S == {i \in 0..n : Pushed(s, g[i], Done(i))}
<1>4. n \in Nat /\ \A i \in 1..n : seq[i] \in 0..Top
    OBVIOUS
<1> HIDE DEF n
<1>5. 0 \in S
    <2>1. Done(0) = {} /\ 0 \in 0..n
        BY <1>4
    <2>2. Pushed(s, g[0], {})
        BY <1>3, PushedOnce
    <2> HIDE DEF Done
    <2>3. QED BY <2>1, <2>2
<1>6. ASSUME NEW i \in 1..n, i - 1 \in S PROVE i \in S
    <2>1. i - 1 \in 0..n /\ i \in 0..n /\ Done(i) = Done(i - 1) \union {seq[i]}
        BY <1>4
    <2>2. Pushed(s, g[i - 1], Done(i - 1))
        BY <1>6
    <2>3. g[i - 1] \in MState /\ g[i] \in MState
        BY <2>1
    <2>4. Pushed(g[i - 1], g[i], {seq[i]})
        BY <1>3, <1>4, <2>3, MarkAndPushPushes
    <2> HIDE DEF Done
    <2>5. Pushed(s, g[i], Done(i - 1) \union {seq[i]})
        BY <2>2, <2>3, <2>4, PushedMore
    <2>6. QED BY <2>1, <2>5
<1>7. n \in S
    <2> HIDE DEF S
    <2>1. 0..n \subseteq S
        BY <1>4, <1>5, <1>6, StepByStep
    <2>2. QED BY <1>4, <2>1
<1>8. Done(n) = ToSet(seq)
    BY DEF n, ToSet
<1>9. QED
    <2> HIDE DEF Done
    <2>1. QED BY <1>3, <1>7, <1>8

-----------------------------------------------------------------------------
(* Following what is marked.                                               *)

Pop(p) ==
    IF p.stack = <<>> THEN p
    ELSE FoldLeft(MarkAndPush, [p EXCEPT !.stack = Front(@)], mem[Last(p.stack)].ref)

\* From s, a has been marked, and what it leads to is being marked.
Following(s, a, p) ==
    /\ p \in MState
    /\ s.bits \subseteq p.bits /\ p.bits \subseteq s.bits \union Headers
    /\ a \in Mk(p)
    /\ ToSet(p.stack) \subseteq Mk(p) \ Mk(s)
    /\ s.overflow => p.overflow
    /\ \A C \in SUBSET Cells : Closed(C) /\ a \in C => Mk(p) \subseteq Mk(s) \union C
    /\ ~p.overflow =>
          \A x \in (Mk(p) \ Mk(s)) \ ToSet(p.stack) : Refs(x) \intersect Area \subseteq Mk(p)

\* The stack without its last element.
LEMMA PopFacts ==
    ASSUME Shape, JobOK, NEW p \in MState, p.stack # <<>>,
           NEW q, q = [p EXCEPT !.stack = Front(@)]
    PROVE  /\ q \in MState /\ q.bits = p.bits /\ q.overflow = p.overflow /\ Mk(q) = Mk(p)
           /\ Room(q) = Room(p) - 1
           /\ ToSet(p.stack) = ToSet(q.stack) \union {Last(p.stack)}
<1>1. p.stack \in Seq(Cells)
    BY DEF MState
<1>2. /\ Front(p.stack) \in Seq(Cells) /\ Len(Front(p.stack)) = Len(p.stack) - 1
      /\ ToSet(p.stack) = ToSet(Front(p.stack)) \union {Last(p.stack)}
    BY <1>1, ListLast
<1>3. q \in MState /\ q.bits = p.bits /\ q.overflow = p.overflow /\ q.stack = Front(p.stack)
    BY <1>2 DEF MState
<1>4. Mk(q) = Mk(p)
    BY <1>3 DEF Mk
<1>5. Len(p.stack) \in Nat /\ Cardinality(Area \ Mk(p)) \in Nat
    BY RoomType
<1>6. Room(q) = Room(p) - 1
    <2>1. Len(q.stack) = Len(p.stack) - 1
        BY <1>2, <1>3
    <2>2. Room(q) = Cardinality(Area \ Mk(p)) + Len(q.stack)
        BY <1>4, Zenon DEF Room
    <2>3. Room(p) = Cardinality(Area \ Mk(p)) + Len(p.stack)
        BY DEF Room
    <2>4. QED BY <1>5, <2>1, <2>2, <2>3
<1>7. QED BY <1>2, <1>3, <1>4, <1>6

\* One object is popped and followed: less is left to do.
LEMMA PopFollows ==
    ASSUME Shape, JobOK, NEW s \in MState, NEW a, NEW p \in MState, Following(s, a, p),
           p.stack # <<>>
    PROVE  Following(s, a, Pop(p)) /\ Room(Pop(p)) < Room(p)
<1> DEFINE q == [p EXCEPT !.stack = Front(@)]
           b == Last(p.stack)
           r == FoldLeft(MarkAndPush, q, mem[b].ref)
<1>1. /\ q \in MState /\ q.bits = p.bits /\ q.overflow = p.overflow /\ Mk(q) = Mk(p)
      /\ Room(q) = Room(p) - 1
      /\ ToSet(p.stack) = ToSet(q.stack) \union {b}
    BY PopFacts
<1>2. Pop(p) = r
    BY DEF Pop
<1> HIDE DEF q, b
<1>3. b \in Mk(p) /\ b \notin Mk(s) /\ b \in Area /\ b \in Cells
    BY <1>1, MarkFacts, HeapFacts DEF Following
<1> DEFINE R == ToSet(mem[b].ref)
<1>4. mem[b].ref \in Seq(0..Top) /\ R \ {0} = Refs(b)
    BY <1>3, CellFacts DEF Refs
<1>5. Pushed(q, r, R)
    BY <1>1, <1>4, PushAll
<1> HIDE DEF r, R
<1>6. r \in MState /\ Mk(p) \subseteq Mk(r) /\ Mk(r) \subseteq Area /\ 0 \notin Area
    <2>1. r \in MState /\ q.bits \subseteq r.bits
        BY <1>5 DEF Pushed
    <2>2. Mk(r) \subseteq Area
        BY <2>1, MarkFacts
    <2>3. Mk(p) \subseteq Mk(r)
        BY <1>1, <2>1, MarksGrow
    <2>4. QED BY <2>1, <2>2, <2>3, HeapFacts DEF Area
<1>7. Mk(s) \subseteq Mk(p)
    BY MarksGrow DEF Following
<1>8. Room(r) < Room(p)
    <2>1. Room(r) <= Room(q)
        BY <1>5 DEF Pushed
    <2>2. Room(r) \in Nat /\ Room(p) \in Nat
        BY <1>6, RoomType
    <2>3. QED BY <1>1, <2>1, <2>2
<1>9. ToSet(r.stack) \subseteq Mk(r) \ Mk(s)
    BY <1>1, <1>5, <1>6, <1>7 DEF Pushed, Following
<1>10. ASSUME NEW C \in SUBSET Cells, Closed(C), a \in C
       PROVE  Mk(r) \subseteq Mk(s) \union C
    <2>1. Mk(p) \subseteq Mk(s) \union C
        BY <1>10 DEF Following
    <2>2. Refs(b) \subseteq C
        BY <1>3, <1>10, <2>1 DEF Closed
    <2>3. Mk(r) \subseteq Mk(p) \union R
        BY <1>1, <1>5 DEF Pushed
    <2>4. QED BY <1>4, <1>6, <2>1, <2>2, <2>3
<1>11. ASSUME ~r.overflow, NEW x \in (Mk(r) \ Mk(s)) \ ToSet(r.stack)
       PROVE  Refs(x) \intersect Area \subseteq Mk(r)
    <2>1. ~p.overflow /\ ToSet(q.stack) \subseteq ToSet(r.stack)
        BY <1>1, <1>5, <1>11 DEF Pushed
    <2>2. x \in Mk(p)
        BY <1>1, <1>5, <1>11 DEF Pushed
    <2>3. CASE x = b
        BY <1>4, <1>5, <2>3 DEF Pushed
    <2>4. CASE x # b
        <3>1. x \in (Mk(p) \ Mk(s)) \ ToSet(p.stack)
            BY <1>1, <1>11, <2>1, <2>2, <2>4
        <3>2. Refs(x) \intersect Area \subseteq Mk(p)
            BY <2>1, <3>1 DEF Following
        <3>3. QED BY <1>6, <3>2
    <2>5. QED BY <2>3, <2>4
<1>12. /\ s.bits \subseteq r.bits /\ r.bits \subseteq s.bits \union Headers /\ a \in Mk(r)
       /\ s.overflow => r.overflow
    BY <1>1, <1>5, <1>6 DEF Pushed, Following
<1>13. Following(s, a, r)
    BY <1>6, <1>9, <1>10, <1>11, <1>12 DEF Following
<1>14. QED BY <1>2, <1>8, <1>13

\* continue_marking ends with an empty stack, and has followed all from the object a.
LEMMA ContinueFollows ==
    ASSUME Shape, JobOK, NEW s \in Quiet, NEW a \in Area, a \notin Mk(s),
           NEW q, q = [s EXCEPT !.bits = @ \union {<<a, 0>>}, !.stack = <<a>>]
    PROVE  MarkedFrom(s, ContinueMarking(q), {a})
<1>1. s \in MState /\ s.stack = <<>> /\ s.overflow \in BOOLEAN
    BY DEF Quiet, MState
<1>2. /\ q \in MState /\ q.bits = s.bits \union {<<a, 0>>} /\ q.overflow = s.overflow
      /\ q.stack = <<a>>
    <2>1. a \in Nat /\ <<a>> \in Seq(Cells)
        BY HeapFacts
    <2>2. [s EXCEPT !.bits = @ \union {<<a, 0>>}, !.stack = <<a>>, !.overflow = s.overflow] \in MState
        BY <1>1, <2>1, MarkType
    <2>3. q = [s EXCEPT !.bits = @ \union {<<a, 0>>}, !.stack = <<a>>, !.overflow = s.overflow]
        BY <1>1 DEF MState
    <2>4. q \in MState
        BY <2>2, <2>3
    <2>5. q.bits = s.bits \union {<<a, 0>>} /\ q.overflow = s.overflow /\ q.stack = <<a>>
        BY <1>1 DEF MState
    <2>6. QED BY <2>4, <2>5
<1>3. Mk(q) = Mk(s) \union {a} /\ Cardinality(Area \ Mk(q)) = Cardinality(Area \ Mk(s)) - 1
    BY <1>1, <1>2, MarkOne
<1>4. Mk(s) \subseteq Area /\ ToSet(q.stack) = {a} /\ <<a, 0>> \in Headers
    <2>1. ToSet(<<a>>) = {a}
        BY DEF ToSet
    <2>2. QED BY <1>1, <1>2, <2>1, MarkFacts DEF Headers
<1>5. Following(s, a, q)
    BY <1>1, <1>2, <1>3, <1>4 DEF Following
<1>6. Room(q) <= Top
    <2>1. Top \in Nat /\ AreaStart \in Nat
        BY HeapFacts
    <2>2. IsFiniteSet(Area) /\ Cardinality(Area) <= Top
        <3>1. AreaStart + 1 \in Int /\ Top \in Int /\ AreaStart <= Top
            BY HeapFacts
        <3>2. /\ IsFiniteSet(Area)
              /\ Cardinality(Area) = IF AreaStart + 1 > Top THEN 0 ELSE Top - (AreaStart + 1) + 1
            BY <3>1, FS_Interval DEF Area
        <3>3. QED BY <2>1, <3>1, <3>2
    <2>3. Cardinality(Area \ Mk(s)) <= Cardinality(Area)
        BY <2>2, FS_Subset
    <2>4. Len(q.stack) = 1
        BY <1>2
    <2>5. Cardinality(Area \ Mk(s)) \in Nat /\ Cardinality(Area) \in Nat
        BY <1>1, <2>2, RoomType, FS_CardinalityType
    <2>6. QED BY <1>3, <2>1, <2>2, <2>3, <2>4, <2>5 DEF Room
<1> DEFINE n == Top
           F == [p \in MState |-> Pop(p)]
<1>7. n \in Nat
    BY HeapFacts
<1>8. \A p \in MState : Pop(p) \in MState
    <2> SUFFICES ASSUME NEW p \in MState PROVE Pop(p) \in MState
        OBVIOUS
    <2>1. CASE p.stack = <<>>
        BY <2>1 DEF Pop
    <2>2. CASE p.stack # <<>>
        <3> DEFINE r == [p EXCEPT !.stack = Front(@)]
                   b == Last(p.stack)
        <3>1. r \in MState
            BY <2>2, PopFacts
        <3>2. b \in Cells
            BY <2>2, ListLast DEF MState
        <3>3. Pop(p) = FoldLeft(MarkAndPush, r, mem[b].ref)
            BY <2>2 DEF Pop
        <3> HIDE DEF r, b
        <3>4. mem[b].ref \in Seq(0..Top)
            BY <3>2, CellFacts
        <3>5. FoldLeft(MarkAndPush, r, mem[b].ref) \in MState
            BY <3>1, <3>4, PushAll DEF Pushed
        <3>6. QED BY <3>3, <3>5
    <2>3. QED BY <2>1, <2>2
<1>9. F \in [MState -> MState] /\ \A p \in MState : F[p] = Pop(p)
    BY <1>8
<1> HIDE DEF n, F
<1>10. PICK h \in [0..n -> MState] : RepeatOf(h, q, n, F)
    BY <1>2, <1>7, <1>9, RepeatExists
<1>11. \A i \in 0..n : h[i] = IF i = 0 THEN q ELSE Pop(h[i - 1])
    <2>1. \A i \in 0..n : h[i] = IF i = 0 THEN q ELSE F[h[i - 1]]
        BY <1>10 DEF RepeatOf
    <2>2. \A i \in 0..n : i # 0 => i - 1 \in 0..n
        BY <1>7
    <2>3. QED BY <1>9, <2>1, <2>2
<1>12. ContinueMarking(q) = h[n]
    <2> DEFINE G(f) == [i \in 0..Top |->
                         IF i = 0 THEN q
                         ELSE LET p == f[i - 1]
                              IN  IF p.stack = <<>> THEN p
                                  ELSE FoldLeft(MarkAndPush, [p EXCEPT !.stack = Front(@)],
                                                mem[Last(p.stack)].ref)]
               popped == CHOOSE f : f = G(f)
    <2>1. ContinueMarking(q) = popped[Top]
        BY Zenon DEF ContinueMarking
    <2>2. h = G(h)
        BY <1>11 DEF Pop, n
    <2>3. popped = G(popped)
        BY <2>2, Zenon
    <2> HIDE DEF popped
    <2>4. \A i \in 0..n : popped[i] = IF i = 0 THEN q ELSE Pop(popped[i - 1])
        BY <2>3 DEF Pop, n
    <2> DEFINE S == {i \in 0..n : popped[i] = h[i]}
    <2>5. 0 \in S
        <3>1. 0 \in 0..n
            BY <1>7
        <3>2. popped[0] = q /\ h[0] = q
            BY <1>11, <2>4, <3>1
        <3>3. QED BY <3>1, <3>2
    <2>6. ASSUME NEW i \in 1..n, i - 1 \in S PROVE i \in S
        <3>1. i \in 0..n /\ i # 0 /\ popped[i - 1] = h[i - 1]
            BY <1>7, <2>6
        <3>2. QED BY <1>11, <2>4, <3>1
    <2> HIDE DEF S
    <2>7. 0..n \subseteq S /\ n \in 0..n
        BY <1>7, <2>5, <2>6, StepByStep
    <2>8. popped[n] = h[n]
        BY <2>7 DEF S
    <2>9. QED BY <2>1, <2>8 DEF n
<1> DEFINE S == {i \in 0..n : Following(s, a, h[i]) /\ (h[i].stack = <<>> \/ Room(h[i]) + i <= n)}
<1>13. 0 \in S
    <2>1. h[0] = q /\ 0 \in 0..n
        BY <1>7, <1>11
    <2>2. Room(q) \in Nat
        BY <1>2, RoomType
    <2>3. Room(q) + 0 <= n
        BY <1>6, <2>2 DEF n
    <2>4. QED BY <1>5, <2>1, <2>3
<1>14. ASSUME NEW i \in 1..n, i - 1 \in S PROVE i \in S
    <2>1. i - 1 \in 0..n /\ i \in 0..n /\ i # 0
        BY <1>7
    <2> DEFINE p == h[i - 1]
    <2>2. p \in MState /\ h[i] = Pop(p)
        BY <1>11, <2>1
    <2>3. Following(s, a, p) /\ (p.stack = <<>> \/ Room(p) + (i - 1) <= n)
        BY <1>14
    <2> HIDE DEF p
    <2>4. CASE p.stack = <<>>
        <3>1. h[i] = p
            BY <2>2, <2>4 DEF Pop
        <3>2. QED BY <2>1, <2>3, <2>4, <3>1
    <2>5. CASE p.stack # <<>>
        <3>1. Following(s, a, Pop(p)) /\ Room(Pop(p)) < Room(p)
            BY <1>1, <2>2, <2>3, <2>5, PopFollows
        <3>2. Room(Pop(p)) \in Nat /\ Room(p) \in Nat
            BY <1>8, <2>2, RoomType
        <3>3. Room(Pop(p)) + i <= n
            BY <1>7, <2>1, <2>3, <2>5, <3>1, <3>2
        <3>4. QED BY <2>1, <2>2, <3>1, <3>3
    <2>6. QED BY <2>4, <2>5
<1>15. n \in S
    <2> HIDE DEF S
    <2>1. 0..n \subseteq S
        BY <1>7, <1>13, <1>14, StepByStep
    <2>2. QED BY <1>7, <2>1
<1> DEFINE t == h[n]
<1>16. Following(s, a, t) /\ (t.stack = <<>> \/ Room(t) + n <= n) /\ t \in MState
    BY <1>15 DEF Following
<1> HIDE DEF t
<1>17. t.stack = <<>>
    <2>1. SUFFICES ASSUME Room(t) + n <= n PROVE t.stack = <<>>
        BY <1>16
    <2>2. Cardinality(Area \ Mk(t)) \in Nat /\ Len(t.stack) \in Nat
        BY <1>16, RoomType
    <2>3. Len(t.stack) = 0
        BY <1>7, <2>1, <2>2 DEF Room
    <2>4. t.stack \in Seq(Cells)
        BY <1>16 DEF MState
    <2>5. QED BY <2>3, <2>4
<1>18. ToSet(t.stack) = {} /\ {a} \intersect Cells = {a}
    BY <1>17, HeapFacts DEF ToSet
<1>19. MarkedFrom(s, t, {a})
    <2>1. t \in Quiet
        BY <1>16, <1>17 DEF Quiet
    <2>2. QED BY <1>16, <1>18, <2>1 DEF MarkedFrom, Following
<1>20. QED BY <1>12, <1>19 DEF t

-----------------------------------------------------------------------------
(* Marking from several objects.                                           *)

\* Nothing is marked from roots that are marked already.
LEMMA MarkedNothing ==
    ASSUME NEW s \in Quiet, NEW R, R \intersect Area \subseteq Mk(s)
    PROVE  MarkedFrom(s, s, R)
BY DEF MarkedFrom

\* Marking from some roots, then from others.
LEMMA MarkedMore ==
    ASSUME NEW s, NEW t, NEW u, NEW R, NEW Q,
           MarkedFrom(s, t, R), MarkedFrom(t, u, Q)
    PROVE  MarkedFrom(s, u, R \union Q)
<1>1. Mk(s) \subseteq Mk(t) /\ Mk(t) \subseteq Mk(u)
    BY MarksGrow DEF MarkedFrom
<1>2. ASSUME NEW C \in SUBSET Cells, Closed(C), (R \union Q) \intersect Cells \subseteq C
      PROVE  Mk(u) \subseteq Mk(s) \union C
    <2>1. Mk(t) \subseteq Mk(s) \union C
        BY <1>2 DEF MarkedFrom
    <2>2. Mk(u) \subseteq Mk(t) \union C
        BY <1>2 DEF MarkedFrom
    <2>3. QED BY <2>1, <2>2
<1>3. ASSUME ~u.overflow, NEW x \in Mk(u) \ Mk(s)
      PROVE  Refs(x) \intersect Area \subseteq Mk(u)
    <2>1. CASE x \in Mk(t)
        <3>1. Refs(x) \intersect Area \subseteq Mk(t)
            BY <1>3, <2>1 DEF MarkedFrom
        <3>2. QED BY <1>1, <3>1
    <2>2. CASE x \notin Mk(t)
        BY <1>3, <2>2 DEF MarkedFrom
    <2>3. QED BY <2>1, <2>2
<1>4. /\ u \in Quiet
      /\ s.bits \subseteq u.bits /\ u.bits \subseteq s.bits \union Headers
      /\ (R \union Q) \intersect Area \subseteq Mk(u)
      /\ s.overflow => u.overflow
    BY <1>1 DEF MarkedFrom
<1>5. u # s => ~(Mk(u) \subseteq Mk(s))
    BY <1>1 DEF MarkedFrom
<1>6. QED BY <1>2, <1>3, <1>4, <1>5 DEF MarkedFrom

\* mark_root_and_stack marks from one root.
LEMMA MarkRootMarks ==
    ASSUME Shape, JobOK, NEW s \in Quiet, NEW a \in 0..Top
    PROVE  MarkedFrom(s, MarkRoot(s, a), {a})
<1>1. s \in MState
    BY DEF Quiet
<1>2. CASE ~Unmarked(s, a)
    <2>1. MarkRoot(s, a) = s
        BY <1>2 DEF MarkRoot
    <2>2. {a} \intersect Area \subseteq Mk(s)
        BY <1>1, <1>2, MarkFacts, HeapFacts DEF Unmarked
    <2>3. QED BY <2>1, <2>2, MarkedNothing
<1>3. CASE Unmarked(s, a)
    <2> DEFINE q == [s EXCEPT !.bits = @ \union {<<a, 0>>}, !.stack = <<a>>]
    <2>1. MarkRoot(s, a) = ContinueMarking(q)
        BY <1>3 DEF MarkRoot
    <2>2. a \in Area /\ a \notin Mk(s)
        BY <1>1, <1>3, MarkFacts, HeapFacts DEF Unmarked
    <2>3. q = [s EXCEPT !.bits = @ \union {<<a, 0>>}, !.stack = <<a>>]
        OBVIOUS
    <2> HIDE DEF q
    <2>4. MarkedFrom(s, ContinueMarking(q), {a})
        BY <2>2, <2>3, ContinueFollows
    <2>5. QED BY <2>1, <2>4
<1>4. QED BY <1>2, <1>3

\* Marking from the roots of one list after another.
LEMMA MarkedSteps ==
    ASSUME NEW n \in Nat, NEW g \in [0..n -> Quiet], NEW Q,
           \A i \in 1..n : MarkedFrom(g[i - 1], g[i], Q[i])
    PROVE  MarkedFrom(g[0], g[n], UNION {Q[i] : i \in 1..n})
<1> DEFINE U(i) == UNION {Q[j] : j \in 1..i}
           S == {i \in 0..n : MarkedFrom(g[0], g[i], U(i))}
<1>1. 0 \in S
    <2>1. 0 \in 0..n /\ U(0) = {}
        OBVIOUS
    <2> HIDE DEF U
    <2>2. MarkedFrom(g[0], g[0], U(0))
        BY <2>1, MarkedNothing
    <2>3. QED BY <2>1, <2>2
<1>2. ASSUME NEW i \in 1..n, i - 1 \in S PROVE i \in S
    <2>1. i \in 0..n /\ MarkedFrom(g[0], g[i - 1], U(i - 1))
        BY <1>2
    <2>2. U(i) = U(i - 1) \union Q[i]
        <3>1. 1..i = (1..(i - 1)) \union {i}
            OBVIOUS
        <3>2. QED BY <3>1
    <2> HIDE DEF U
    <2>3. MarkedFrom(g[0], g[i], U(i - 1) \union Q[i])
        BY <2>1, MarkedMore
    <2>4. QED BY <2>1, <2>2, <2>3
<1>3. n \in S
    <2> HIDE DEF S
    <2>1. 0..n \subseteq S
        BY <1>1, <1>2, StepByStep
    <2>2. QED BY <2>1
<1>4. QED BY <1>3

\* Marking from a list of roots.
LEMMA MarkRootsMark ==
    ASSUME Shape, JobOK, NEW s \in Quiet, NEW seq \in Seq(0..Top)
    PROVE  MarkedFrom(s, MarkRoots(s, seq), ToSet(seq))
<1> DEFINE n == Len(seq)
           E == 0..Top
<1>1. \E g \in [0..Len(seq) -> Quiet] : MarkRootSteps(g, s, seq)
    <2>1. \A r \in Quiet, a \in E : MarkRoot(r, a) \in Quiet
        BY MarkRootMarks DEF MarkedFrom
    <2>2. seq \in Seq(E)
        OBVIOUS
    <2> HIDE DEF E
    <2>3. QED BY <2>1, <2>2, MarkRootFold
<1>2. PICK g \in [0..n -> Quiet] :
         /\ g[0] = s /\ g[n] = FoldLeft(MarkRoot, s, seq)
         /\ \A i \in 1..n : g[i] = MarkRoot(g[i - 1], seq[i])
    BY <1>1 DEF MarkRootSteps
<1>3. n \in Nat /\ \A i \in 1..n : seq[i] \in 0..Top
    OBVIOUS
<1> DEFINE Q == [i \in 1..n |-> {seq[i]}]
<1>4. UNION {Q[i] : i \in 1..n} = ToSet(seq)
    BY DEF ToSet
<1> HIDE DEF n
<1>5. \A i \in 1..n : MarkedFrom(g[i - 1], g[i], Q[i])
    <2> SUFFICES ASSUME NEW i \in 1..n PROVE MarkedFrom(g[i - 1], g[i], {seq[i]})
        OBVIOUS
    <2>1. g[i - 1] \in Quiet
        BY <1>3
    <2>2. QED BY <1>2, <1>3, <2>1, MarkRootMarks
<1> HIDE DEF Q
<1>6. MarkedFrom(g[0], g[n], UNION {Q[i] : i \in 1..n})
    BY <1>3, <1>5, MarkedSteps
<1>7. QED BY <1>2, <1>4, <1>6 DEF MarkRoots

\* What the slots of a refer to whose bit is set.
SlotRoots(a) == ToSet([f \in DOMAIN mem[a].ref |-> IF <<a, f>> \in bits THEN mem[a].ref[f] ELSE 0])

\* Marking from the remembered slots of one object.
LEMMA MarkSlotsMarks ==
    ASSUME Shape, JobOK, NEW s \in Quiet, NEW a \in Cells
    PROVE  MarkedFrom(s, MarkSlots(s, a), SlotRoots(a))
<1> DEFINE seq == [f \in DOMAIN mem[a].ref |-> IF <<a, f>> \in bits THEN mem[a].ref[f] ELSE 0]
           n == Len(mem[a].ref)
<1>1. /\ n \in Nat /\ DOMAIN mem[a].ref = 1..n /\ Top \in Nat
      /\ \A f \in 1..n : mem[a].ref[f] \in 0..Top
    BY CellFacts, HeapFacts
<1> HIDE DEF n
<1>2. seq \in [1..n -> Nat] /\ \A f \in 1..n : seq[f] \in 0..Top
    BY <1>1
<1> HIDE DEF seq
<1>3. seq \in Seq(Nat) /\ Len(seq) = n
    BY <1>1, <1>2
<1>4. seq \in Seq(0..Top)
    BY <1>2, <1>3, ListOfOthers
<1>5. MarkedFrom(s, MarkRoots(s, seq), ToSet(seq))
    BY <1>4, MarkRootsMark
<1>6. QED BY <1>5 DEF seq, MarkSlots, SlotRoots

\* What a refers to, if it is marked.
AgainRoots(a) == IF <<a, 0>> \in bits THEN ToSet(mem[a].ref) ELSE {}

\* Marking from what one marked object refers to.
LEMMA MarkAgainMarks ==
    ASSUME Shape, JobOK, NEW s \in Quiet, NEW a \in Cells
    PROVE  MarkedFrom(s, MarkAgain(s, a), AgainRoots(a))
<1>1. mem[a].ref \in Seq(0..Top)
    BY CellFacts
<1>2. MarkedFrom(s, MarkRoots(s, mem[a].ref), ToSet(mem[a].ref))
    BY <1>1, MarkRootsMark
<1>3. MarkedFrom(s, s, {})
    BY MarkedNothing
<1>4. QED BY <1>2, <1>3 DEF MarkAgain, AgainRoots

\* Marking from the remembered slots of several objects.
LEMMA MarkSlotsAll ==
    ASSUME Shape, JobOK, NEW s \in Quiet, NEW n \in Nat, NEW seq \in [1..n -> Cells]
    PROVE  MarkedFrom(s, FoldLeft(MarkSlots, s, seq), UNION {SlotRoots(seq[i]) : i \in 1..n})
<1>1. \A r \in Quiet, a \in Cells : MarkSlots(r, a) \in Quiet
    BY MarkSlotsMarks DEF MarkedFrom
<1>2. seq \in Seq(Cells) /\ Len(seq) = n
    OBVIOUS
<1>3. \E g \in [0..Len(seq) -> Quiet] : MarkSlotsSteps(g, s, seq)
    BY <1>1, <1>2, MarkSlotsFold
<1>4. PICK g \in [0..n -> Quiet] :
         /\ g[0] = s /\ g[n] = FoldLeft(MarkSlots, s, seq)
         /\ \A i \in 1..n : g[i] = MarkSlots(g[i - 1], seq[i])
    BY <1>2, <1>3 DEF MarkSlotsSteps
<1> DEFINE Q == [i \in 1..n |-> SlotRoots(seq[i])]
<1>5. \A i \in 1..n : MarkedFrom(g[i - 1], g[i], Q[i])
    <2> SUFFICES ASSUME NEW i \in 1..n PROVE MarkedFrom(g[i - 1], g[i], SlotRoots(seq[i]))
        OBVIOUS
    <2>1. g[i - 1] \in Quiet
        OBVIOUS
    <2>2. QED BY <1>4, <2>1, MarkSlotsMarks
<1>6. UNION {Q[i] : i \in 1..n} = UNION {SlotRoots(seq[i]) : i \in 1..n}
    OBVIOUS
<1> HIDE DEF Q
<1>7. MarkedFrom(g[0], g[n], UNION {Q[i] : i \in 1..n})
    BY <1>5, MarkedSteps
<1>8. QED BY <1>4, <1>6, <1>7

\* Marking from what several marked objects refer to.
LEMMA MarkAgainAll ==
    ASSUME Shape, JobOK, NEW s \in Quiet, NEW n \in Nat, NEW seq \in [1..n -> Cells]
    PROVE  MarkedFrom(s, FoldLeft(MarkAgain, s, seq), UNION {AgainRoots(seq[i]) : i \in 1..n})
<1>1. \A r \in Quiet, a \in Cells : MarkAgain(r, a) \in Quiet
    BY MarkAgainMarks DEF MarkedFrom
<1>2. seq \in Seq(Cells) /\ Len(seq) = n
    OBVIOUS
<1>3. \E g \in [0..Len(seq) -> Quiet] : MarkAgainSteps(g, s, seq)
    BY <1>1, <1>2, MarkAgainFold
<1>4. PICK g \in [0..n -> Quiet] :
         /\ g[0] = s /\ g[n] = FoldLeft(MarkAgain, s, seq)
         /\ \A i \in 1..n : g[i] = MarkAgain(g[i - 1], seq[i])
    BY <1>2, <1>3 DEF MarkAgainSteps
<1> DEFINE Q == [i \in 1..n |-> AgainRoots(seq[i])]
<1>5. \A i \in 1..n : MarkedFrom(g[i - 1], g[i], Q[i])
    <2> SUFFICES ASSUME NEW i \in 1..n PROVE MarkedFrom(g[i - 1], g[i], AgainRoots(seq[i]))
        OBVIOUS
    <2>1. g[i - 1] \in Quiet
        OBVIOUS
    <2>2. QED BY <1>4, <2>1, MarkAgainMarks
<1>6. UNION {Q[i] : i \in 1..n} = UNION {AgainRoots(seq[i]) : i \in 1..n}
    OBVIOUS
<1> HIDE DEF Q
<1>7. MarkedFrom(g[0], g[n], UNION {Q[i] : i \in 1..n})
    BY <1>5, MarkedSteps
<1>8. QED BY <1>4, <1>6, <1>7

-----------------------------------------------------------------------------
(* Reachability.                                                           *)

\* What can be reached is the least closed set.
LEMMA ReachedFacts ==
    ASSUME Shape, JobOK, NEW A \in SUBSET Cells
    PROVE  /\ Reached(A) \in SUBSET Cells
           /\ A \subseteq Reached(A)
           /\ Closed(Reached(A))
           /\ \A C \in SUBSET Cells : A \subseteq C /\ Closed(C) => Reached(A) \subseteq C
<1>1. Reached(A) \in SUBSET Cells /\ A \subseteq Reached(A)
    BY DEF Reached
<1>2. \A C \in SUBSET Cells : A \subseteq C /\ Closed(C) => Reached(A) \subseteq C
    BY DEF Reached
<1>3. Closed(Reached(A))
    <2> SUFFICES ASSUME NEW a \in Reached(A), NEW x \in Refs(a)
                 PROVE  x \in Reached(A)
        BY DEF Closed
    <2>1. a \in Cells /\ x \in Cells
        BY <1>1, CellFacts
    <2>2. ASSUME NEW C \in SUBSET Cells, A \subseteq C, Closed(C)
          PROVE  x \in C
        <3>1. a \in C
            BY <1>2, <2>2
        <3>2. QED BY <2>2, <3>1 DEF Closed
    <2>3. QED BY <2>1, <2>2 DEF Reached
<1>4. QED BY <1>1, <1>2, <1>3

\* From more cells more can be reached.
LEMMA ReachedGrows ==
    ASSUME NEW A, NEW B, A \subseteq B
    PROVE  Reached(A) \subseteq Reached(B)
BY DEF Reached

\* Closure computes it.
LEMMA ClosureIsReached ==
    ASSUME Shape, JobOK, NEW A \in SUBSET Cells
    PROVE  Closure(A) = Reached(A)
<1> DEFINE More(X) == X \union ((UNION {Range(mem[a].ref) : a \in X}) \ {0})
           n == Top
           V == SUBSET Cells
           F == [X \in V |-> More(X)]
<1>1. ASSUME NEW X \in V
      PROVE  /\ More(X) \in V /\ X \subseteq More(X)
             /\ \A a \in X : Refs(a) \subseteq More(X)
             /\ \A x \in More(X) : x \in X \/ \E a \in X : x \in Refs(a)
    <2>1. \A a \in X : Refs(a) = Range(mem[a].ref) \ {0} /\ Refs(a) \subseteq Cells
        BY CellFacts DEF Refs, Range, ToSet
    <2>2. QED BY <2>1
<1>2. n \in Nat
    BY HeapFacts
<1> HIDE DEF More
<1>3. F \in [V -> V] /\ \A X \in V : F[X] = More(X)
    BY <1>1
<1> HIDE DEF n, F
<1>4. PICK h \in [0..n -> V] : RepeatOf(h, A, n, F)
    BY <1>2, <1>3, RepeatExists
<1>5. \A i \in 0..n : h[i] = IF i = 0 THEN A ELSE More(h[i - 1])
    <2>1. \A i \in 0..n : h[i] = IF i = 0 THEN A ELSE F[h[i - 1]]
        BY <1>4 DEF RepeatOf
    <2>2. \A i \in 0..n : i # 0 => i - 1 \in 0..n
        BY <1>2
    <2>3. QED BY <1>3, <2>1, <2>2
<1>6. Closure(A) = h[n]
    <2> DEFINE G(f) == [i \in 0..Top |->
                         IF i = 0 THEN A
                         ELSE LET X == f[i - 1]
                              IN  X \union ((UNION {Range(mem[a].ref) : a \in X}) \ {0})]
               after == CHOOSE f : f = G(f)
    <2>1. Closure(A) = after[Top]
        BY Zenon DEF Closure
    <2>2. h = G(h)
        BY <1>5 DEF More, n
    <2>3. after = G(after)
        BY <2>2, Zenon
    <2> HIDE DEF after
    <2>4. \A i \in 0..n : after[i] = IF i = 0 THEN A ELSE More(after[i - 1])
        BY <2>3 DEF More, n
    <2> DEFINE S == {i \in 0..n : after[i] = h[i]}
    <2>5. 0 \in S
        <3>1. 0 \in 0..n
            BY <1>2
        <3>2. after[0] = A /\ h[0] = A
            BY <1>5, <2>4, <3>1
        <3>3. QED BY <3>1, <3>2
    <2>6. ASSUME NEW i \in 1..n, i - 1 \in S PROVE i \in S
        <3>1. i \in 0..n /\ i # 0 /\ after[i - 1] = h[i - 1]
            BY <1>2, <2>6
        <3>2. QED BY <1>5, <2>4, <3>1
    <2> HIDE DEF S
    <2>7. 0..n \subseteq S /\ n \in 0..n
        BY <1>2, <2>5, <2>6, StepByStep
    <2>8. after[n] = h[n]
        BY <2>7 DEF S
    <2>9. QED BY <2>1, <2>8 DEF n
<1>7. IsFiniteSet(Cells) /\ Cardinality(Cells) = n
    <2>1. IsFiniteSet(1..n) /\ Cardinality(1..n) = n
        BY <1>2, FS_Interval
    <2>2. QED BY <2>1 DEF n, Cells
<1>8. \A X \in V : IsFiniteSet(X) /\ Cardinality(X) \in Nat
    BY <1>7, FS_Subset, FS_CardinalityType
<1> DEFINE S == {i \in 0..n : /\ A \subseteq h[i] /\ h[i] \subseteq Reached(A)
                              /\ Closed(h[i]) \/ Cardinality(h[i]) >= i}
<1>9. 0 \in S
    <2>1. 0 \in 0..n /\ h[0] = A
        BY <1>2, <1>5
    <2>2. Cardinality(A) >= 0
        BY <1>8
    <2>3. A \subseteq Reached(A)
        BY ReachedFacts
    <2>4. QED BY <2>1, <2>2, <2>3
<1>10. ASSUME NEW i \in 1..n, i - 1 \in S PROVE i \in S
    <2>1. i \in 0..n /\ i # 0 /\ i - 1 \in 0..n
        BY <1>2
    <2> DEFINE X == h[i - 1]
    <2>2. /\ h[i] = More(X) /\ X \in V /\ A \subseteq X /\ X \subseteq Reached(A)
          /\ Closed(X) \/ Cardinality(X) >= i - 1
        BY <1>5, <1>10, <2>1
    <2> HIDE DEF X
    <2>3. More(X) \subseteq Reached(A)
        <3>1. \A a \in Reached(A) : Refs(a) \subseteq Reached(A)
            BY ReachedFacts DEF Closed
        <3>2. QED BY <1>1, <2>2, <3>1
    <2>4. Closed(More(X)) \/ Cardinality(More(X)) >= i
        <3>1. CASE More(X) = X
            BY <1>1, <2>2, <3>1 DEF Closed
        <3>2. CASE More(X) # X
            <4>1. ~Closed(X)
                <5>1. PICK x \in More(X) : x \notin X
                    BY <1>1, <2>2, <3>2
                <5>2. QED BY <1>1, <2>2, <5>1 DEF Closed
            <4> DEFINE Y == More(X)
            <4>2. IsFiniteSet(Y) /\ X \in SUBSET Y /\ Y \in V
                BY <1>1, <1>8, <2>2
            <4> HIDE DEF Y
            <4>3. Cardinality(X) <= Cardinality(Y) /\ Cardinality(X) # Cardinality(Y)
                BY <3>2, <4>2, FS_Subset DEF Y
            <4>4. Cardinality(X) \in Nat /\ Cardinality(Y) \in Nat
                BY <1>8, <2>2, <4>2
            <4>5. Cardinality(Y) >= i
                BY <2>2, <4>1, <4>3, <4>4
            <4>6. QED BY <4>5 DEF Y
        <3>3. QED BY <3>1, <3>2
    <2>5. A \subseteq More(X)
        BY <1>1, <2>2
    <2>6. QED BY <2>1, <2>2, <2>3, <2>4, <2>5
<1>11. n \in S
    <2> HIDE DEF S
    <2>1. 0..n \subseteq S
        BY <1>2, <1>9, <1>10, StepByStep
    <2>2. QED BY <1>2, <2>1
<1> DEFINE Z == h[n]
<1>12. Z \in V /\ A \subseteq Z /\ Z \subseteq Reached(A) /\ (Closed(Z) \/ Cardinality(Z) >= n)
    BY <1>11
<1> HIDE DEF Z
<1>13. Closed(Z)
    <2>1. SUFFICES ASSUME Cardinality(Z) >= n PROVE Closed(Z)
        BY <1>12
    <2>2. Cardinality(Z) <= Cardinality(Cells) /\ (Cardinality(Cells) = Cardinality(Z) => Cells = Z)
        BY <1>7, <1>12, FS_Subset
    <2>3. Cardinality(Z) \in Nat
        BY <1>8, <1>12
    <2>4. Z = Cells
        BY <1>2, <1>7, <2>1, <2>2, <2>3
    <2>5. QED BY <2>4, CellFacts DEF Closed
<1>14. Reached(A) \subseteq Z
    BY <1>12, <1>13, ReachedFacts
<1>15. QED BY <1>6, <1>12, <1>14 DEF Z

-----------------------------------------------------------------------------
(* The steps that mark.                                                    *)

HeapSame == UNCHANGED <<mem, root, space, job>>

\* Marking leaves the heap, and what can be reached in it, as it is.
LEMMA SameHeap ==
    ASSUME UNCHANGED <<mem, root, space>>
    PROVE  /\ Top' = Top /\ Cells' = Cells /\ AreaStart' = AreaStart /\ Area' = Area
           /\ Old' = Old /\ FromRoot' = FromRoot /\ FromOld' = FromOld
           /\ pending' = pending => FromAll' = FromAll
           /\ MarkedNow' = Marked(bits')
           /\ \A a : Refs(a)' = Refs(a)
           /\ Shape => Shape'
<1>1. mem' = mem /\ root' = root /\ oldEnd' = oldEnd /\ full' = full
    BY DEF space
<1>2. Top' = Top /\ Cells' = Cells /\ AreaStart' = AreaStart /\ Area' = Area /\ Old' = Old
    BY <1>1 DEF Top, Cells, AreaStart, Area, Old
<1>3. \A a : Refs(a)' = Refs(a)
    BY <1>1 DEF Refs
<1>4. FromRoot' = FromRoot /\ FromOld' = FromOld
    BY <1>1, <1>2, <1>3 DEF FromRoot, FromOld, Reached, Closed
<1>5. pending' = pending => FromAll' = FromAll
    BY <1>1, <1>2, <1>3 DEF FromAll, Reached, Closed
<1>6. MarkedNow' = Marked(bits')
    BY <1>2 DEF MarkedNow, Marked
<1>7. Shape => Shape'
    BY <1>1, <1>2 DEF Shape
<1>8. QED BY <1>2, <1>3, <1>4, <1>5, <1>6, <1>7

\* A set of cells in the area that has what those in the old generation, and its
\* own, refer to there, is closed together with the old generation.
LEMMA ClosedWithOld ==
    ASSUME Shape, JobOK, NEW M \in SUBSET Area,
           \A a \in Old : Refs(a) \intersect Area \subseteq M,
           \A a \in M : Refs(a) \intersect Area \subseteq M
    PROVE  M \union Old \in SUBSET Cells /\ Closed(M \union Old)
<1>1. M \union Old \in SUBSET Cells
    BY HeapFacts DEF Old, Cells
<1>2. \A x \in Cells : x \in Area \/ x \in Old
    BY HeapFacts DEF Old, Cells, Area
<1>3. \A a \in M \union Old : Refs(a) \subseteq Cells
    BY <1>1, CellFacts
<1>4. QED BY <1>1, <1>2, <1>3 DEF Closed

\* A marking starts with an empty stack and the bits that are set.
LEMMA MarkingQuiet ==
    ASSUME JobOK, BitsOK
    PROVE  Marking \in Quiet /\ Mk(Marking) = MarkedNow /\ Marking.bits = bits
<1>1. <<>> \in Seq(Cells)
    OBVIOUS
<1>2. bits \in SUBSET (Nat \X Nat) /\ overflow \in BOOLEAN
    BY DEF BitsOK, JobOK
<1>3. Marking.bits = bits /\ Marking.stack = <<>>
    BY DEF Marking
<1>4. Marking \in MState
    BY <1>1, <1>2 DEF Marking, MState
<1>5. QED BY <1>3, <1>4 DEF Quiet, Mk, MarkedNow

\* The slots of the old generation that refer to the area: their bits stay.
Remembers(B) ==
    \A a \in 1..oldEnd : \A f \in 1..Len(mem[a].ref) :
        mem[a].ref[f] > oldEnd /\ <<a, f>> \in bits => <<a, f>> \in B

\* What the old generation, when it is not collected, refers to in the area.
LEMMA RememberedRoots ==
    ASSUME Shape, JobOK, BitsOK, ~full, phase \in Collecting,
           NEW a \in Old, NEW x \in Refs(a) \intersect Area
    PROVE  x \in SlotRoots(a)
<1>1. a \in 1..oldEnd /\ a \in Cells /\ x > oldEnd
    BY HeapFacts DEF Old, AreaStart, Cells, Area
<1>2. PICK f \in 1..Len(mem[a].ref) : mem[a].ref[f] = x
    BY <1>1, CellFacts
<1>3. <<a, f>> \in bits
    BY <1>1, <1>2 DEF BitsOK
<1> DEFINE r == mem[a].ref
           s == [g \in DOMAIN r |-> IF <<a, g>> \in bits THEN r[g] ELSE 0]
<1>4. f \in DOMAIN r
    BY <1>1, <1>2, CellFacts
<1>5. s[f] = x /\ DOMAIN s = DOMAIN r
    BY <1>2, <1>3, <1>4
<1>6. x \in ToSet(s)
    <2> HIDE DEF s
    <2>1. QED BY <1>4, <1>5 DEF ToSet
<1>7. QED BY <1>6 DEF SlotRoots

\* What is found in a slot of a is 0 or what a refers to.
LEMMA SlotRootsAre ==
    ASSUME Shape, JobOK, NEW a \in Cells
    PROVE  SlotRoots(a) \subseteq Refs(a) \union {0}
<1> DEFINE r == mem[a].ref
           s == [g \in DOMAIN r |-> IF <<a, g>> \in bits THEN r[g] ELSE 0]
<1>1. DOMAIN r = 1..Len(r) /\ \A f \in 1..Len(r) : r[f] # 0 => r[f] \in Refs(a)
    BY CellFacts
<1>2. \A f \in DOMAIN s : s[f] \in Refs(a) \union {0}
    BY <1>1
<1>3. ToSet(s) = {s[f] : f \in DOMAIN s}
    BY DEF ToSet
<1> HIDE DEF s
<1>4. ToSet(s) \subseteq Refs(a) \union {0}
    BY <1>2, <1>3
<1>5. QED BY <1>4 DEF s, SlotRoots

\* mark_remembered_set marks from all slots of the old generation that refer to
\* the young one, and keeps their bits.
LEMMA MarkRememberedMarks ==
    ASSUME Shape, JobOK, BitsOK, ~full, NEW s \in Quiet, bits \subseteq s.bits,
           NEW t, t = MarkRememberedSet(s)
    PROVE  /\ t \in Quiet /\ Remembers(t.bits)
           /\ Mk(s) \subseteq Mk(t) /\ (s.overflow => t.overflow)
           /\ \A a \in Old : SlotRoots(a) \intersect Area \subseteq Mk(t)
           /\ \A C \in SUBSET Cells : Closed(C) /\ Old \subseteq C => Mk(t) \subseteq Mk(s) \union C
           /\ ~t.overflow => \A x \in Mk(t) \ Mk(s) : Refs(x) \intersect Area \subseteq Mk(t)
<1> DEFINE slots == {b \in bits : b[1] <= oldEnd}
           kept  == {b \in slots : InArea(mem[b[1]].ref[b[2]])}
           seq == [a \in 1..oldEnd |-> a]
           m == FoldLeft(MarkSlots, s, seq)
           U == UNION {SlotRoots(seq[i]) : i \in 1..oldEnd}
<1>1. t = [m EXCEPT !.bits = (@ \ slots) \union kept]
    BY DEF MarkRememberedSet
<1>2. oldEnd \in Nat /\ seq \in [1..oldEnd -> Cells] /\ AreaStart = oldEnd /\ Old = 1..oldEnd
    <2>1. oldEnd \in Nat /\ oldEnd <= Top /\ Top \in Nat
        BY HeapFacts DEF JobOK
    <2>2. QED BY <2>1 DEF Cells, AreaStart, Old
<1> HIDE DEF m
<1>3. MarkedFrom(s, m, U)
    BY <1>2, MarkSlotsAll DEF m
<1>4. U = UNION {SlotRoots(a) : a \in Old}
    BY <1>2
<1> HIDE DEF U
<1>5. m \in Quiet /\ bits \subseteq m.bits
    BY <1>3 DEF MarkedFrom
<1>6. slots \subseteq bits /\ kept \subseteq slots
    OBVIOUS
<1>7. \A x \in Area : <<x, 0>> \notin slots
    BY <1>2, HeapFacts DEF Area
<1>8. \A a \in 1..oldEnd : \A f \in 1..Len(mem[a].ref) :
         mem[a].ref[f] > oldEnd /\ <<a, f>> \in bits => <<a, f>> \in kept
    BY <1>2 DEF InArea
<1> DEFINE B == (m.bits \ slots) \union kept
<1>9. Remembers(B)
    <2> HIDE DEF kept, slots
    <2>1. QED BY <1>8 DEF Remembers
<1>10. \A x \in Area : <<x, 0>> \in B <=> <<x, 0>> \in m.bits
    <2> HIDE DEF kept, slots
    <2>1. QED BY <1>6, <1>7
<1>11. B \in SUBSET (Nat \X Nat)
    <2> HIDE DEF kept, slots
    <2>1. m.bits \in SUBSET (Nat \X Nat) /\ bits \in SUBSET (Nat \X Nat)
        BY <1>5 DEF Quiet, MState, BitsOK
    <2>2. QED BY <1>6, <2>1
<1>12. t \in Quiet /\ t.bits = B /\ t.overflow = m.overflow
    <2> HIDE DEF B
    <2>1. t = [m EXCEPT !.bits = B]
        BY <1>1 DEF B
    <2>2. QED BY <1>5, <1>11, <2>1 DEF Quiet, MState
<1> HIDE DEF B
<1>13. Mk(t) = Mk(m)
    BY <1>10, <1>12 DEF Mk, Marked, Area
<1>14. ASSUME NEW C \in SUBSET Cells, Closed(C), Old \subseteq C
       PROVE  Mk(m) \subseteq Mk(s) \union C
    <2>1. \A a \in Old : SlotRoots(a) \intersect Cells \subseteq C
        <3> SUFFICES ASSUME NEW a \in Old PROVE SlotRoots(a) \intersect Cells \subseteq C
            OBVIOUS
        <3>1. a \in Cells /\ Refs(a) \subseteq C
            BY <1>2, <1>14 DEF Closed
        <3>2. SlotRoots(a) \subseteq Refs(a) \union {0}
            BY <3>1, SlotRootsAre
        <3>3. 0 \notin Cells
            BY DEF Cells
        <3>4. QED BY <3>1, <3>2, <3>3
    <2>2. U \intersect Cells \subseteq C
        BY <1>4, <2>1
    <2>3. QED BY <1>3, <1>14, <2>2 DEF MarkedFrom
<1>15. Mk(s) \subseteq Mk(m) /\ (s.overflow => m.overflow)
    BY <1>3, MarksGrow DEF MarkedFrom
<1>16. \A a \in Old : SlotRoots(a) \intersect Area \subseteq Mk(m)
    BY <1>3, <1>4 DEF MarkedFrom
<1>17. ~m.overflow => \A x \in Mk(m) \ Mk(s) : Refs(x) \intersect Area \subseteq Mk(m)
    BY <1>3 DEF MarkedFrom
<1>18. QED BY <1>9, <1>12, <1>13, <1>14, <1>15, <1>16, <1>17

\* What all steps of marking after the first keep: the bits of the slots of the
\* old generation that refer to the area.
LEMMA HeadersKeep ==
    ASSUME Shape, JobOK, NEW B, bits \subseteq B
    PROVE  Remembers(B)
BY DEF Remembers

\* A step that marks keeps BitsOK.
LEMMA BitsKept ==
    ASSUME Shape, JobOK, BitsOK, HeapSame, Remembers(bits'), bits' \in SUBSET (Nat \X Nat),
           phase \in Collecting, phase' # "roots"
    PROVE  BitsOK'
<1>1. mem' = mem /\ root' = root /\ oldEnd' = oldEnd /\ full' = full
    BY DEF HeapSame, space
<1>2. QED BY <1>1 DEF BitsOK, Remembers

\* A step that marks keeps JobOK.
LEMMA JobKept ==
    ASSUME Shape, JobOK, HeapSame, phase \in Collecting, phase' \in Collecting,
           overflow' \in BOOLEAN
    PROVE  JobOK'
<1>1. /\ Top' = Top /\ oldEnd' = oldEnd /\ full' = full /\ youngEnd' = youngEnd
      /\ resume' = resume /\ need' = need /\ round' = round /\ wasFull' = wasFull
    BY DEF HeapSame, space, job, Top
<1>2. phase \in {"compact", "weak", "rescan_finalizers", "finalizers", "rescan_roots", "roots"}
      /\ phase' \in {"compact", "weak", "rescan_finalizers", "finalizers", "rescan_roots", "roots"}
    BY DEF Collecting
<1>3. QED BY <1>1, <1>2 DEF JobOK, Phases

\* The roots and the remembered set are marked.
LEMMA MarkFromRootsKeeps ==
    ASSUME Inv, MarkFromRoots
    PROVE  Inv'
<1>1. Shape /\ WeakOK /\ ListOK /\ JobOK /\ BitsOK /\ MarkOK /\ FullOK
    BY DEF Inv
<1> DEFINE s == MarkRoot(Marking, root)
           t == IF full THEN s ELSE MarkRememberedSet(s)
<1>2. /\ phase = "roots" /\ bits' = t.bits /\ overflow' = t.overflow
      /\ phase' = IF t.overflow THEN "rescan_roots" ELSE "finalizers"
      /\ mem' = mem /\ root' = root /\ UNCHANGED space /\ UNCHANGED job
      /\ table' = table /\ list' = list /\ pending' = pending
    BY DEF MarkFromRoots, Marks
<1>3. Marking \in Quiet /\ Mk(Marking) = {} /\ Marking.bits = bits
    BY <1>1, <1>2, MarkingQuiet DEF BitsOK
<1>4. MarkedFrom(Marking, s, {root})
    BY <1>1, <1>3, HeapFacts, MarkRootMarks DEF Cells
<1> HIDE DEF s
<1>5. s \in Quiet /\ bits \subseteq s.bits /\ root \in Cells /\ pending = <<>>
    BY <1>1, <1>2, <1>3, <1>4, HeapFacts DEF MarkedFrom, ListOK
<1>6. {root} \union Old \in SUBSET Cells /\ FromAll = FromOld
    <2>1. {root} \union Old \in SUBSET Cells
        BY <1>1, <1>5, HeapFacts DEF Old, Cells
    <2>2. ToSet(pending) = {}
        BY <1>5 DEF ToSet
    <2>3. QED BY <2>1, <2>2 DEF FromAll, FromOld
<1>7. /\ FromOld \in SUBSET Cells /\ {root} \union Old \subseteq FromOld /\ Closed(FromOld)
    BY <1>1, <1>6, ReachedFacts DEF FromOld
<1>8. Mk(s) \subseteq FromOld
    BY <1>3, <1>4, <1>7 DEF MarkedFrom
<1>9. /\ t \in Quiet /\ Remembers(t.bits) /\ Mk(t) \subseteq FromOld
      /\ root \in Area => root \in Mk(t)
      /\ \A a \in Old : Refs(a) \intersect Area \subseteq Mk(t)
      /\ ~t.overflow => \A x \in Mk(t) : Refs(x) \intersect Area \subseteq Mk(t)
    <2>1. CASE full
        <3>1. t = s /\ Old = {}
            BY <2>1 DEF Old, AreaStart
        <3>2. Remembers(s.bits)
            BY <1>1, <1>5, HeadersKeep
        <3> HIDE DEF t
        <3>3. QED BY <1>3, <1>4, <1>5, <1>8, <3>1, <3>2 DEF MarkedFrom
    <2>2. CASE ~full
        <3>1. t = MarkRememberedSet(s)
            BY <2>2
        <3> HIDE DEF t
        <3>2. /\ t \in Quiet /\ Remembers(t.bits)
              /\ Mk(s) \subseteq Mk(t) /\ (s.overflow => t.overflow)
              /\ \A a \in Old : SlotRoots(a) \intersect Area \subseteq Mk(t)
              /\ \A C \in SUBSET Cells : Closed(C) /\ Old \subseteq C => Mk(t) \subseteq Mk(s) \union C
              /\ ~t.overflow => \A x \in Mk(t) \ Mk(s) : Refs(x) \intersect Area \subseteq Mk(t)
            BY <1>1, <1>5, <2>2, <3>1, MarkRememberedMarks
        <3>3. \A a \in Old : Refs(a) \intersect Area \subseteq Mk(t)
            <4>1. phase \in Collecting
                BY <1>2 DEF Collecting
            <4>2. QED BY <1>1, <2>2, <3>2, <4>1, RememberedRoots
        <3>4. Mk(t) \subseteq FromOld
            BY <1>7, <1>8, <3>2
        <3>5. ASSUME ~t.overflow, NEW x \in Mk(t) PROVE Refs(x) \intersect Area \subseteq Mk(t)
            <4>1. CASE x \in Mk(s)
                <5>1. Refs(x) \intersect Area \subseteq Mk(s)
                    BY <1>3, <1>4, <3>2, <3>5, <4>1 DEF MarkedFrom
                <5>2. QED BY <3>2, <5>1
            <4>2. CASE x \notin Mk(s)
                BY <3>2, <3>5, <4>2
            <4>3. QED BY <4>1, <4>2
        <3>6. root \in Area => root \in Mk(t)
            BY <1>4, <3>2 DEF MarkedFrom
        <3>7. QED BY <3>2, <3>3, <3>4, <3>5, <3>6
    <2>3. QED BY <2>1, <2>2
<1> HIDE DEF t
<1>10. HeapSame /\ UNCHANGED <<mem, root, space>>
    BY <1>2 DEF HeapSame
<1>11. /\ Area' = Area /\ Old' = Old /\ FromOld' = FromOld /\ FromAll' = FromOld
       /\ FromRoot' = FromRoot /\ Cells' = Cells /\ MarkedNow' = Mk(t) /\ Shape'
       /\ \A a : Refs(a)' = Refs(a)
    BY <1>1, <1>2, <1>6, <1>10, SameHeap DEF Mk
<1>12. t.overflow \in BOOLEAN /\ t.bits \in SUBSET (Nat \X Nat)
    BY <1>9 DEF Quiet, MState
<1>13. phase' \in {"rescan_roots", "finalizers"} /\ (phase' = "finalizers" => ~t.overflow)
    BY <1>2
<1>14. phase \in Collecting /\ phase' \in Collecting /\ phase' # "roots"
    BY <1>2, <1>13 DEF Collecting
<1>15. JobOK' /\ BitsOK'
    BY <1>1, <1>2, <1>9, <1>10, <1>12, <1>14, JobKept, BitsKept
<1>16. ListOK'
    BY <1>1, <1>2, <1>5, <1>10 DEF ListOK, HeapSame, Top
<1>17. WeakOK'
    BY <1>1, <1>2, <1>10, <1>11, <1>13 DEF WeakOK, Top, Cells, IsWeak
<1>18. MarkOK'
    <2>1. ToSet(pending') = {}
        BY <1>2, <1>5 DEF ToSet
    <2>2. phase' \notin Found /\ phase' # "compact" /\ (phase' \in Followed => ~t.overflow)
        BY <1>13 DEF Found, Followed
    <2>3. QED BY <1>2, <1>9, <1>11, <2>1, <2>2 DEF MarkOK
<1>19. FullOK'
    BY <1>1, <1>2, <1>10, <1>11, <1>13, <1>14 DEF FullOK, space, job
<1>20. QED BY <1>11, <1>15, <1>16, <1>17, <1>18, <1>19 DEF Inv

\* The rescan after an overflow of the marking stack.
LEMMA RescanKeeps ==
    ASSUME Inv, Rescan
    PROVE  Inv'
<1>1. Shape /\ WeakOK /\ ListOK /\ JobOK /\ BitsOK /\ MarkOK /\ FullOK
    BY DEF Inv
<1> DEFINE s == [Marking EXCEPT !.overflow = FALSE]
           n == Top - AreaStart
           seq == [i \in 1..n |-> AreaStart + i]
           t == FoldLeft(MarkAgain, s, seq)
           next == IF phase = "rescan_roots" THEN "finalizers" ELSE "weak"
<1>2. /\ phase \in {"rescan_roots", "rescan_finalizers"}
      /\ bits' = t.bits /\ overflow' = t.overflow
      /\ phase' = IF t.overflow THEN phase ELSE next
      /\ mem' = mem /\ root' = root /\ UNCHANGED space /\ UNCHANGED job
      /\ table' = table /\ list' = list /\ pending' = pending
    BY DEF Rescan, Marks
<1>3. Marking \in Quiet /\ Mk(Marking) = MarkedNow /\ Marking.bits = bits
    BY <1>1, MarkingQuiet
<1>4. s \in Quiet /\ s.bits = bits
    BY <1>3 DEF Quiet, MState
<1>5. Mk(s) = MarkedNow
    BY <1>4 DEF Mk, MarkedNow
<1>6. n \in Nat /\ seq \in [1..n -> Cells] /\ \A x \in Area : \E i \in 1..n : seq[i] = x
    <2>1. Top \in Nat /\ AreaStart \in Nat /\ AreaStart <= Top
        BY <1>1, HeapFacts
    <2>2. \A x \in AreaStart + 1..Top : x - AreaStart \in 1..Top - AreaStart
                                        /\ AreaStart + (x - AreaStart) = x
        BY <2>1
    <2>3. \A i \in 1..Top - AreaStart : AreaStart + i \in 1..Top
        BY <2>1
    <2>4. QED BY <2>1, <2>2, <2>3 DEF Cells, Area
<1> DEFINE U == UNION {AgainRoots(seq[i]) : i \in 1..n}
<1>7. MarkedFrom(s, t, U)
    <2> HIDE DEF s, n, seq
    <2>1. QED BY <1>1, <1>4, <1>6, MarkAgainAll
<1>8. \A a \in MarkedNow : a \in Area /\ a \in Cells /\ <<a, 0>> \in bits
    BY <1>1, HeapFacts DEF MarkedNow, Marked, Area
<1>9. \A a \in MarkedNow : Refs(a) \subseteq U
    <2> SUFFICES ASSUME NEW a \in MarkedNow PROVE Refs(a) \subseteq U
        OBVIOUS
    <2>1. PICK i \in 1..n : seq[i] = a
        BY <1>6, <1>8
    <2>2. Refs(a) \subseteq AgainRoots(a)
        BY <1>8 DEF AgainRoots, Refs
    <2> HIDE DEF seq, n
    <2>3. QED BY <2>1, <2>2
<1>10. \A x \in U : x = 0 \/ \E a \in MarkedNow : x \in Refs(a)
    <2> SUFFICES ASSUME NEW x \in U, x # 0 PROVE \E a \in MarkedNow : x \in Refs(a)
        OBVIOUS
    <2>1. PICK i \in 1..n : x \in AgainRoots(seq[i])
        OBVIOUS
    <2> DEFINE a == AreaStart + i
    <2>2. a \in Area /\ seq[i] = a
        <3>1. Top \in Nat /\ AreaStart \in Nat /\ AreaStart <= Top
            BY <1>1, HeapFacts
        <3>2. QED BY <3>1 DEF Area
    <2> HIDE DEF a, seq
    <2>3. <<a, 0>> \in bits /\ x \in Refs(a)
        BY <2>1, <2>2 DEF AgainRoots, Refs
    <2>4. QED BY <2>2, <2>3 DEF MarkedNow, Marked, Area
<1> HIDE DEF s, t, U
<1>11. phase \in Started
    BY <1>2 DEF Started, Collecting
<1>12. FromAll \in SUBSET Cells /\ Closed(FromAll) /\ MarkedNow \subseteq FromAll
    <2>1. {root} \union Old \union ToSet(pending) \in SUBSET Cells
        <3>1. ToSet(pending) \subseteq MarkedNow
            BY <1>1, <1>11 DEF MarkOK
        <3>2. ToSet(pending) \subseteq Cells
            BY <1>8, <3>1
        <3>3. Old \subseteq Cells /\ root \in Cells
            BY <1>1, HeapFacts DEF Old, Cells
        <3>4. QED BY <3>2, <3>3
    <2>2. QED BY <1>1, <1>11, <2>1, ReachedFacts DEF FromAll, MarkOK
<1>13. U \intersect Cells \subseteq FromAll
    <2>1. 0 \notin Cells
        BY DEF Cells
    <2>2. QED BY <1>10, <1>12, <2>1 DEF Closed
<1>14. /\ t \in Quiet /\ MarkedNow \subseteq Mk(t) /\ Mk(t) \subseteq FromAll
       /\ bits \subseteq t.bits
       /\ \A a \in MarkedNow : Refs(a) \intersect Area \subseteq Mk(t)
       /\ ~t.overflow => \A x \in Mk(t) \ MarkedNow : Refs(x) \intersect Area \subseteq Mk(t)
    <2>1. MarkedNow \subseteq Mk(t)
        BY <1>5, <1>7, MarksGrow DEF MarkedFrom
    <2>2. Mk(t) \subseteq FromAll
        BY <1>5, <1>7, <1>12, <1>13 DEF MarkedFrom
    <2>3. \A a \in MarkedNow : Refs(a) \intersect Area \subseteq Mk(t)
        BY <1>7, <1>9 DEF MarkedFrom
    <2>4. QED BY <1>4, <1>5, <1>7, <2>1, <2>2, <2>3 DEF MarkedFrom
<1>15. HeapSame /\ UNCHANGED <<mem, root, space>>
    BY <1>2 DEF HeapSame
<1>16. /\ Area' = Area /\ Old' = Old /\ FromOld' = FromOld /\ FromAll' = FromAll
       /\ FromRoot' = FromRoot /\ Cells' = Cells /\ MarkedNow' = Mk(t) /\ Shape'
       /\ \A a : Refs(a)' = Refs(a)
    BY <1>1, <1>2, <1>15, SameHeap DEF Mk
<1>17. t.overflow \in BOOLEAN /\ t.bits \in SUBSET (Nat \X Nat) /\ Remembers(t.bits)
    BY <1>1, <1>14, HeadersKeep DEF Quiet, MState
<1>18. /\ phase' \in {"rescan_roots", "finalizers", "rescan_finalizers", "weak"}
       /\ phase' \in Followed => ~t.overflow
       /\ phase' \in Found => phase \in Found
       /\ phase' = "finalizers" => phase = "rescan_roots"
    BY <1>2 DEF Found, Followed
<1>19. phase \in Collecting /\ phase' \in Collecting /\ phase' # "roots" /\ phase' # "compact"
    BY <1>2, <1>18 DEF Collecting
<1>20. JobOK' /\ BitsOK'
    BY <1>1, <1>2, <1>15, <1>17, <1>19, JobKept, BitsKept
<1>21. ListOK'
    BY <1>1, <1>2, <1>15, <1>18 DEF ListOK, HeapSame, Top
<1>22. WeakOK'
    BY <1>1, <1>2, <1>15, <1>18, <1>16 DEF WeakOK, Top, Cells, IsWeak
<1>23. MarkOK'
    <2>1. phase' \in Followed => \A x \in Mk(t) : Refs(x) \intersect Area \subseteq Mk(t)
        BY <1>14, <1>18
    <2>2. /\ Mk(t) \subseteq FromAll
          /\ root \in Area => root \in Mk(t)
          /\ \A a \in Old : Refs(a) \intersect Area \subseteq Mk(t)
          /\ ToSet(pending) \subseteq Mk(t)
        BY <1>1, <1>11, <1>14 DEF MarkOK
    <2>3. phase' \in Found =>
          /\ ToSet(list) \intersect Area \subseteq Mk(t)
          /\ ToSet(list) \intersect Area \subseteq FromOld
          /\ ToSet(pending) \intersect FromOld = {}
        BY <1>1, <1>14, <1>18 DEF MarkOK
    <2>4. QED BY <1>2, <1>16, <1>19, <2>1, <2>2, <2>3 DEF MarkOK
<1>24. FullOK'
    BY <1>1, <1>2, <1>15, <1>16, <1>18, <1>19 DEF FullOK, space, job
<1>25. QED BY <1>16, <1>20, <1>21, <1>22, <1>23, <1>24 DEF Inv

-----------------------------------------------------------------------------
(* The finalizers.                                                         *)

Numbers == Nat \ {0}
Lists == [live : Seq(Numbers), dead : Seq(Numbers)]

\* One object of the list is sorted.
LEMMA SortFacts ==
    ASSUME NEW p \in Lists, NEW a \in Numbers, NEW r, r = Sort(p, a)
    PROVE  /\ r \in Lists
           /\ <<a, 0>> \in bits => /\ ToSet(r.live) = ToSet(p.live) \union {a} /\ r.dead = p.dead
                                   /\ r.live = Append(p.live, a)
           /\ <<a, 0>> \notin bits => /\ ToSet(r.dead) = ToSet(p.dead) \union {a} /\ r.live = p.live
                                      /\ r.dead = <<a>> \o p.dead
<1>1. p.live \in Seq(Numbers) /\ p.dead \in Seq(Numbers) /\ <<a>> \in Seq(Numbers)
    BY DEF Lists
<1>2. CASE <<a, 0>> \in bits
    <2>1. r = [p EXCEPT !.live = Append(@, a)]
        BY <1>2 DEF Sort
    <2> DEFINE q == Append(p.live, a)
    <2>2. q \in Seq(Numbers) /\ ToSet(q) = ToSet(p.live) \union {a}
        BY <1>1, ListAppend
    <2> HIDE DEF q
    <2>3. r = [p EXCEPT !.live = q]
        BY <2>1 DEF q
    <2>4. r \in Lists /\ r.live = q /\ r.dead = p.dead
        BY <2>2, <2>3 DEF Lists
    <2>5. QED BY <1>2, <2>2, <2>4 DEF q
<1>3. CASE <<a, 0>> \notin bits
    <2>1. r = [p EXCEPT !.dead = <<a>> \o @]
        BY <1>3 DEF Sort
    <2> DEFINE h == <<a>>
               q == h \o p.dead
    <2>2. q \in Seq(Numbers) /\ ToSet(q) = ToSet(h) \union ToSet(p.dead)
        <3>1. h \in Seq(Numbers)
            BY <1>1
        <3> HIDE DEF h
        <3>2. QED BY <1>1, <3>1, ListConcat
    <2>3. ToSet(<<a>>) = {a}
        BY DEF ToSet
    <2> HIDE DEF q
    <2>4. r = [p EXCEPT !.dead = q]
        BY <2>1 DEF q
    <2>5. r \in Lists /\ r.dead = q /\ r.live = p.live
        BY <2>2, <2>4 DEF Lists
    <2>6. QED BY <1>3, <2>2, <2>3, <2>5 DEF q
<1>4. QED BY <1>2, <1>3

\* All are: those that are marked stay, newest first, the others are pending.
LEMMA SortAll ==
    ASSUME NEW seq \in Seq(Numbers), Decreasing(seq),
           NEW p, p = FoldLeft(Sort, [live |-> <<>>, dead |-> <<>>], seq)
    PROVE  /\ p \in Lists /\ Decreasing(p.live) /\ IsInjective(p.dead)
           /\ ToSet(p.live) = {x \in ToSet(seq) : <<x, 0>> \in bits}
           /\ ToSet(p.dead) = {x \in ToSet(seq) : <<x, 0>> \notin bits}
<1> DEFINE base == [live |-> <<>>, dead |-> <<>>]
           n == Len(seq)
<1>1. base \in Lists /\ base.live = <<>> /\ base.dead = <<>>
    <2>1. <<>> \in Seq(Numbers)
        OBVIOUS
    <2>2. QED BY <2>1 DEF Lists
<1>2. p = FoldLeft(Sort, base, seq)
    OBVIOUS
<1> HIDE DEF base
<1>3. \A r \in Lists, a \in Numbers : Sort(r, a) \in Lists
    BY SortFacts
<1>4. PICK g \in [0..Len(seq) -> Lists] : SortSteps(g, base, seq)
    BY <1>1, <1>3, SortFold
<1>5. /\ g[0] = base /\ g[n] = p /\ n \in Nat
      /\ \A i \in 1..n : g[i] = Sort(g[i - 1], seq[i])
    BY <1>2, <1>4 DEF SortSteps
<1>6. \A i \in 1..n : seq[i] \in Numbers /\ \A j \in 1..i - 1 : seq[j] > seq[i] /\ seq[j] \in Numbers
    <2>1. \A i \in 1..n : seq[i] \in Numbers
        OBVIOUS
    <2>2. \A i \in 1..n : \A j \in 1..i - 1 : j \in 1..n /\ j < i
        BY <1>5
    <2>3. QED BY <2>1, <2>2 DEF Decreasing
<1> DEFINE Done(i) == {seq[j] : j \in 1..i}
           S == {i \in 0..n : /\ Decreasing(g[i].live) /\ IsInjective(g[i].dead)
                              /\ ToSet(g[i].live) = {x \in Done(i) : <<x, 0>> \in bits}
                              /\ ToSet(g[i].dead) = {x \in Done(i) : <<x, 0>> \notin bits}}
<1>7. 0 \in S
    <2>1. Done(0) = {} /\ 0 \in 0..n
        BY <1>5
    <2>2. ToSet(<<>>) = {} /\ Decreasing(<<>>) /\ IsInjective(<<>>)
        BY DEF ToSet, Decreasing, IsInjective
    <2> HIDE DEF Done
    <2>3. QED BY <1>1, <1>5, <2>1, <2>2
<1>8. ASSUME NEW i \in 1..n, i - 1 \in S PROVE i \in S
    <2>1. i \in 0..n /\ i - 1 \in 0..n /\ Done(i) = Done(i - 1) \union {seq[i]}
        <3> HIDE DEF n
        <3>1. i \in 0..n /\ i - 1 \in 0..n /\ 1..i = (1..i - 1) \union {i}
            BY <1>5
        <3>2. QED BY <3>1
    <2>2. \A x \in Done(i - 1) : x > seq[i] /\ x # seq[i]
        <3> SUFFICES ASSUME NEW j \in 1..i - 1 PROVE seq[j] > seq[i] /\ seq[j] # seq[i]
            OBVIOUS
        <3>1. seq[j] > seq[i] /\ seq[j] \in Numbers /\ seq[i] \in Numbers
            BY <1>6
        <3> HIDE DEF n
        <3>2. QED BY <3>1 DEF Numbers
    <2> DEFINE q == g[i - 1]
               r == g[i]
               a == seq[i]
    <2>3. q \in Lists /\ r = Sort(q, a) /\ a \in Numbers
        BY <1>5, <1>6, <2>1
    <2>4. /\ Decreasing(q.live) /\ IsInjective(q.dead)
          /\ ToSet(q.live) = {x \in Done(i - 1) : <<x, 0>> \in bits}
          /\ ToSet(q.dead) = {x \in Done(i - 1) : <<x, 0>> \notin bits}
        BY <1>8
    <2> HIDE DEF q, r, a, Done
    <2>5. CASE <<a, 0>> \in bits
        <3>1. /\ ToSet(r.live) = ToSet(q.live) \union {a} /\ r.dead = q.dead
              /\ r.live = Append(q.live, a)
            BY <2>3, <2>5, SortFacts
        <3>2. Decreasing(r.live)
            <4>1. q.live \in Seq(Nat) /\ <<a>> \in Seq(Nat)
                BY <2>3 DEF Lists, Numbers
            <4>2. Append(q.live, a) = q.live \o <<a>>
                BY <4>1, <2>3
            <4>3. Decreasing(<<a>>) /\ ToSet(<<a>>) = {a}
                BY DEF Decreasing, ToSet
            <4>4. Decreasing(q.live \o <<a>>)
                BY <2>2, <2>4, <4>1, <4>3, DecreasingConcat DEF a
            <4>5. QED BY <3>1, <4>2, <4>4
        <3>3. QED BY <2>1, <2>4, <2>5, <3>1, <3>2 DEF r, a
    <2>6. CASE <<a, 0>> \notin bits
        <3>1. /\ ToSet(r.dead) = ToSet(q.dead) \union {a} /\ r.live = q.live
              /\ r.dead = <<a>> \o q.dead
            BY <2>3, <2>6, SortFacts
        <3>2. IsInjective(r.dead)
            <4>1. a \notin ToSet(q.dead)
                BY <2>2, <2>4 DEF a
            <4> DEFINE h == <<a>>
            <4>2. h \in Seq(Numbers) /\ q.dead \in Seq(Numbers)
                BY <2>3 DEF Lists
            <4>3. ToSet(h) = {a} /\ IsInjective(h) /\ r.dead = h \o q.dead
                BY <3>1 DEF ToSet, IsInjective
            <4> HIDE DEF h
            <4>4. ToSet(h) \intersect ToSet(q.dead) = {}
                BY <4>1, <4>3
            <4>5. IsInjective(h \o q.dead)
                BY <2>4, <4>2, <4>3, <4>4, ListConcat
            <4>6. QED BY <4>3, <4>5
        <3>3. QED BY <2>1, <2>4, <2>6, <3>1, <3>2 DEF r, a
    <2>7. QED BY <2>5, <2>6
<1>9. n \in S
    <2> HIDE DEF S
    <2> HIDE DEF n
    <2>1. 0..n \subseteq S
        BY <1>5, <1>7, <1>8, StepByStep
    <2>2. QED BY <1>5, <2>1
<1>10. Done(n) = ToSet(seq)
    BY DEF ToSet
<1>11. p \in Lists
    BY <1>4, <1>5
<1>12. QED
    <2> HIDE DEF Done
    <2>1. QED BY <1>5, <1>9, <1>10, <1>11

\* The objects that are not marked are the pending ones.
SearchEnd ==
    LET old == {i \in DOMAIN list : ~InArea(list[i])}
    IN  IF old = {} THEN Len(list) ELSE Min(old) - 1

\* The search ends where the list leaves the area.
LEMMA SearchSplits ==
    ASSUME Shape, JobOK, ListOK
    PROVE  /\ SearchEnd \in 0..Len(list)
           /\ \A i \in 1..SearchEnd : list[i] \in Area
           /\ \A i \in SearchEnd + 1..Len(list) : list[i] \notin Area
<1> DEFINE old == {i \in DOMAIN list : ~InArea(list[i])}
           n == SearchEnd
           m == Len(list)
<1>1. /\ m \in Nat /\ DOMAIN list = 1..m /\ Top \in Nat /\ AreaStart \in Nat
      /\ \A i \in 1..m : list[i] \in 0..Top /\ list[i] \in Nat
    BY HeapFacts DEF ListOK
<1>2. \A i \in 1..m : i \in old <=> list[i] \notin Area
    BY <1>1, HeapFacts
<1>3. CASE old = {}
    <2>1. n = m
        BY <1>3 DEF SearchEnd
    <2>2. QED BY <1>1, <1>2, <1>3, <2>1
<1>4. CASE old # {}
    <2> DEFINE x == Min(old)
    <2>1. x \in old /\ \A y \in old : x <= y
        <3>1. old \subseteq Nat
            BY <1>1
        <3>2. \E z \in old : \A y \in old : z <= y
            <4> HIDE DEF old
            <4>1. QED BY <1>4, <3>1, SmallestOfNat
        <3>3. QED BY <3>2 DEF Min
    <2>2. n = x - 1
        BY <1>4 DEF SearchEnd
    <2>3. x \in 1..m /\ x \in Nat
        BY <1>1, <2>1
    <2> HIDE DEF x, n, m, old
    <2>4. n \in 0..m
        BY <1>1, <2>2, <2>3
    <2>5. \A i \in 1..n : i \in 1..m /\ i \notin old
        BY <1>1, <2>1, <2>2, <2>3
    <2>6. \A i \in n + 1..m : i = x \/ (i \in 1..m /\ x < i)
        BY <1>1, <2>2, <2>3
    <2>7. list[x] \notin Area /\ list[x] <= AreaStart
        BY <1>1, <1>2, <2>1, <2>3 DEF Area
    <2>8. \A i \in n + 1..m : list[i] \notin Area
        <3> SUFFICES ASSUME NEW i \in n + 1..m, i # x PROVE list[i] \notin Area
            BY <2>7
        <3>1. list[x] > list[i] /\ i \in 1..m
            BY <2>3, <2>6 DEF ListOK, Decreasing, m
        <3>2. list[i] <= AreaStart
            BY <1>1, <2>3, <2>7, <3>1
        <3>3. QED BY <1>1, <3>1, <3>2 DEF Area
    <2>9. \A i \in 1..n : list[i] \in Area
        BY <1>2, <2>5
    <2>10. QED BY <2>4, <2>8, <2>9 DEF n, m
<1>5. QED BY <1>3, <1>4

\* The two lists of finalizers after the search, which stops at the first old
\* object, have been made from one: nothing in the area is left unsorted.
LEMMA SortedLists ==
    ASSUME Shape, JobOK, ListOK, pending = <<>>,
           NEW p, p = FoldLeft(Sort, [live |-> <<>>, dead |-> <<>>], SubSeq(list, 1, SearchEnd)),
           NEW l, l = p.live \o SubSeq(list, SearchEnd + 1, Len(list)),
           NEW d, d = p.dead
    PROVE  /\ l \in Seq(Numbers) /\ d \in Seq(Numbers) /\ Decreasing(l) /\ IsInjective(d)
           /\ ToSet(l) \union ToSet(d) = ToSet(list)
           /\ \A x \in ToSet(l) \intersect Area : <<x, 0>> \in bits
           /\ \A x \in ToSet(d) : x \in Area /\ <<x, 0>> \notin bits
<1> DEFINE n == SearchEnd
           a == SubSeq(list, 1, n)
           b == SubSeq(list, n + 1, Len(list))
<1>1. /\ n \in 0..Len(list)
      /\ \A i \in 1..n : list[i] \in Area
      /\ \A i \in n + 1..Len(list) : list[i] \notin Area
    BY SearchSplits
<1>2. list \in Seq(Numbers) /\ list \in Seq(Nat) /\ Decreasing(list)
    BY DEF ListOK, Numbers
<1>3. Decreasing(a) /\ Decreasing(b)
    <2> HIDE DEF n
    <2>1. QED BY <1>1, <1>2, DecreasingSplit
<1>4. /\ a \in Seq(Numbers) /\ b \in Seq(Numbers)
      /\ \A x : x \in ToSet(a) <=> \E i \in 1..n : list[i] = x
      /\ \A x : x \in ToSet(b) <=> \E i \in n + 1..Len(list) : list[i] = x
    <2> HIDE DEF n
    <2>1. QED BY <1>1, <1>2, ListSplit
<1>5. p = FoldLeft(Sort, [live |-> <<>>, dead |-> <<>>], a) /\ l = p.live \o b
    OBVIOUS
<1> HIDE DEF a, b
<1>6. ToSet(a) \subseteq Area /\ ToSet(b) \intersect Area = {}
    <2> HIDE DEF n
    <2>1. ASSUME NEW x \in ToSet(a) PROVE x \in Area
        <3>1. \E i \in 1..n : list[i] = x
            BY <1>4
        <3>2. QED BY <1>1, <3>1
    <2>2. ASSUME NEW x \in ToSet(b) PROVE x \notin Area
        <3>1. \E i \in n + 1..Len(list) : list[i] = x
            BY <1>4
        <3>2. QED BY <1>1, <3>1
    <2>3. QED BY <2>1, <2>2
<1>7. ToSet(list) = ToSet(a) \union ToSet(b)
    <2> HIDE DEF n
    <2>1. \A x : x \in ToSet(list) <=> \E i \in 1..Len(list) : list[i] = x
        BY <1>2, ListElements
    <2>2. 1..Len(list) = (1..n) \union (n + 1..Len(list))
        <3>1. Len(list) \in Nat
            BY <1>2
        <3>2. QED BY <1>1, <3>1
    <2>3. QED BY <1>4, <2>1, <2>2
<1>8. /\ p \in Lists /\ Decreasing(p.live) /\ IsInjective(p.dead)
      /\ ToSet(p.live) = {x \in ToSet(a) : <<x, 0>> \in bits}
      /\ ToSet(p.dead) = {x \in ToSet(a) : <<x, 0>> \notin bits}
    BY <1>3, <1>4, <1>5, SortAll
<1>9. p.live \in Seq(Numbers) /\ d \in Seq(Numbers)
    BY <1>8 DEF Lists
<1>10. l \in Seq(Numbers) /\ ToSet(l) = ToSet(p.live) \union ToSet(b)
    <2> DEFINE q == p.live
    <2>1. q \in Seq(Numbers) /\ l = q \o b
        BY <1>5, <1>9
    <2> HIDE DEF q
    <2>2. b \in Seq(Numbers) /\ q \in Seq(Numbers)
        BY <1>4, <2>1
    <2>3. q \o b \in Seq(Numbers) /\ ToSet(q \o b) = ToSet(q) \union ToSet(b)
        BY <2>2, ListConcat
    <2>4. QED BY <2>1, <2>3 DEF q
<1>11. Decreasing(l)
    <2>1. p.live \in Seq(Nat) /\ b \in Seq(Nat)
        BY <1>4, <1>9 DEF Numbers
    <2>2. \A x \in ToSet(p.live), y \in ToSet(b) : x > y
        <3> SUFFICES ASSUME NEW x \in ToSet(p.live), NEW y \in ToSet(b) PROVE x > y
            OBVIOUS
        <3>1. PICK j \in n + 1..Len(list) : list[j] = y
            <4> HIDE DEF n
            <4>1. QED BY <1>4
        <3>2. y \in 0..Top /\ y \notin Area
            <4>1. j \in 1..Len(list)
                <5>1. n \in Nat
                    BY <1>1
                <5> HIDE DEF n
                <5>2. QED BY <5>1
            <4>2. QED BY <1>6, <3>1, <4>1 DEF ListOK
        <3>3. x \in Area
            BY <1>6, <1>8
        <3>4. Top \in Nat /\ AreaStart \in Nat
            BY HeapFacts
        <3>5. QED BY <3>2, <3>3, <3>4 DEF Area
    <2>3. QED BY <1>3, <1>5, <1>8, <2>1, <2>2, DecreasingConcat
<1>12. ToSet(l) \union ToSet(d) = ToSet(list)
    BY <1>7, <1>8, <1>10
<1>13. \A x \in ToSet(l) \intersect Area : <<x, 0>> \in bits
    BY <1>6, <1>8, <1>10
<1>14. \A x \in ToSet(d) : x \in Area /\ <<x, 0>> \notin bits
    BY <1>6, <1>8
<1>15. QED BY <1>8, <1>9, <1>10, <1>11, <1>12, <1>13, <1>14

\* The finalizers are discovered.
LEMMA DiscoverFinalizersKeeps ==
    ASSUME Inv, DiscoverFinalizers
    PROVE  Inv'
<1>1. Shape /\ WeakOK /\ ListOK /\ JobOK /\ BitsOK /\ MarkOK /\ FullOK
    BY DEF Inv
<1> DEFINE p == FoldLeft(Sort, [live |-> <<>>, dead |-> <<>>], SubSeq(list, 1, SearchEnd))
           l == p.live \o SubSeq(list, SearchEnd + 1, Len(list))
           d == p.dead
           u == MarkRoots(Marking, l)
           t == MarkRoots(u, d)
<1>2. /\ phase = "finalizers" /\ list' = l /\ pending' = d
      /\ bits' = t.bits /\ overflow' = t.overflow
      /\ phase' = IF t.overflow THEN "rescan_finalizers" ELSE "weak"
      /\ mem' = mem /\ root' = root /\ UNCHANGED space /\ UNCHANGED job
      /\ table' = table
    BY DEF DiscoverFinalizers, Marks, SearchEnd
<1>3. Marking \in Quiet /\ Mk(Marking) = MarkedNow /\ Marking.bits = bits
    BY <1>1, MarkingQuiet
<1>4. pending = <<>> /\ ToSet(pending) = {}
    BY <1>1, <1>2 DEF ListOK, ToSet
<1>5. /\ l \in Seq(Numbers) /\ d \in Seq(Numbers) /\ Decreasing(l)
      /\ ToSet(l) \union ToSet(d) = ToSet(list)
      /\ \A x \in ToSet(l) \intersect Area : <<x, 0>> \in bits
      /\ \A x \in ToSet(d) : x \in Area /\ <<x, 0>> \notin bits
    <2> HIDE DEF p
    <2>1. p = FoldLeft(Sort, [live |-> <<>>, dead |-> <<>>], SubSeq(list, 1, SearchEnd))
        BY DEF p
    <2>2. QED BY <1>1, <1>4, <2>1, SortedLists
<1> HIDE DEF l, d
<1>6. ToSet(list) \subseteq Cells
    <2>1. \A x \in ToSet(list) : \E i \in 1..Len(list) : list[i] = x
        BY <1>1, ListElements DEF ListOK
    <2>2. \A i \in 1..Len(list) : list[i] \in Nat \ {0} /\ list[i] <= Top
        BY <1>1 DEF ListOK
    <2>3. QED BY <2>1, <2>2 DEF Cells
<1>7. l \in Seq(0..Top) /\ d \in Seq(0..Top) /\ 0 \notin ToSet(l) /\ 0 \notin ToSet(d)
    <2>1. ToSet(l) \subseteq 0..Top /\ ToSet(d) \subseteq 0..Top
        BY <1>5, <1>6 DEF Cells
    <2>2. (\A i \in 1..Len(l) : l[i] \in ToSet(l)) /\ (\A i \in 1..Len(d) : d[i] \in ToSet(d))
        BY <1>5, ListElements
    <2>3. l \in Seq(0..Top) /\ d \in Seq(0..Top)
        BY <1>5, <2>1, <2>2, ListOfOthers
    <2>4. QED BY <1>5, <1>6, <2>3 DEF Cells
<1>8. MarkedFrom(Marking, u, ToSet(l))
    BY <1>1, <1>3, <1>7, MarkRootsMark
<1>9. MarkedFrom(u, t, ToSet(d))
    BY <1>1, <1>7, <1>8, MarkRootsMark DEF MarkedFrom
<1>10. MarkedFrom(Marking, t, ToSet(list))
    <2> HIDE DEF u, t
    <2>1. QED BY <1>5, <1>8, <1>9, MarkedMore
<1> HIDE DEF u, t
<1>11. /\ MarkedNow \subseteq FromAll
       /\ root \in Area => root \in MarkedNow
       /\ \A a \in Old : Refs(a) \intersect Area \subseteq MarkedNow
       /\ \A a \in MarkedNow : Refs(a) \intersect Area \subseteq MarkedNow
    BY <1>1, <1>2 DEF MarkOK, Started, Collecting, Followed
<1>12. MarkedNow \in SUBSET Area /\ \A x \in Area : x \in MarkedNow <=> <<x, 0>> \in bits
    BY DEF MarkedNow, Marked, Area
<1>13. FromAll = FromOld /\ {root} \union Old \in SUBSET Cells
    <2>1. {root} \union Old \in SUBSET Cells
        BY <1>1, HeapFacts DEF Old, Cells
    <2>2. {root} \union Old \union ToSet(pending) = {root} \union Old
        BY <1>4
    <2>3. QED BY <2>1, <2>2 DEF FromAll, FromOld
<1>14. FromOld \in SUBSET Cells /\ {root} \union Old \subseteq FromOld
    BY <1>1, <1>13, ReachedFacts DEF FromOld
<1>15. MarkedNow = Area \intersect FromOld
    <2>1. MarkedNow \union Old \in SUBSET Cells /\ Closed(MarkedNow \union Old)
        BY <1>1, <1>11, <1>12, ClosedWithOld
    <2>2. root \in MarkedNow \/ root \in Old
        <3>1. root \in Area \/ root \in Old
            BY <1>1, HeapFacts DEF Old, Cells, Area
        <3>2. QED BY <1>11, <3>1
    <2>3. FromOld \subseteq MarkedNow \union Old
        BY <1>1, <1>13, <2>1, <2>2, ReachedFacts DEF FromOld
    <2>4. Old \intersect Area = {}
        BY <1>1, HeapFacts DEF Old, Area
    <2>5. QED BY <1>11, <1>12, <1>13, <2>3, <2>4
<1>16. /\ \A x \in ToSet(l) : x \in FromOld
       /\ ToSet(l) \intersect Area \subseteq MarkedNow
       /\ ToSet(d) \intersect FromOld = {}
    <2>1. ToSet(l) \intersect Area \subseteq MarkedNow
        BY <1>5, <1>12
    <2>2. \A x \in ToSet(l) : x \in Area \/ x \in Old
        <3>1. \A x \in Cells : x \in Area \/ x \in Old
            BY <1>1, HeapFacts DEF Old, Cells, Area
        <3>2. QED BY <1>5, <1>6, <3>1
    <2>3. QED BY <1>5, <1>12, <1>14, <1>15, <2>1, <2>2
<1>17. HeapSame /\ UNCHANGED <<mem, root, space>>
    BY <1>2 DEF HeapSame
<1>18. /\ Area' = Area /\ Old' = Old /\ FromOld' = FromOld /\ FromRoot' = FromRoot
       /\ Cells' = Cells /\ MarkedNow' = Mk(t) /\ Shape'
       /\ \A a : Refs(a)' = Refs(a)
    BY <1>1, <1>2, <1>17, SameHeap DEF Mk
<1> DEFINE A == {root} \union Old \union ToSet(d)
<1>19. FromAll' = Reached(A)
    BY <1>2, <1>18 DEF FromAll, Reached, Closed
<1>20. A \in SUBSET Cells
    BY <1>5, <1>6, <1>13
<1>21. Reached(A) \in SUBSET Cells /\ A \subseteq Reached(A) /\ Closed(Reached(A))
    <2> HIDE DEF A
    <2>1. QED BY <1>1, <1>20, ReachedFacts
<1>22. FromOld \subseteq Reached(A)
    <2>1. {root} \union Old \subseteq A
        OBVIOUS
    <2> HIDE DEF A
    <2>2. QED BY <2>1, ReachedGrows DEF FromOld
<1>23. /\ t \in Quiet /\ bits \subseteq t.bits /\ MarkedNow \subseteq Mk(t)
       /\ Mk(t) \subseteq Reached(A)
       /\ ToSet(list) \intersect Area \subseteq Mk(t)
       /\ ~t.overflow => \A x \in Mk(t) : Refs(x) \intersect Area \subseteq Mk(t)
    <2>1. MarkedNow \subseteq Mk(t)
        BY <1>3, <1>10, MarksGrow DEF MarkedFrom
    <2>2. ToSet(list) \intersect Cells \subseteq Reached(A)
        BY <1>5, <1>16, <1>21, <1>22
    <2>3. Mk(t) \subseteq MarkedNow \union Reached(A)
        <3> HIDE DEF A
        <3>1. QED BY <1>3, <1>10, <1>21, <2>2 DEF MarkedFrom
    <2>4. MarkedNow \subseteq Reached(A)
        BY <1>15, <1>22
    <2>5. ASSUME ~t.overflow, NEW x \in Mk(t) PROVE Refs(x) \intersect Area \subseteq Mk(t)
        <3>1. CASE x \in MarkedNow
            BY <1>11, <2>1, <3>1
        <3>2. CASE x \notin MarkedNow
            BY <1>3, <1>10, <2>5, <3>2 DEF MarkedFrom
        <3>3. QED BY <3>1, <3>2
    <2>6. QED BY <1>3, <1>10, <2>1, <2>3, <2>4, <2>5 DEF MarkedFrom
<1> HIDE DEF A
<1>24. t.overflow \in BOOLEAN /\ t.bits \in SUBSET (Nat \X Nat) /\ Remembers(t.bits)
    BY <1>1, <1>23, HeadersKeep DEF Quiet, MState
<1>25. /\ phase' \in {"rescan_finalizers", "weak"}
       /\ phase' \in Followed => ~t.overflow
    BY <1>2 DEF Followed
<1>26. phase \in Collecting /\ phase' \in Collecting /\ phase' # "roots" /\ phase' # "compact"
       /\ phase' \notin {"java", "allocate", "out_of_memory", "roots", "rescan_roots", "finalizers"}
       /\ phase' # "finalize"
    BY <1>2, <1>25 DEF Collecting
<1>27. JobOK' /\ BitsOK'
    BY <1>1, <1>2, <1>17, <1>24, <1>26, JobKept, BitsKept
<1>28. ListOK'
    <2>1. (\A i \in 1..Len(l) : l[i] <= Top) /\ (\A i \in 1..Len(d) : d[i] <= Top)
        <3>1. (\A i \in 1..Len(l) : l[i] \in 0..Top) /\ (\A i \in 1..Len(d) : d[i] \in 0..Top)
            <4>1. \A T, q : q \in Seq(T) => \A i \in 1..Len(q) : q[i] \in T
                OBVIOUS
            <4>2. QED BY <1>7, <4>1
        <3>2. Top \in Nat
            BY <1>1, HeapFacts
        <3>3. QED BY <3>1, <3>2
    <2>2. Top' = Top
        BY <1>2 DEF Top
    <2>3. QED BY <1>2, <1>5, <1>26, <2>1, <2>2 DEF ListOK, Numbers
<1>29. WeakOK'
    <2>1. ToSet(list') \union ToSet(pending') = ToSet(list) \union ToSet(pending)
        BY <1>2, <1>4, <1>5
    <2>2. phase # "fault"
        BY <1>2
    <2>3. QED BY <1>1, <1>2, <1>18, <2>1, <2>2 DEF WeakOK, Top, Cells, IsWeak
<1>30. MarkOK'
    <2>1. root \in Area => root \in Mk(t)
        BY <1>11, <1>23
    <2>2. \A a \in Old : Refs(a) \intersect Area \subseteq Mk(t)
        BY <1>11, <1>23
    <2>3. ToSet(d) \subseteq Mk(t)
        BY <1>5, <1>23
    <2>4. ToSet(l) \intersect Area \subseteq Mk(t) /\ ToSet(l) \intersect Area \subseteq FromOld
        BY <1>16, <1>23
    <2>5. phase' \in Followed => \A x \in Mk(t) : Refs(x) \intersect Area \subseteq Mk(t)
        BY <1>23, <1>25
    <2>6. QED BY <1>2, <1>16, <1>18, <1>19, <1>23, <1>26, <2>1, <2>2, <2>3, <2>4, <2>5 DEF MarkOK
<1>31. FullOK'
    <2>1. ASSUME round = 3
          PROVE  full /\ ToSet(l) \subseteq FromRoot /\ d = <<>>
        <3>1. full /\ ToSet(list) \subseteq FromRoot
            BY <1>1, <1>26, <2>1 DEF FullOK
        <3>2. Old = {} /\ FromOld = FromRoot
            <4>1. Old = {}
                BY <3>1 DEF Old, AreaStart
            <4>2. {root} \union Old = {root}
                BY <4>1
            <4>3. QED BY <4>1, <4>2 DEF FromOld, FromRoot
        <3>3. ToSet(d) = {}
            BY <1>5, <1>16, <3>1, <3>2
        <3>4. d = <<>>
            BY <1>5, <3>3, ListElements
        <3>5. QED BY <1>5, <3>1, <3>4
    <2>2. round' = round /\ full' = full
        BY <1>2 DEF job, space
    <2>3. phase' # "out_of_memory"
        BY <1>25
    <2>4. QED BY <1>2, <1>18, <1>26, <2>1, <2>2, <2>3 DEF FullOK
<1>32. QED BY <1>18, <1>27, <1>28, <1>29, <1>30, <1>31 DEF Inv

\* Taking back the marks of the pending objects and marking them again comes out
\* where it started: what they lead to is the only thing that is not marked.
LEMMA ClearWeakReferencesKeeps ==
    ASSUME Inv, ClearWeakReferences
    PROVE  Inv'
<1>1. Shape /\ WeakOK /\ ListOK /\ JobOK /\ BitsOK /\ MarkOK /\ FullOK
    BY DEF Inv
<1> DEFINE taken == [Marking EXCEPT !.bits = @ \ {<<a, 0>> : a \in Range(pending)}]
           t == MarkRoots(taken, pending)
           P == ToSet(pending)
<1>2. /\ phase = "weak" /\ phase' = "compact"
      /\ table' = [i \in DOMAIN table |->
                      IF table[i] > 0 /\ Unmarked(taken, table[i]) THEN 0 ELSE table[i]]
      /\ bits' = t.bits /\ overflow' = t.overflow
      /\ mem' = mem /\ root' = root /\ UNCHANGED space /\ UNCHANGED job
      /\ list' = list /\ pending' = pending
    BY DEF ClearWeakReferences, Marks
<1>3. Marking \in Quiet /\ Mk(Marking) = MarkedNow /\ Marking.bits = bits
    BY <1>1, MarkingQuiet
<1>4. Range(pending) = P
    BY DEF Range, ToSet
<1>5. taken \in Quiet /\ taken.bits = bits \ {<<a, 0>> : a \in P}
    BY <1>3, <1>4 DEF Quiet, MState
<1> HIDE DEF taken
<1>6. MarkedNow \in SUBSET Area /\ \A x \in Area : x \in MarkedNow <=> <<x, 0>> \in bits
    BY DEF MarkedNow, Marked, Area
<1>7. Mk(taken) = MarkedNow \ P
    <2>1. \A x \in Area : x \in Mk(taken) <=> <<x, 0>> \in taken.bits
        BY DEF Mk, Marked, Area
    <2>2. Mk(taken) \subseteq Area
        BY DEF Mk, Marked, Area
    <2>3. \A x : <<x, 0>> \in taken.bits <=> <<x, 0>> \in bits /\ x \notin P
        BY <1>5
    <2>4. QED BY <1>6, <2>1, <2>2, <2>3
<1>8. /\ MarkedNow \subseteq FromAll
      /\ root \in Area => root \in MarkedNow
      /\ \A a \in Old : Refs(a) \intersect Area \subseteq MarkedNow
      /\ P \subseteq MarkedNow
      /\ \A a \in MarkedNow : Refs(a) \intersect Area \subseteq MarkedNow
      /\ ToSet(list) \intersect Area \subseteq MarkedNow
      /\ ToSet(list) \intersect Area \subseteq FromOld
      /\ P \intersect FromOld = {}
    BY <1>1, <1>2 DEF MarkOK, Started, Collecting, Followed, Found
<1>9. pending \in Seq(0..Top) /\ P \subseteq Cells
    <2>1. \A i \in 1..Len(pending) : pending[i] \in Nat \ {0} /\ pending[i] <= Top
        BY <1>1 DEF ListOK
    <2>2. \A i \in 1..Len(pending) : pending[i] \in 0..Top
        BY <1>1, <2>1, HeapFacts
    <2>3. pending \in Seq(0..Top)
        BY <1>1, <2>2, ListOfOthers DEF ListOK
    <2>4. P \subseteq Cells
        BY <1>1, <1>6, <1>8, HeapFacts
    <2>5. QED BY <2>3, <2>4
<1>10. MarkedFrom(taken, t, P)
    BY <1>1, <1>5, <1>9, MarkRootsMark
<1> HIDE DEF t
<1>11. t \in Quiet /\ Mk(t) = MarkedNow
    <2>1. MarkedNow \union Old \in SUBSET Cells /\ Closed(MarkedNow \union Old)
        BY <1>1, <1>6, <1>8, ClosedWithOld
    <2>2. Mk(t) \subseteq Mk(taken) \union (MarkedNow \union Old)
        <3> DEFINE C == MarkedNow \union Old
        <3>1. C \in SUBSET Cells /\ Closed(C) /\ P \intersect Cells \subseteq C
            BY <1>8, <2>1
        <3> HIDE DEF C
        <3>2. Mk(t) \subseteq Mk(taken) \union C
            BY <1>10, <3>1 DEF MarkedFrom
        <3>3. QED BY <3>2 DEF C
    <2>3. Mk(t) \subseteq Area /\ Old \intersect Area = {}
        BY <1>1, HeapFacts DEF Mk, Marked, Area, Old
    <2>4. Mk(taken) \subseteq Mk(t)
        BY <1>10, MarksGrow DEF MarkedFrom
    <2>5. P \subseteq Mk(t) /\ t \in Quiet
        BY <1>6, <1>8, <1>10 DEF MarkedFrom
    <2>6. QED BY <1>7, <2>2, <2>3, <2>4, <2>5
<1>12. bits \subseteq t.bits
    <2>1. \A x \in P : <<x, 0>> \in t.bits
        BY <1>8, <1>11 DEF Mk, Marked
    <2>2. bits \ {<<a, 0>> : a \in P} \subseteq t.bits
        BY <1>5, <1>10 DEF MarkedFrom
    <2>3. QED BY <2>1, <2>2
<1>13. HeapSame /\ UNCHANGED <<mem, root, space>>
    BY <1>2 DEF HeapSame
<1>14. /\ Area' = Area /\ Old' = Old /\ FromOld' = FromOld /\ FromAll' = FromAll
       /\ FromRoot' = FromRoot /\ Cells' = Cells /\ MarkedNow' = MarkedNow /\ Shape'
       /\ \A a : Refs(a)' = Refs(a)
    BY <1>1, <1>2, <1>11, <1>13, SameHeap DEF Mk
<1>15. t.overflow \in BOOLEAN /\ t.bits \in SUBSET (Nat \X Nat) /\ Remembers(t.bits)
    BY <1>1, <1>11, <1>12, HeadersKeep DEF Quiet, MState
<1>16. phase \in Collecting /\ phase' \in Collecting
    BY <1>2 DEF Collecting
<1>17. JobOK' /\ BitsOK'
    BY <1>1, <1>2, <1>13, <1>15, <1>16, JobKept, BitsKept
<1>18. ListOK'
    BY <1>1, <1>2 DEF ListOK, Top
<1>19. /\ table \in [1..Cardinality(Weaks) -> Int]
       /\ \A i \in DOMAIN table : -1 <= table[i] /\ table[i] <= Top
    BY <1>1 DEF WeakOK
<1>20. /\ table' \in [1..Cardinality(Weaks) -> Int]
       /\ \A i \in DOMAIN table : /\ -1 <= table'[i] /\ table'[i] <= Top
                                  /\ table'[i] >= 0 <=> table[i] >= 0
                                  /\ table'[i] \in Area => table'[i] \in MarkedNow
    <2>1. \A i \in DOMAIN table :
              table'[i] = IF table[i] > 0 /\ Unmarked(taken, table[i]) THEN 0 ELSE table[i]
        BY <1>2, <1>19
    <2>2. table' \in [1..Cardinality(Weaks) -> Int]
        BY <1>2, <1>19
    <2>3. Top \in Nat /\ 0 \notin Area /\ \A a \in Area : InArea(a) /\ a > 0
        BY <1>1, HeapFacts DEF Area, Cells
    <2>4. \A x \in Area : ~Unmarked(taken, x) => x \in MarkedNow
        <3>1. ASSUME NEW x \in Area, ~Unmarked(taken, x) PROVE x \in MarkedNow
            <4>1. <<x, 0>> \in taken.bits
                BY <2>3, <3>1 DEF Unmarked
            <4>2. QED BY <1>5, <1>6, <4>1
        <3>2. QED BY <3>1
    <2>5. ASSUME NEW i \in DOMAIN table
          PROVE  /\ -1 <= table'[i] /\ table'[i] <= Top
                 /\ table'[i] >= 0 <=> table[i] >= 0
                 /\ table'[i] \in Area => table'[i] \in MarkedNow
        <3>1. table[i] \in Int /\ -1 <= table[i] /\ table[i] <= Top
            BY <1>19
        <3>2. CASE table[i] > 0 /\ Unmarked(taken, table[i])
            <4>1. table'[i] = 0
                BY <2>1, <3>2
            <4>2. QED BY <2>3, <3>1, <3>2, <4>1
        <3>3. CASE ~(table[i] > 0 /\ Unmarked(taken, table[i]))
            <4>1. table'[i] = table[i]
                BY <2>1, <3>3
            <4>2. QED BY <2>3, <2>4, <3>1, <3>3, <4>1
        <3>4. QED BY <3>2, <3>3
    <2>6. QED BY <2>2, <2>5
<1>21. WeakOK'
    <2>1. DOMAIN table' = DOMAIN table
        BY <1>19, <1>20
    <2>2. Top' = Top
        BY <1>2 DEF Top
    <2>3. \A a \in Cells : mem[a].index > 0 => mem[a].index \in DOMAIN table /\ table[mem[a].index] >= 0
        <3>1. \A a \in Cells : mem[a].index \in Int /\ mem[a].index <= Cardinality(Weaks)
            BY <1>1, CellFacts DEF WeakOK
        <3>2. Cardinality(Weaks) \in Nat
            BY Parameters, FS_CardinalityType
        <3>3. QED BY <1>1, <1>19, <3>1, <3>2 DEF WeakOK
    <2>4. \A a \in Cells : mem[a].index > 0 => table'[mem[a].index] >= 0
        BY <1>20, <2>3
    <2>5. \A i \in DOMAIN table : table'[i] >= 0 => \E a \in Cells : mem[a].index = i
        BY <1>1, <1>20 DEF WeakOK
    <2>6. /\ \A a \in Cells : -1 <= mem[a].index /\ mem[a].index <= Cardinality(Weaks)
          /\ \A a \in Cells : mem[a].index > 0 => IsWeak(a)
          /\ \A a, b \in Cells : mem[a].index > 0 /\ mem[a].index = mem[b].index => a = b
          /\ \A a \in Cells : IsWeak(a) /\ mem[a].index >= 0 => a \in ToSet(list) \union ToSet(pending)
        BY <1>1, <1>2 DEF WeakOK
    <2>7. \A a : IsWeak(a)' <=> IsWeak(a)
        BY <1>2 DEF IsWeak
    <2>8. QED BY <1>2, <1>14, <1>20, <2>1, <2>2, <2>4, <2>5, <2>6, <2>7 DEF WeakOK
<1>22. MarkOK'
    <2>1. DOMAIN table' = DOMAIN table
        BY <1>19, <1>20
    <2>2. QED BY <1>2, <1>8, <1>14, <1>20, <2>1 DEF MarkOK
<1>23. FullOK'
    BY <1>1, <1>2, <1>13, <1>14, <1>16 DEF FullOK, space, job
<1>24. QED BY <1>14, <1>17, <1>18, <1>21, <1>22, <1>23 DEF Inv

-----------------------------------------------------------------------------
(* The program.                                                            *)

\* Nothing is marked while the program runs.
LEMMA JavaKeeps ==
    ASSUME Inv, phase \in {"java", "allocate"}, phase' = "java",
           UNCHANGED <<space, overflow, job>>,
           Shape', WeakOK', ListOK', BitsOK', Top' \in Nat, Top <= Top', Top' <= youngEnd
    PROVE  Inv'
<1>1. JobOK /\ Shape
    BY DEF Inv
<1>2. /\ oldEnd' = oldEnd /\ youngEnd' = youngEnd /\ full' = full
      /\ resume' = resume /\ need' = need /\ round' = round /\ wasFull' = wasFull
      /\ overflow' = overflow
    BY DEF space, job
<1>3. JobOK'
    <2>1. Top \in Nat /\ Capacity \in Nat
        BY <1>1, HeapFacts, Parameters
    <2>2. phase' \in Phases /\ need' = 0
        BY <1>1, <1>2 DEF JobOK, Phases
    <2>3. oldEnd <= Top'
        BY <1>1, <2>1 DEF JobOK
    <2>4. QED BY <1>1, <1>2, <2>2, <2>3 DEF JobOK
<1>4. MarkOK' /\ FullOK'
    BY DEF MarkOK, FullOK, Started, Followed, Found, Collecting
<1>5. QED BY <1>3, <1>4 DEF Inv

\* A field of an object, or a variable, is given another value.
FieldChanged(c, f, v) ==
    /\ Shape' /\ Top' = Top /\ Cells' = Cells
    /\ \A a \in Cells : /\ mem'[a].obj = mem[a].obj /\ mem'[a].index = mem[a].index
                        /\ Len(mem'[a].ref) = Len(mem[a].ref)
    /\ \A a \in Cells : \A g \in 1..Len(mem[a].ref) :
          mem'[a].ref[g] = IF a = c /\ g = f THEN v ELSE mem[a].ref[g]

\* A store changes one field of one cell.
LEMMA FieldSet ==
    ASSUME Shape, JobOK, NEW c \in Cells, NEW f \in 1..Len(mem[c].ref), NEW v \in 0..Top,
           mem' = [mem EXCEPT ![c].ref[f] = v], root' = root
    PROVE  FieldChanged(c, f, v)
<1>1. Top \in Nat /\ DOMAIN mem = Cells /\ mem \in Seq(Cell_)
    BY HeapFacts DEF Shape
<1>2. mem[c] \in Cell_ /\ mem[c].ref \in Seq(Nat)
    BY CellFacts
<1> DEFINE r == [mem[c].ref EXCEPT ![f] = v]
           n == [mem[c] EXCEPT !.ref = r]
<1>3. /\ r \in Seq(Nat) /\ Len(r) = Len(mem[c].ref)
      /\ \A g \in 1..Len(mem[c].ref) : r[g] = IF g = f THEN v ELSE mem[c].ref[g]
    <2> DEFINE q == mem[c].ref
    <2>1. q \in Seq(Nat) /\ f \in 1..Len(q) /\ v \in Nat
        BY <1>1, <1>2
    <2> HIDE DEF q
    <2>2. [q EXCEPT ![f] = v] \in Seq(Nat) /\ Len([q EXCEPT ![f] = v]) = Len(q)
        BY <2>1
    <2>3. \A g \in 1..Len(q) : [q EXCEPT ![f] = v][g] = IF g = f THEN v ELSE q[g]
        BY <2>1
    <2>4. QED BY <2>2, <2>3 DEF q
<1> HIDE DEF r
<1>4. n \in Cell_ /\ n.obj = mem[c].obj /\ n.index = mem[c].index /\ n.ref = r
    BY <1>2, <1>3 DEF Cell_
<1>5. mem' = [mem EXCEPT ![c] = n]
    BY DEF n, r
<1> HIDE DEF n
<1>6. mem' \in Seq(Cell_) /\ Len(mem') = Len(mem)
    BY <1>1, <1>4, <1>5 DEF Cells
<1>7. \A a \in Cells : mem'[a] = IF a = c THEN n ELSE mem[a]
    BY <1>1, <1>5
<1>8. Top' = Top /\ Cells' = Cells
    BY <1>6 DEF Top, Cells
<1>9. \A a \in Cells : /\ mem'[a].obj = mem[a].obj /\ mem'[a].index = mem[a].index
                       /\ Len(mem'[a].ref) = Len(mem[a].ref)
    BY <1>3, <1>4, <1>7
<1>10. ASSUME NEW a \in Cells, NEW g \in 1..Len(mem[a].ref)
       PROVE  mem'[a].ref[g] = IF a = c /\ g = f THEN v ELSE mem[a].ref[g]
    <2>1. CASE a = c
        BY <1>3, <1>4, <1>7, <2>1
    <2>2. CASE a # c
        BY <1>7, <2>2
    <2>3. QED BY <2>1, <2>2
<1>11. Shape'
    <2>1. \A a \in Cells : Len(mem'[a].ref) = Size(mem'[a].obj)
        BY <1>9 DEF Shape
    <2>2. ASSUME NEW a \in Cells, NEW g \in 1..Len(mem'[a].ref) PROVE mem'[a].ref[g] <= Top
        <3>1. g \in 1..Len(mem[a].ref)
            BY <1>9
        <3>2. mem[a].ref[g] <= Top
            BY <3>1 DEF Shape
        <3>3. QED BY <1>1, <1>10, <3>1, <3>2
    <2>3. \A a, b \in Cells : mem'[a].obj = mem'[b].obj => a = b
        BY <1>9 DEF Shape
    <2>4. root \in Cells /\ mem'[root].obj = Stack
        BY <1>9 DEF Shape
    <2>5. QED BY <1>6, <1>8, <2>1, <2>2, <2>3, <2>4 DEF Shape, Size
<1>12. QED BY <1>8, <1>9, <1>10, <1>11 DEF FieldChanged

\* A store that the remembered set knows of, if it has to.
LEMMA FieldSetKeeps ==
    ASSUME Inv, phase = "java", phase' = phase,
           NEW c \in Cells, NEW f \in 1..Len(mem[c].ref), NEW v \in 0..Top,
           mem' = [mem EXCEPT ![c].ref[f] = v],
           UNCHANGED <<root, table, list, space, overflow, pending, job>>,
           bits' \in SUBSET (Nat \X Nat), bits \subseteq bits',
           c = root \/ (c <= oldEnd /\ v > c => <<c, f>> \in bits')
    PROVE  Inv'
<1>1. Shape /\ WeakOK /\ ListOK /\ JobOK /\ BitsOK
    BY DEF Inv
<1>2. /\ Shape' /\ Top' = Top /\ Cells' = Cells
      /\ \A a \in Cells : /\ mem'[a].obj = mem[a].obj /\ mem'[a].index = mem[a].index
                          /\ Len(mem'[a].ref) = Len(mem[a].ref)
      /\ \A a \in Cells : \A g \in 1..Len(mem[a].ref) :
            mem'[a].ref[g] = IF a = c /\ g = f THEN v ELSE mem[a].ref[g]
    <2>1. root' = root
        OBVIOUS
    <2>2. FieldChanged(c, f, v)
        BY <1>1, <2>1, FieldSet
    <2>3. QED BY <2>2 DEF FieldChanged
<1>3. WeakOK'
    <2>1. \A a \in Cells : IsWeak(a)' <=> IsWeak(a)
        BY <1>2 DEF IsWeak
    <2>2. QED BY <1>1, <1>2, <2>1 DEF WeakOK
<1>4. ListOK'
    BY <1>1, <1>2 DEF ListOK
<1>5. BitsOK'
    <2>1. oldEnd' = oldEnd /\ full' = full /\ root' = root /\ phase' \notin Collecting /\ phase' # "roots"
        BY DEF space, Collecting
    <2>2. ASSUME ~full, NEW a \in 1..oldEnd, NEW g \in 1..Len(mem'[a].ref),
                 mem'[a].ref[g] > oldEnd, a # root
          PROVE  <<a, g>> \in bits'
        <3>1. a \in Cells /\ oldEnd \in Nat
            BY <1>1, HeapFacts DEF JobOK, Cells
        <3>2. g \in 1..Len(mem[a].ref)
            BY <1>2, <3>1
        <3>3. CASE a = c /\ g = f
            <4>1. v > oldEnd /\ v \in Nat
                BY <1>2, <2>2, <3>1, <3>2, <3>3
            <4>2. v > a
                BY <3>1, <4>1
            <4>3. QED BY <2>2, <3>1, <3>3, <4>2
        <3>4. CASE ~(a = c /\ g = f)
            <4>1. mem[a].ref[g] > oldEnd
                BY <1>2, <2>2, <3>1, <3>2, <3>4
            <4>2. QED BY <1>1, <2>2, <3>2, <4>1 DEF BitsOK
        <3>5. QED BY <3>3, <3>4
    <2>3. QED BY <2>1, <2>2 DEF BitsOK
<1>6. Top \in Nat /\ Top <= youngEnd
    BY <1>1, HeapFacts DEF JobOK
<1>7. QED BY <1>2, <1>3, <1>4, <1>5, <1>6, JavaKeeps

\* The program has the addresses of cells in its variables.
LEMMA InHandFacts ==
    ASSUME Shape, JobOK
    PROVE  /\ Locals \subseteq Cells /\ InHand \subseteq Cells
           /\ Len(mem[root].ref) = LocalCount
           /\ \A w \in InHand : IsWeak(w) => mem[w].index # 0
<1>1. root \in Cells /\ Len(mem[root].ref) = LocalCount
    BY HeapFacts DEF Shape, Size
<1>2. Locals \subseteq Refs(root)
    <2>1. \A l \in 1..LocalCount : mem[root].ref[l] # 0 => mem[root].ref[l] \in Refs(root)
        BY <1>1, CellFacts
    <2>2. QED BY <2>1 DEF Locals
<1>3. Locals \subseteq Cells
    BY <1>1, <1>2, CellFacts
<1>4. QED BY <1>1, <1>3 DEF InHand, Unconstructed, Cells

\* The write barrier tells it of a store into an object.
LEMMA PutFieldKeeps ==
    ASSUME Inv, NEW a \in InHand, NEW v \in InHand \union {0}, NEW f \in 1..Len(mem[a].ref),
           PutField(a, f, v)
    PROVE  Inv'
<1>1. Shape /\ JobOK /\ BitsOK
    BY DEF Inv
<1>2. a \in Cells /\ v \in 0..Top /\ Top \in Nat
    BY <1>1, InHandFacts, HeapFacts DEF Cells
<1>3. /\ phase = "java" /\ phase' = phase /\ mem' = [mem EXCEPT ![a].ref[f] = v]
      /\ bits' = IF a <= oldEnd /\ v > a THEN bits \union {<<a, f>>} ELSE bits
      /\ UNCHANGED <<root, table, list, space, overflow, pending, job>>
    BY DEF PutField
<1>4. f \in Nat /\ a \in Nat
    BY <1>2 DEF Cells
<1>5. bits' \in SUBSET (Nat \X Nat) /\ bits \subseteq bits'
    BY <1>1, <1>3, <1>4 DEF BitsOK
<1>6. a <= oldEnd /\ v > a => <<a, f>> \in bits'
    BY <1>3
<1>7. QED BY <1>2, <1>3, <1>5, <1>6, FieldSetKeeps

\* A store into a variable need not be remembered while the program runs.
LEMMA SetLocalKeeps ==
    ASSUME Inv, phase = "java", NEW l \in 1..LocalCount, NEW v \in 0..Top, SetLocal(l, v),
           UNCHANGED <<root, table, list, space, marks, pending, phase, job>>
    PROVE  Inv'
<1>1. Shape /\ JobOK /\ BitsOK
    BY DEF Inv
<1>2. root \in Cells /\ l \in 1..Len(mem[root].ref)
    BY <1>1, HeapFacts, InHandFacts
<1>3. /\ phase' = phase /\ mem' = [mem EXCEPT ![root].ref[l] = v] /\ bits' = bits
      /\ UNCHANGED <<root, table, list, space, overflow, pending, job>>
    BY DEF SetLocal, marks
<1>4. bits' \in SUBSET (Nat \X Nat) /\ bits \subseteq bits'
    BY <1>1, <1>3 DEF BitsOK
<1>5. QED BY <1>2, <1>3, <1>4, FieldSetKeeps

\* A field is read.
LEMMA GetFieldKeeps ==
    ASSUME Inv, NEW l \in 1..LocalCount, NEW a \in InHand, NEW f \in 1..Len(mem[a].ref),
           GetField(l, a, f)
    PROVE  Inv'
<1>1. a \in Cells
    BY InHandFacts DEF Inv
<1>2. mem[a].ref[f] \in 0..Top
    BY <1>1, CellFacts DEF Inv
<1>3. QED BY <1>2, SetLocalKeeps DEF GetField

\* A variable is cleared.
LEMMA ClearLocalKeeps ==
    ASSUME Inv, NEW l \in 1..LocalCount, ClearLocal(l)
    PROVE  Inv'
<1>1. 0 \in 0..Top
    BY HeapFacts DEF Inv
<1>2. QED BY <1>1, SetLocalKeeps DEF ClearLocal

\* An object that has an entry of the array has it in use.
LEMMA EntryFacts ==
    ASSUME Shape, JobOK, WeakOK, NEW a \in Cells
    PROVE  /\ DOMAIN table = 1..Cardinality(Weaks) /\ Cardinality(Weaks) \in Nat
           /\ mem[a].index \in Int /\ mem[a].index >= -1
           /\ mem[a].index > 0 => mem[a].index \in DOMAIN table /\ table[mem[a].index] \in 0..Top
<1>1. mem[a].index \in Int /\ mem[a].index <= Cardinality(Weaks) /\ mem[a].index >= -1
    BY CellFacts DEF WeakOK
<1>2. Cardinality(Weaks) \in Nat
    BY Parameters, FS_CardinalityType
<1>3. DOMAIN table = 1..Cardinality(Weaks) /\ \A i \in DOMAIN table : table[i] \in Int /\ table[i] <= Top
    BY DEF WeakOK
<1>4. mem[a].index > 0 => mem[a].index \in DOMAIN table /\ table[mem[a].index] >= 0
    BY <1>1, <1>2, <1>3 DEF WeakOK
<1>5. Top \in Nat
    BY HeapFacts
<1>6. QED BY <1>1, <1>2, <1>3, <1>4, <1>5

\* The referent of a WeakReference is read.
LEMMA GetWeakKeeps ==
    ASSUME Inv, NEW l \in 1..LocalCount, NEW w \in InHand, GetWeak(l, w)
    PROVE  Inv'
<1>1. Shape /\ JobOK /\ WeakOK
    BY DEF Inv
<1>2. w \in Cells /\ IsWeak(w) /\ mem[w].index # 0
    BY <1>1, InHandFacts DEF GetWeak
<1> DEFINE v == IF mem[w].index < 0 THEN 0 ELSE table[mem[w].index]
<1>3. v \in 0..Top
    <2>1. 0 \in 0..Top
        BY <1>1, HeapFacts
    <2>2. mem[w].index \in Int /\ (mem[w].index > 0 => table[mem[w].index] \in 0..Top)
        BY <1>1, <1>2, EntryFacts
    <2>3. QED BY <1>2, <2>1, <2>2
<1>4. SetLocal(l, v) /\ phase = "java"
      /\ UNCHANGED <<root, table, list, space, marks, pending, phase, job>>
    BY DEF GetWeak
<1> HIDE DEF v
<1>5. QED BY <1>3, <1>4, SetLocalKeeps

EntriesOK ==
    /\ table \in [1..Cardinality(Weaks) -> Int]
    /\ \A i \in DOMAIN table : -1 <= table[i] /\ table[i] <= Top
    /\ \A a \in Cells : -1 <= mem[a].index /\ mem[a].index <= Cardinality(Weaks)
    /\ \A a \in Cells : mem[a].index > 0 => IsWeak(a) /\ table[mem[a].index] >= 0
    /\ \A a, b \in Cells : mem[a].index > 0 /\ mem[a].index = mem[b].index => a = b
    /\ \A i \in DOMAIN table : table[i] >= 0 => \E a \in Cells : mem[a].index = i

\* An object is given another place in the array of weak references.
IndexChanged(w, i) ==
    /\ Shape' /\ Top' = Top /\ Cells' = Cells
    /\ \A a \in Cells : /\ mem'[a].obj = mem[a].obj /\ mem'[a].ref = mem[a].ref
                        /\ mem'[a].index = IF a = w THEN i ELSE mem[a].index

\* A store changes the index of one WeakReference.
LEMMA IndexSet ==
    ASSUME Shape, JobOK, NEW w \in Cells, NEW i \in Int,
           mem' = [mem EXCEPT ![w].index = i], root' = root
    PROVE  IndexChanged(w, i)
<1>1. Top \in Nat /\ DOMAIN mem = Cells /\ mem \in Seq(Cell_)
    BY HeapFacts DEF Shape
<1>2. mem[w] \in Cell_
    BY CellFacts
<1> DEFINE n == [mem[w] EXCEPT !.index = i]
<1>3. n \in Cell_ /\ n.obj = mem[w].obj /\ n.ref = mem[w].ref /\ n.index = i
    BY <1>2 DEF Cell_
<1>4. mem' = [mem EXCEPT ![w] = n]
    OBVIOUS
<1> HIDE DEF n
<1>5. mem' \in Seq(Cell_) /\ Len(mem') = Len(mem)
    BY <1>1, <1>3, <1>4 DEF Cells
<1>6. \A a \in Cells : mem'[a] = IF a = w THEN n ELSE mem[a]
    BY <1>1, <1>4
<1>7. Top' = Top /\ Cells' = Cells
    BY <1>5 DEF Top, Cells
<1>8. \A a \in Cells : /\ mem'[a].obj = mem[a].obj /\ mem'[a].ref = mem[a].ref
                       /\ mem'[a].index = IF a = w THEN i ELSE mem[a].index
    BY <1>3, <1>6
<1>9. Shape'
    <2>1. root \in Cells /\ mem'[root].obj = Stack
        BY <1>8 DEF Shape
    <2>2. /\ \A a \in Cells : /\ Len(mem'[a].ref) = Size(mem'[a].obj)
                              /\ \A f \in 1..Len(mem'[a].ref) : mem'[a].ref[f] <= Top
          /\ \A a, b \in Cells : mem'[a].obj = mem'[b].obj => a = b
        BY <1>8 DEF Shape
    <2>3. QED BY <1>5, <1>7, <2>1, <2>2 DEF Shape, Size
<1>10. QED BY <1>7, <1>8, <1>9 DEF IndexChanged

\* Nothing else of the invariant depends on it.
LEMMA IndexSetKeeps ==
    ASSUME Inv, NEW w, NEW i, IndexChanged(w, i), UNCHANGED <<root, space, bits>>,
           phase \notin Collecting, phase' \notin Collecting
    PROVE  BitsOK'
<1>1. BitsOK /\ Shape /\ JobOK
    BY DEF Inv
<1>2. /\ oldEnd' = oldEnd /\ full' = full /\ root' = root /\ bits' = bits
      /\ phase' # "roots"
    BY DEF space, Collecting
<1>3. \A a \in 1..oldEnd : mem'[a].ref = mem[a].ref
    <2>1. 1..oldEnd \subseteq Cells
        BY <1>1, HeapFacts DEF JobOK, Cells
    <2>2. QED BY <2>1 DEF IndexChanged
<1>4. QED BY <1>1, <1>2, <1>3 DEF BitsOK

\* An entry is given back.
LEMMA GiveUpKeeps ==
    ASSUME Shape, JobOK, WeakOK, NEW w \in Cells, mem[w].index # 0, GiveUp(w), root' = root
    PROVE  IndexChanged(w, -1) /\ EntriesOK'
<1>1. CASE mem[w].index < 0
    <2>1. mem' = mem /\ table' = table /\ mem[w].index = -1
        <3>1. mem[w].index = -1
            BY <1>1, EntryFacts
        <3>2. QED BY <1>1, <3>1 DEF GiveUp
    <2>2. Shape' /\ Top' = Top /\ Cells' = Cells
        BY <2>1 DEF Shape, Top, Cells
    <2>3. IndexChanged(w, -1)
        BY <2>1, <2>2 DEF IndexChanged
    <2>4. EntriesOK'
        BY <2>1 DEF EntriesOK, WeakOK, Top, Cells, IsWeak
    <2>5. QED BY <2>3, <2>4
<1>2. CASE ~(mem[w].index < 0)
    <2> DEFINE k == mem[w].index
    <2>1. k \in DOMAIN table /\ k > 0 /\ k \in Int /\ DOMAIN table = 1..Cardinality(Weaks)
        BY <1>2, EntryFacts
    <2>2. mem' = [mem EXCEPT ![w].index = -1] /\ table' = [table EXCEPT ![k] = -1]
        BY <1>2 DEF GiveUp
    <2>3. IndexChanged(w, -1)
        <3>1. -1 \in Int
            OBVIOUS
        <3>2. QED BY <2>2, <3>1, IndexSet
    <2>4. /\ table \in [1..Cardinality(Weaks) -> Int]
          /\ \A i \in DOMAIN table : -1 <= table[i] /\ table[i] <= Top
          /\ \A a \in Cells : -1 <= mem[a].index /\ mem[a].index <= Cardinality(Weaks)
          /\ \A a \in Cells : mem[a].index > 0 => IsWeak(a) /\ table[mem[a].index] >= 0
          /\ \A a, b \in Cells : mem[a].index > 0 /\ mem[a].index = mem[b].index => a = b
          /\ \A i \in DOMAIN table : table[i] >= 0 => \E a \in Cells : mem[a].index = i
        BY DEF WeakOK
    <2>5. /\ table' \in [1..Cardinality(Weaks) -> Int] /\ DOMAIN table' = DOMAIN table
          /\ \A i \in DOMAIN table : table'[i] = IF i = k THEN -1 ELSE table[i]
        BY <2>1, <2>2, <2>4
    <2>6. /\ Top' = Top /\ Cells' = Cells
          /\ \A a \in Cells : /\ IsWeak(a)' <=> IsWeak(a)
                              /\ mem'[a].index = IF a = w THEN -1 ELSE mem[a].index
        BY <2>3 DEF IndexChanged, IsWeak
    <2>7. Top \in Nat
        BY HeapFacts
    <2>8. \A i \in DOMAIN table : -1 <= table'[i] /\ table'[i] <= Top
        BY <2>4, <2>5, <2>7
    <2>9. \A a \in Cells : -1 <= mem'[a].index /\ mem'[a].index <= Cardinality(Weaks)
        <3>1. Cardinality(Weaks) \in Nat
            BY Parameters, FS_CardinalityType
        <3>2. QED BY <2>4, <2>6, <3>1
    <2>10. ASSUME NEW a \in Cells, mem'[a].index > 0
           PROVE  IsWeak(a)' /\ table'[mem'[a].index] >= 0
        <3>1. a # w /\ mem'[a].index = mem[a].index
            BY <2>6, <2>10
        <3>2. mem[a].index # k
            BY <2>1, <2>4, <2>10, <3>1
        <3>3. mem[a].index \in DOMAIN table
            BY <2>10, <3>1, EntryFacts
        <3>4. QED BY <2>4, <2>5, <2>6, <2>10, <3>1, <3>2, <3>3
    <2>11. \A a, b \in Cells : mem'[a].index > 0 /\ mem'[a].index = mem'[b].index => a = b
        BY <2>4, <2>6
    <2>12. ASSUME NEW i \in DOMAIN table, table'[i] >= 0
           PROVE  \E a \in Cells : mem'[a].index = i
        <3>1. i # k /\ table[i] >= 0
            BY <2>5, <2>12
        <3>2. PICK a \in Cells : mem[a].index = i
            BY <2>4, <3>1
        <3>3. a # w
            BY <3>1, <3>2
        <3>4. QED BY <2>6, <3>2, <3>3
    <2> HIDE DEF k
    <2>13. EntriesOK'
        BY <2>5, <2>6, <2>8, <2>9, <2>10, <2>11, <2>12 DEF EntriesOK
    <2>14. QED BY <2>3, <2>13
<1>3. QED BY <1>1, <1>2

\* A WeakReference is cleared.
LEMMA ClearWeakKeeps ==
    ASSUME Inv, NEW w \in InHand, ClearWeak(w)
    PROVE  Inv'
<1>1. Shape /\ JobOK /\ WeakOK /\ ListOK
    BY DEF Inv
<1>2. w \in Cells /\ IsWeak(w) /\ mem[w].index # 0 /\ GiveUp(w)
    BY <1>1, InHandFacts DEF ClearWeak
<1>3. /\ phase = "java" /\ phase' = "java" /\ bits' = bits /\ list' = list /\ pending' = pending
      /\ UNCHANGED <<root, space, overflow, job>>
    BY DEF ClearWeak, marks
<1>4. IndexChanged(w, -1) /\ EntriesOK'
    BY <1>1, <1>2, <1>3, GiveUpKeeps
<1>5. Shape' /\ Top' = Top /\ Cells' = Cells
    BY <1>4 DEF IndexChanged
<1>6. WeakOK'
    <2>1. \A a \in Cells : /\ IsWeak(a)' <=> IsWeak(a)
                           /\ mem'[a].index = IF a = w THEN -1 ELSE mem[a].index
        BY <1>4 DEF IndexChanged, IsWeak
    <2>2. \A a \in Cells : IsWeak(a)' /\ mem'[a].index >= 0 => a \in ToSet(list) \union ToSet(pending)
        BY <1>1, <1>3, <2>1 DEF WeakOK
    <2>3. QED BY <1>3, <1>4, <1>5, <2>2 DEF WeakOK, EntriesOK
<1>7. ListOK'
    BY <1>1, <1>3, <1>5 DEF ListOK
<1>8. BitsOK'
    <2>1. phase \notin Collecting /\ phase' \notin Collecting
        BY <1>3 DEF Collecting
    <2>2. QED BY <1>3, <1>4, <2>1, IndexSetKeeps
<1>9. Top \in Nat /\ Top <= youngEnd
    BY <1>1, HeapFacts DEF JobOK
<1>10. QED BY <1>3, <1>5, <1>6, <1>7, <1>8, <1>9, JavaKeeps

\* There are as many entries as WeakReferences, one of which has none.
LEMMA EntryFree ==
    ASSUME Shape, JobOK, WeakOK, NEW w \in Cells, IsWeak(w), mem[w].index = 0
    PROVE  \E i \in DOMAIN table : table[i] = -1
<1> DEFINE N == Cardinality(Weaks)
<1>1. /\ N \in Nat /\ DOMAIN table = 1..N
      /\ \A i \in DOMAIN table : table[i] \in Int /\ -1 <= table[i]
    BY Parameters, FS_CardinalityType DEF WeakOK
<1>2. SUFFICES ASSUME \A i \in DOMAIN table : table[i] >= 0 PROVE FALSE
    BY <1>1
<1> HIDE DEF N
<1>3. \A i \in 1..N : \E a \in Cells : mem[a].index = i
    BY <1>1, <1>2 DEF WeakOK
<1> DEFINE T == Weaks \ {mem[w].obj}
           f == [i \in 1..N |-> mem[CHOOSE a \in Cells : mem[a].index = i].obj]
<1>4. ASSUME NEW i \in 1..N
      PROVE  \E a \in Cells : mem[a].index = i /\ f[i] = mem[a].obj /\ f[i] \in T
    <2> DEFINE a == CHOOSE x \in Cells : mem[x].index = i
    <2>1. a \in Cells /\ mem[a].index = i /\ f[i] = mem[a].obj
        BY <1>3
    <2> HIDE DEF a, f
    <2>2. i > 0
        BY <1>1
    <2>3. mem[a].obj \in Weaks
        BY <2>1, <2>2 DEF WeakOK, IsWeak
    <2>4. a # w
        BY <2>1, <2>2
    <2>5. mem[a].obj # mem[w].obj
        BY <2>1, <2>4 DEF Shape
    <2>6. QED BY <2>1, <2>3, <2>5
<1>5. f \in [1..N -> T]
    <2> HIDE DEF T
    <2>1. \A i \in 1..N : f[i] \in T
        BY <1>4
    <2>2. QED BY <2>1
<1> HIDE DEF f
<1>6. IsFiniteSet(T) /\ Cardinality(T) = N - 1
    <2>1. mem[w].obj \in Weaks /\ IsFiniteSet(Weaks)
        BY Parameters DEF IsWeak
    <2>2. IsFiniteSet(T) /\ Cardinality(T) = Cardinality(Weaks) - 1
        BY <2>1, FS_RemoveElement
    <2>3. QED BY <2>2 DEF N
<1>7. IsFiniteSet(1..N) /\ Cardinality(1..N) = N
    BY <1>1, FS_Interval
<1> HIDE DEF T
<1>8. PICK i \in 1..N, j \in 1..N : i # j /\ f[i] = f[j]
    <2>1. Cardinality(T) < Cardinality(1..N)
        BY <1>1, <1>6, <1>7
    <2> DEFINE D == 1..N
    <2>2. IsFiniteSet(D) /\ IsFiniteSet(T) /\ Cardinality(T) < Cardinality(D) /\ f \in [D -> T]
        BY <1>5, <1>6, <1>7, <2>1
    <2> HIDE DEF D
    <2>3. \E x, y \in D : x # y /\ f[x] = f[y]
        BY <2>2, FS_PigeonHole
    <2>4. QED BY <2>3 DEF D
<1>9. PICK a \in Cells : mem[a].index = i /\ f[i] = mem[a].obj
    BY <1>4
<1>10. PICK b \in Cells : mem[b].index = j /\ f[j] = mem[b].obj
    BY <1>4
<1>11. a = b
    BY <1>8, <1>9, <1>10 DEF Shape
<1>12. QED BY <1>8, <1>9, <1>10, <1>11

\* The entry k of the array has been taken for v, which w refers to from now on.
Constructed(w, v, k) ==
    /\ IndexChanged(w, k) /\ EntriesOK'
    /\ v = 0 => k = -1 /\ table' = table
    /\ v # 0 => /\ k \in DOMAIN table /\ k > 0 /\ table[k] = -1
                /\ table' = [table EXCEPT ![k] = v]

\* A WeakReference is constructed: its entry is one that nobody else has.
LEMMA ConstructWeakTakes ==
    ASSUME Inv, NEW w \in Locals, NEW v \in InHand \union {0}, ConstructWeak(w, v)
    PROVE  \E k \in Int : Constructed(w, v, k)
<1>1. Shape /\ JobOK /\ WeakOK /\ ListOK
    BY DEF Inv
<1>2. w \in Cells /\ IsWeak(w) /\ mem[w].index = 0 /\ v \in 0..Top
    <2>1. Top \in Nat /\ w \in Cells /\ InHand \subseteq Cells
        BY <1>1, HeapFacts, InHandFacts
    <2>2. QED BY <2>1 DEF ConstructWeak, Unconstructed, Cells
<1>3. root' = root
    BY DEF ConstructWeak
<1>4. /\ table \in [1..Cardinality(Weaks) -> Int]
      /\ \A i \in DOMAIN table : -1 <= table[i] /\ table[i] <= Top
      /\ \A a \in Cells : -1 <= mem[a].index /\ mem[a].index <= Cardinality(Weaks)
      /\ \A a \in Cells : mem[a].index > 0 => IsWeak(a) /\ table[mem[a].index] >= 0
      /\ \A a, b \in Cells : mem[a].index > 0 /\ mem[a].index = mem[b].index => a = b
      /\ \A i \in DOMAIN table : table[i] >= 0 => \E a \in Cells : mem[a].index = i
    BY <1>1 DEF WeakOK
<1>5. Top \in Nat /\ Cardinality(Weaks) \in Nat
    BY <1>1, HeapFacts, Parameters, FS_CardinalityType
<1>6. \E k \in Int : Constructed(w, v, k)
    <2>1. CASE v = 0
        <3>1. mem' = [mem EXCEPT ![w].index = -1] /\ table' = table
            BY <2>1 DEF ConstructWeak
        <3>2. IndexChanged(w, -1)
            <4>1. -1 \in Int /\ root' = root
                BY <1>3
            <4>2. QED BY <1>1, <1>2, <3>1, <4>1, IndexSet
        <3>3. /\ Top' = Top /\ Cells' = Cells
              /\ \A a \in Cells : /\ IsWeak(a)' <=> IsWeak(a)
                                  /\ mem'[a].index = IF a = w THEN -1 ELSE mem[a].index
            BY <3>2 DEF IndexChanged, IsWeak
        <3>4. \A i \in DOMAIN table : table[i] >= 0 => \E a \in Cells : mem'[a].index = i
            <4> SUFFICES ASSUME NEW i \in DOMAIN table, table[i] >= 0
                         PROVE  \E a \in Cells : mem'[a].index = i
                OBVIOUS
            <4>1. PICK a \in Cells : mem[a].index = i
                BY <1>4
            <4>2. a # w
                BY <1>2, <1>4, <1>5, <4>1
            <4>3. QED BY <3>3, <4>1, <4>2
        <3>5. \A a \in Cells : -1 <= mem'[a].index /\ mem'[a].index <= Cardinality(Weaks)
            BY <1>4, <1>5, <3>3
        <3>6. \A a \in Cells : mem'[a].index > 0 => IsWeak(a)' /\ table[mem'[a].index] >= 0
            BY <1>4, <3>3
        <3>7. \A a, b \in Cells : mem'[a].index > 0 /\ mem'[a].index = mem'[b].index => a = b
            BY <1>4, <3>3
        <3>8. EntriesOK'
            BY <1>4, <3>1, <3>3, <3>4, <3>5, <3>6, <3>7 DEF EntriesOK
        <3>9. -1 \in Int
            OBVIOUS
        <3>10. QED BY <2>1, <3>1, <3>2, <3>8, <3>9 DEF Constructed
    <2>2. CASE v # 0
        <3> DEFINE free == {j \in DOMAIN table : table[j] = -1}
                   k == Min(free)
        <3>1. k \in free
            <4>1. free \subseteq Nat /\ free # {}
                BY <1>1, <1>2, <1>4, <1>5, EntryFree
            <4>2. \E z \in free : \A y \in free : z <= y
                <5> HIDE DEF free
                <5>1. QED BY <4>1, SmallestOfNat
            <4>3. QED BY <4>2 DEF Min
        <3>2. mem' = [mem EXCEPT ![w].index = k] /\ table' = [table EXCEPT ![k] = v]
            BY <2>2 DEF ConstructWeak
        <3>3. k \in DOMAIN table /\ table[k] = -1 /\ k \in Int /\ k > 0 /\ k <= Cardinality(Weaks)
            BY <1>4, <1>5, <3>1
        <3> HIDE DEF k, free
        <3>4. IndexChanged(w, k)
            BY <1>1, <1>2, <1>3, <3>2, <3>3, IndexSet
        <3>5. /\ Top' = Top /\ Cells' = Cells
              /\ \A a \in Cells : /\ IsWeak(a)' <=> IsWeak(a)
                                  /\ mem'[a].index = IF a = w THEN k ELSE mem[a].index
            BY <3>4 DEF IndexChanged, IsWeak
        <3>6. /\ table' \in [1..Cardinality(Weaks) -> Int] /\ DOMAIN table' = DOMAIN table
              /\ \A i \in DOMAIN table : table'[i] = IF i = k THEN v ELSE table[i]
            BY <1>2, <1>4, <3>2, <3>3
        <3>7. \A a \in Cells : mem[a].index > 0 => mem[a].index # k
            BY <1>4, <3>3
        <3>8. \A i \in DOMAIN table : -1 <= table'[i] /\ table'[i] <= Top
            BY <1>2, <1>4, <1>5, <3>6
        <3>9. \A a \in Cells : -1 <= mem'[a].index /\ mem'[a].index <= Cardinality(Weaks)
            BY <1>4, <3>3, <3>5
        <3>10. ASSUME NEW a \in Cells, mem'[a].index > 0
               PROVE  IsWeak(a)' /\ table'[mem'[a].index] >= 0
            <4>1. CASE a = w
                BY <1>2, <3>3, <3>5, <3>6, <4>1
            <4>2. CASE a # w
                <5>1. mem'[a].index = mem[a].index /\ mem[a].index \in DOMAIN table
                    BY <1>1, <3>5, <3>10, <4>2, EntryFacts
                <5>2. QED BY <1>4, <3>5, <3>6, <3>7, <3>10, <5>1
            <4>3. QED BY <4>1, <4>2
        <3>11. \A a, b \in Cells : mem'[a].index > 0 /\ mem'[a].index = mem'[b].index => a = b
            BY <1>4, <3>3, <3>5, <3>7
        <3>12. ASSUME NEW i \in DOMAIN table, table'[i] >= 0
               PROVE  \E a \in Cells : mem'[a].index = i
            <4>1. CASE i = k
                BY <1>2, <3>5, <4>1
            <4>2. CASE i # k
                <5>1. PICK a \in Cells : mem[a].index = i
                    BY <1>4, <3>6, <3>12, <4>2
                <5>2. a # w
                    BY <1>2, <1>4, <1>5, <5>1
                <5>3. QED BY <3>5, <5>1, <5>2
            <4>3. QED BY <4>1, <4>2
        <3>13. EntriesOK'
            BY <3>5, <3>6, <3>8, <3>9, <3>10, <3>11, <3>12 DEF EntriesOK
        <3>14. QED BY <2>2, <3>2, <3>3, <3>4, <3>13 DEF Constructed
    <2>3. QED BY <2>1, <2>2
<1>7. QED BY <1>6

\* Whoever is constructed is on a list.
LEMMA ConstructWeakKeeps ==
    ASSUME Inv, NEW w \in Locals, NEW v \in InHand \union {0}, ConstructWeak(w, v)
    PROVE  Inv'
<1>1. Shape /\ JobOK /\ WeakOK /\ ListOK
    BY DEF Inv
<1>2. w \in Cells /\ IsWeak(w) /\ mem[w].index = 0 /\ v \in 0..Top
    <2>1. Top \in Nat /\ w \in Cells /\ InHand \subseteq Cells
        BY <1>1, HeapFacts, InHandFacts
    <2>2. QED BY <2>1 DEF ConstructWeak, Unconstructed, Cells
<1>3. /\ phase = "java" /\ phase' = "java" /\ bits' = bits /\ list' = list /\ pending' = pending
      /\ UNCHANGED <<root, space, overflow, job>>
    BY DEF ConstructWeak, marks
<1>4. PICK k \in Int : IndexChanged(w, k) /\ EntriesOK'
    BY ConstructWeakTakes DEF Constructed
<1>5. Shape' /\ Top' = Top /\ Cells' = Cells
    BY <1>4 DEF IndexChanged
<1>6. WeakOK'
    <2>1. \A a \in Cells : /\ IsWeak(a)' <=> IsWeak(a)
                           /\ mem'[a].index = IF a = w THEN k ELSE mem[a].index
        BY <1>4 DEF IndexChanged, IsWeak
    <2>2. \A a \in Cells : IsWeak(a) /\ mem[a].index >= 0 => a \in ToSet(list) \union ToSet(pending)
        BY <1>1, <1>3 DEF WeakOK
    <2>3. \A a \in Cells : IsWeak(a)' /\ mem'[a].index >= 0 => a \in ToSet(list) \union ToSet(pending)
        BY <1>2, <2>1, <2>2
    <2>4. QED BY <1>3, <1>4, <1>5, <2>3 DEF WeakOK, EntriesOK
<1>7. ListOK'
    BY <1>1, <1>3, <1>5 DEF ListOK
<1>8. BitsOK'
    <2>1. phase \notin Collecting /\ phase' \notin Collecting
        BY <1>3 DEF Collecting
    <2>2. QED BY <1>3, <1>4, <2>1, IndexSetKeeps
<1>9. Top \in Nat /\ Top <= youngEnd
    BY <1>1, HeapFacts DEF JobOK
<1>10. QED BY <1>3, <1>5, <1>6, <1>7, <1>8, <1>9, JavaKeeps

\* A collection starts.
LEMMA CollectKeeps ==
    ASSUME Inv, phase \in {"java", "allocate", "finalize"}, pending = <<>>,
           NEW isFull \in BOOLEAN, NEW r \in 1..3, Collect(isFull, 1, r),
           resume' \in {"java", "allocate"}, ~isFull => ~full,
           r = 3 => isFull /\ ToSet(list) \subseteq FromRoot
    PROVE  Inv'
<1>1. Shape /\ WeakOK /\ ListOK /\ JobOK /\ BitsOK
    BY DEF Inv
<1> DEFINE area == IF isFull THEN 0 ELSE oldEnd
           stack == {<<root, f>> : f \in {g \in 1..LocalCount : mem[root].ref[g] > area}}
           B == bits \union (IF root <= area THEN stack ELSE {})
<1>2. /\ bits' = {b \in B : b[1] <= area \/ b[1] > Top}
      /\ full' = isFull /\ need' = 1 /\ round' = r /\ phase' = "roots"
      /\ mem' = mem /\ root' = root /\ table' = table /\ list' = list
      /\ oldEnd' = oldEnd /\ youngEnd' = youngEnd /\ overflow' = overflow
      /\ pending' = pending /\ wasFull' = wasFull
    BY DEF Collect, program
<1>3. Top' = Top /\ Cells' = Cells /\ \A a : Refs(a)' = Refs(a)
    BY <1>2 DEF Top, Cells, Refs
<1>4. Shape' /\ ListOK' /\ FromRoot' = FromRoot
    BY <1>1, <1>2, <1>3 DEF Shape, ListOK, FromRoot, Reached, Closed
<1>5. WeakOK'
    <2>1. phase # "fault"
        OBVIOUS
    <2>2. \A a \in Cells : IsWeak(a)' <=> IsWeak(a)
        BY <1>2 DEF IsWeak
    <2>3. QED BY <1>1, <1>2, <1>3, <2>1, <2>2 DEF WeakOK
<1>6. JobOK'
    BY <1>1, <1>2, <1>3 DEF JobOK, Phases
<1>7. Top \in Nat /\ oldEnd \in Nat /\ area \in Nat
    BY <1>1, HeapFacts DEF JobOK
<1>8. B \in SUBSET (Nat \X Nat)
    <2>1. root \in Nat
        BY <1>1, HeapFacts DEF Cells
    <2>2. stack \in SUBSET (Nat \X Nat)
        BY <2>1
    <2> HIDE DEF stack
    <2>3. QED BY <1>1, <2>2 DEF BitsOK
<1> HIDE DEF B
<1>9. BitsOK'
    <2>1. MarkedNow' = {}
        <3>1. AreaStart' = area
            BY <1>2 DEF AreaStart
        <3>2. ASSUME NEW a \in area + 1..Top, <<a, 0>> \in bits' PROVE FALSE
            <4>1. <<a, 0>>[1] <= area \/ <<a, 0>>[1] > Top
                BY <1>2, <3>2
            <4>2. <<a, 0>>[1] = a
                OBVIOUS
            <4>3. QED BY <1>7, <4>1, <4>2
        <3>3. QED BY <1>3, <3>1, <3>2 DEF MarkedNow, Marked
    <2>2. ASSUME ~isFull, NEW a \in 1..oldEnd, NEW f \in 1..Len(mem[a].ref), mem[a].ref[f] > oldEnd
          PROVE  <<a, f>> \in bits'
        <3>1. ~full /\ area = oldEnd /\ a <= area
            BY <1>7, <2>2
        <3>2. <<a, f>> \in B
            <4>1. CASE a = root
                <5>1. Len(mem[root].ref) = LocalCount
                    BY <1>1, InHandFacts
                <5>2. <<a, f>> \in stack
                    BY <2>2, <3>1, <4>1, <5>1
                <5>3. QED BY <3>1, <4>1, <5>2 DEF B
            <4>2. CASE a # root
                BY <1>1, <2>2, <3>1, <4>2 DEF BitsOK, B
            <4>3. QED BY <4>1, <4>2
        <3>3. <<a, f>>[1] = a
            OBVIOUS
        <3>4. QED BY <1>2, <3>1, <3>2, <3>3
    <2>3. bits' \in SUBSET (Nat \X Nat)
        BY <1>2, <1>8
    <2>4. QED BY <1>2, <2>1, <2>2, <2>3 DEF BitsOK
<1>10. MarkOK'
    BY <1>2 DEF MarkOK, Started, Followed, Found, Collecting
<1>11. FullOK'
    BY <1>2, <1>4 DEF FullOK
<1>12. QED BY <1>4, <1>5, <1>6, <1>9, <1>10, <1>11 DEF Inv

\* The program asks for a collection.
LEMMA SystemGcKeeps ==
    ASSUME Inv, SystemGc
    PROVE  Inv'
<1>1. pending = <<>> /\ phase = "java"
    BY DEF SystemGc, Inv, ListOK
<1>2. Collect(TRUE, 1, 1) /\ resume' \in {"java", "allocate"}
    BY DEF SystemGc
<1>3. TRUE \in BOOLEAN /\ 1 \in 1..3 /\ 1 # 3
    OBVIOUS
<1>4. QED BY <1>1, <1>2, <1>3, CollectKeeps

\* It needs one.
LEMMA AllocationFailsKeeps ==
    ASSUME Inv, AllocationFails
    PROVE  Inv'
<1>1. pending = <<>> /\ phase \in {"java", "allocate"} /\ full \in BOOLEAN
    BY DEF AllocationFails, Inv, ListOK, JobOK
<1>2. Collect(full, 1, 1) /\ resume' \in {"java", "allocate"}
    BY DEF AllocationFails
<1>3. 1 \in 1..3 /\ 1 # 3
    OBVIOUS
<1>4. QED BY <1>1, <1>2, <1>3, CollectKeeps

\* A collection was not enough: the next is a full one, and the last one only
\* after one that was full too.
LEMMA NotEnoughKeeps ==
    ASSUME Inv, NotEnough
    PROVE  Inv'
<1> DEFINE r == IF wasFull THEN 3 ELSE 2
<1>1. pending = <<>> /\ phase = "finalize" /\ need = 1 /\ resume \in {"java", "allocate"}
    BY DEF NotEnough, Inv, JobOK
<1>2. Collect(TRUE, 1, r) /\ resume' = resume
    BY <1>1 DEF NotEnough
<1>3. r \in 1..3 /\ (r = 3 => ToSet(list) \subseteq FromRoot)
    BY <1>1 DEF Inv, FullOK
<1> HIDE DEF r
<1>4. QED BY <1>1, <1>2, <1>3, CollectKeeps

\* The heap after the allocation of o, which variable l gets.
Allocated(o, l) ==
    /\ mem' \in Seq(Cell_) /\ Top' = Top + 1
    /\ Cells' = Cells \union {Top + 1} /\ Top + 1 \notin Cells
    /\ mem'[Top + 1].obj = o /\ mem'[Top + 1].index = 0 /\ Len(mem'[Top + 1].ref) = Size(o)
    /\ \A f \in 1..Size(o) : mem'[Top + 1].ref[f] = 0
    /\ \A a \in Cells : /\ mem'[a].obj = mem[a].obj /\ mem'[a].index = mem[a].index
                         /\ Len(mem'[a].ref) = Len(mem[a].ref)
    /\ \A a \in Cells : \A f \in 1..Len(mem[a].ref) :
          mem'[a].ref[f] = IF a = root /\ f = l THEN Top + 1 ELSE mem[a].ref[f]

\* Allocation adds one cell and changes one variable.
LEMMA AllocateAdds ==
    ASSUME Shape, JobOK, NEW l \in 1..LocalCount, NEW o \in Objects, Allocate(o, l)
    PROVE  Allocated(o, l)
<1>1. Shape /\ JobOK
    OBVIOUS
<1> DEFINE m == [mem EXCEPT ![root].ref[l] = Top + 1]
           c == Cell(o)
<1>2. mem' = Append(m, c)
    BY DEF Allocate
<1>3. /\ Top \in Nat /\ DOMAIN mem = Cells /\ mem \in Seq(Cell_) /\ root \in Cells
      /\ l \in 1..Len(mem[root].ref)
    BY <1>1, HeapFacts, InHandFacts DEF Shape
<1>4. c \in Cell_ /\ c.obj = o /\ c.index = 0 /\ Len(c.ref) = Size(o)
      /\ \A f \in 1..Len(c.ref) : c.ref[f] = 0
    <2> DEFINE n == FieldCount[o]
               q == [f \in 1..n |-> 0]
    <2>1. n \in Nat /\ o # Stack
        BY Parameters
    <2> HIDE DEF n
    <2>2. q \in Seq(Nat) /\ Len(q) = n /\ \A f \in 1..n : q[f] = 0
        BY <2>1
    <2>3. c = [obj |-> o, ref |-> q, index |-> 0]
        BY DEF Cell, n
    <2> HIDE DEF q, c
    <2>4. QED BY <2>1, <2>2, <2>3 DEF Cell_, Size, n
<1> HIDE DEF c
<1> DEFINE r == [mem[root].ref EXCEPT ![l] = Top + 1]
           n == [mem[root] EXCEPT !.ref = r]
<1>5. /\ r \in Seq(Nat) /\ Len(r) = Len(mem[root].ref)
      /\ \A f \in 1..Len(mem[root].ref) : r[f] = IF f = l THEN Top + 1 ELSE mem[root].ref[f]
    <2> DEFINE q == mem[root].ref
    <2>1. q \in Seq(Nat) /\ l \in 1..Len(q) /\ Top + 1 \in Nat
        BY <1>1, <1>3, CellFacts
    <2> HIDE DEF q
    <2>2. [q EXCEPT ![l] = Top + 1] \in Seq(Nat) /\ Len([q EXCEPT ![l] = Top + 1]) = Len(q)
        BY <2>1
    <2>3. \A f \in 1..Len(q) : [q EXCEPT ![l] = Top + 1][f] = IF f = l THEN Top + 1 ELSE q[f]
        BY <2>1
    <2>4. QED BY <2>2, <2>3 DEF q
<1> HIDE DEF r
<1>6. n \in Cell_ /\ n.obj = mem[root].obj /\ n.index = mem[root].index /\ n.ref = r
    <2>1. mem[root] \in Cell_
        BY <1>1, <1>3, CellFacts
    <2>2. QED BY <1>5, <2>1 DEF Cell_
<1>7. m = [mem EXCEPT ![root] = n]
    BY DEF r
<1> HIDE DEF n, m
<1>8. m \in Seq(Cell_) /\ Len(m) = Top /\ \A a \in Cells : m[a] = IF a = root THEN n ELSE mem[a]
    BY <1>3, <1>6, <1>7 DEF Top
<1>9. /\ mem' \in Seq(Cell_) /\ Top' = Top + 1 /\ mem'[Top + 1] = c
      /\ \A a \in Cells : mem'[a] = IF a = root THEN n ELSE mem[a]
    <2>1. /\ mem' \in Seq(Cell_) /\ Len(mem') = Len(m) + 1 /\ mem'[Len(m) + 1] = c
          /\ \A a \in 1..Len(m) : mem'[a] = m[a]
        BY <1>2, <1>4, <1>8
    <2>2. Len(m) = Top
        BY <1>8
    <2>3. Top' = Top + 1
        BY <2>1, <2>2 DEF Top
    <2>4. \A a \in Cells : mem'[a] = m[a]
        BY <2>1, <2>2 DEF Cells
    <2>5. QED BY <1>8, <2>1, <2>2, <2>3, <2>4
<1>10. /\ Cells' = Cells \union {Top + 1} /\ Top + 1 \notin Cells
       /\ \A a \in Cells : a \in Nat /\ a <= Top
    BY <1>3, <1>9 DEF Cells
<1>11. \A a \in Cells : /\ mem'[a].obj = mem[a].obj /\ mem'[a].index = mem[a].index
                        /\ Len(mem'[a].ref) = Len(mem[a].ref)
    BY <1>5, <1>6, <1>9
<1>12. \A a \in Cells : \A f \in 1..Len(mem[a].ref) :
          mem'[a].ref[f] = IF a = root /\ f = l THEN Top + 1 ELSE mem[a].ref[f]
    BY <1>5, <1>6, <1>9
<1>13. QED BY <1>4, <1>9, <1>10, <1>11, <1>12 DEF Allocated

\* A new object is in no one else's hands.
LEMMA AllocateKeeps ==
    ASSUME Inv, NEW l \in 1..LocalCount, NEW o \in Objects, Allocate(o, l)
    PROVE  Inv'
<1>1. Shape /\ WeakOK /\ ListOK /\ JobOK /\ BitsOK
    BY DEF Inv
<1>2. /\ phase \in {"java", "allocate"} /\ phase' = "java"
      /\ \A a \in 1..Top : mem[a].obj # o
      /\ Top + 1 <= youngEnd
      /\ list' = IF o \in Weaks THEN <<Top + 1>> \o list ELSE list
      /\ root' = root /\ table' = table /\ bits' = bits /\ pending' = pending
      /\ UNCHANGED <<space, overflow, job>>
    BY DEF Allocate, marks
<1>3. /\ Top \in Nat /\ DOMAIN mem = Cells /\ mem \in Seq(Cell_) /\ root \in Cells
      /\ l \in 1..Len(mem[root].ref)
    BY <1>1, HeapFacts, InHandFacts DEF Shape
<1>4. /\ mem'[Top + 1].obj = o /\ mem'[Top + 1].index = 0 /\ Len(mem'[Top + 1].ref) = Size(o)
      /\ \A f \in 1..Len(mem'[Top + 1].ref) : mem'[Top + 1].ref[f] = 0
    BY <1>1, AllocateAdds DEF Allocated
<1>5. /\ mem' \in Seq(Cell_) /\ Top' = Top + 1
      /\ \A a \in Cells : \A f \in 1..Len(mem[a].ref) :
            mem'[a].ref[f] = IF a = root /\ f = l THEN Top + 1 ELSE mem[a].ref[f]
    BY <1>1, AllocateAdds DEF Allocated
<1>6. /\ Cells' = Cells \union {Top + 1} /\ Top + 1 \notin Cells
      /\ \A a \in Cells : a \in Nat /\ a <= Top
    BY <1>1, <1>3, AllocateAdds DEF Allocated, Cells
<1>7. \A a \in Cells : /\ mem'[a].obj = mem[a].obj /\ mem'[a].index = mem[a].index
                       /\ Len(mem'[a].ref) = Len(mem[a].ref)
    BY <1>1, AllocateAdds DEF Allocated
<1>8. Shape'
    <2>1. \A a \in Cells' : Len(mem'[a].ref) = Size(mem'[a].obj)
        BY <1>1, <1>4, <1>5, <1>6, <1>7 DEF Shape
    <2>2. ASSUME NEW a \in Cells', NEW f \in 1..Len(mem'[a].ref) PROVE mem'[a].ref[f] <= Top + 1
        <3>1. CASE a = Top + 1
            BY <1>3, <1>4, <1>5, <3>1
        <3>2. CASE a = root
            <4>1. f \in 1..Len(mem[root].ref)
                BY <1>3, <1>7, <3>2
            <4>2. mem[root].ref[f] \in 0..Top
                BY <1>1, <1>3, <4>1, CellFacts
            <4>3. mem'[a].ref[f] = Top + 1 \/ mem'[a].ref[f] \in 0..Top
                BY <1>3, <1>5, <3>2, <4>1, <4>2
            <4>4. Top \in Nat
                BY <1>3
            <4>5. QED BY <4>1, <4>3, <4>4
        <3>3. CASE a \in Cells /\ a # root
            <4>1. f \in 1..Len(mem[a].ref) /\ mem'[a].ref[f] = mem[a].ref[f]
                BY <1>5, <1>7, <3>3
            <4>2. mem[a].ref[f] \in 0..Top
                BY <1>1, <3>3, <4>1, CellFacts
            <4>3. Top \in Nat
                BY <1>3
            <4>4. QED BY <4>1, <4>2, <4>3
        <3>4. QED BY <1>6, <3>1, <3>2, <3>3
    <2>3. \A a \in Cells : mem'[a].obj # o
        BY <1>2, <1>7 DEF Cells
    <2>4. \A a, b \in Cells' : mem'[a].obj = mem'[b].obj => a = b
        <3>1. \A a, b \in Cells : mem'[a].obj = mem'[b].obj => a = b
            BY <1>1, <1>7 DEF Shape
        <3>2. mem'[Top + 1].obj = o
            BY <1>4, <1>5
        <3>3. QED BY <1>6, <2>3, <3>1, <3>2
    <2>5. root' \in Cells' /\ mem'[root'].obj = Stack
        BY <1>1, <1>2, <1>3, <1>6, <1>7 DEF Shape
    <2>6. QED BY <1>5, <2>1, <2>2, <2>4, <2>5 DEF Shape, Size
<1>9. o \in Weaks => /\ list' \in Seq(Nat \ {0}) /\ ToSet(list') = {Top + 1} \union ToSet(list)
                     /\ Decreasing(list')
    <2> SUFFICES ASSUME o \in Weaks
                 PROVE  /\ list' \in Seq(Nat \ {0}) /\ ToSet(list') = {Top + 1} \union ToSet(list)
                        /\ Decreasing(list')
        OBVIOUS
    <2> DEFINE h == <<Top + 1>>
    <2>1. h \in Seq(Numbers) /\ h \in Seq(Nat) /\ ToSet(h) = {Top + 1} /\ Decreasing(h)
        <3>1. Top + 1 \in Numbers
            BY <1>3 DEF Numbers
        <3>2. QED BY <3>1 DEF Numbers, ToSet, Decreasing
    <2>2. list \in Seq(Numbers) /\ list \in Seq(Nat) /\ Decreasing(list) /\ list' = h \o list
        BY <1>1, <1>2 DEF ListOK, Numbers
    <2> HIDE DEF h
    <2>3. h \o list \in Seq(Numbers) /\ ToSet(h \o list) = ToSet(h) \union ToSet(list)
        BY <2>1, <2>2, ListConcat
    <2>4. \A x \in ToSet(h), y \in ToSet(list) : x > y
        <3>1. \A y \in ToSet(list) : \E i \in 1..Len(list) : list[i] = y
            BY <1>1, ListElements DEF ListOK
        <3>2. \A y \in ToSet(list) : y \in Nat /\ y <= Top
            BY <1>1, <3>1 DEF ListOK
        <3>3. QED BY <1>3, <2>1, <3>2
    <2>5. Decreasing(h \o list)
        BY <2>1, <2>2, <2>4, DecreasingConcat
    <2>6. QED BY <2>1, <2>2, <2>3, <2>5 DEF Numbers
<1>10. ToSet(list) \subseteq ToSet(list') /\ (o \in Weaks => Top + 1 \in ToSet(list'))
    BY <1>2, <1>9
<1>11. WeakOK'
    <2>1. \A a \in Cells : IsWeak(a)' <=> IsWeak(a)
        BY <1>7 DEF IsWeak
    <2>2. /\ mem'[Top + 1].index = 0 /\ mem'[Top + 1].obj = o
          /\ \A a \in Cells' : IsWeak(a)' => mem'[a].obj \in Weaks
        BY <1>4, <1>5 DEF IsWeak
    <2>3. Cardinality(Weaks) \in Nat
        BY Parameters, FS_CardinalityType
    <2>4. \A i \in DOMAIN table : -1 <= table[i] /\ table[i] <= Top + 1
        <3>1. \A i \in DOMAIN table : table[i] \in Int /\ -1 <= table[i] /\ table[i] <= Top
            BY <1>1 DEF WeakOK
        <3>2. QED BY <1>3, <3>1
    <2>5. \A a \in Cells' : -1 <= mem'[a].index /\ mem'[a].index <= Cardinality(Weaks)
        BY <1>1, <1>6, <1>7, <2>2, <2>3 DEF WeakOK
    <2>6. \A a \in Cells' : mem'[a].index > 0 => a \in Cells
        BY <1>6, <2>2
    <2>7. \A a \in Cells' : mem'[a].index > 0 => IsWeak(a)' /\ table[mem'[a].index] >= 0
        BY <1>1, <1>7, <2>1, <2>6 DEF WeakOK
    <2>8. \A a, b \in Cells' : mem'[a].index > 0 /\ mem'[a].index = mem'[b].index => a = b
        BY <1>1, <1>7, <2>6 DEF WeakOK
    <2>9. \A i \in DOMAIN table : table[i] >= 0 => \E a \in Cells' : mem'[a].index = i
        BY <1>1, <1>6, <1>7 DEF WeakOK
    <2>10. \A a \in Cells' : IsWeak(a)' /\ mem'[a].index >= 0 => a \in ToSet(list') \union ToSet(pending')
        <3>1. \A a \in Cells : IsWeak(a) /\ mem[a].index >= 0 => a \in ToSet(list) \union ToSet(pending)
            BY <1>1, <1>2 DEF WeakOK
        <3>2. ASSUME NEW a \in Cells', IsWeak(a)', mem'[a].index >= 0
              PROVE  a \in ToSet(list') \union ToSet(pending')
            <4>1. CASE a \in Cells
                BY <1>2, <1>7, <1>10, <2>1, <3>1, <3>2, <4>1
            <4>2. CASE a = Top + 1
                BY <1>10, <2>2, <3>2, <4>2
            <4>3. QED BY <1>6, <4>1, <4>2
        <3>3. QED BY <3>2
    <2>11. table \in [1..Cardinality(Weaks) -> Int]
        BY <1>1 DEF WeakOK
    <2>12. QED BY <1>2, <1>5, <2>4, <2>5, <2>7, <2>8, <2>9, <2>10, <2>11 DEF WeakOK
<1>12. ListOK'
    <2>1. list' \in Seq(Nat \ {0}) /\ Decreasing(list')
        BY <1>1, <1>2, <1>9 DEF ListOK
    <2>2. \A i \in 1..Len(list') : list'[i] <= Top + 1
        <3>1. ToSet(list') \subseteq ToSet(list) \union {Top + 1}
            BY <1>2, <1>9
        <3>2. \A y \in ToSet(list) : y \in Nat /\ y <= Top
            <4>1. \A y \in ToSet(list) : \E i \in 1..Len(list) : list[i] = y
                BY <1>1, ListElements DEF ListOK
            <4>2. QED BY <1>1, <4>1 DEF ListOK
        <3>3. \A i \in 1..Len(list') : list'[i] \in ToSet(list')
            BY <2>1, ListElements
        <3>4. QED BY <1>3, <3>1, <3>2, <3>3
    <2>3. pending = <<>>
        BY <1>1, <1>2 DEF ListOK
    <2>4. pending' = <<>> /\ pending' \in Seq(Nat \ {0}) /\ Len(pending') = 0
        BY <1>2, <2>3
    <2>5. \A i \in 1..Len(pending') : pending'[i] <= Top'
        BY <2>4
    <2>6. QED BY <1>5, <2>1, <2>2, <2>4, <2>5 DEF ListOK
<1>13. BitsOK'
    <2>1. phase' \notin Collecting /\ phase' # "roots"
        BY <1>2 DEF Collecting
    <2>2. oldEnd' = oldEnd /\ full' = full
        BY <1>2 DEF space
    <2>3. ASSUME ~full, NEW a \in 1..oldEnd, NEW f \in 1..Len(mem'[a].ref),
                 mem'[a].ref[f] > oldEnd, a # root
          PROVE  <<a, f>> \in bits
        <3>1. a \in Cells /\ f \in 1..Len(mem[a].ref) /\ mem'[a].ref[f] = mem[a].ref[f]
            <4>1. 1..oldEnd \subseteq Cells
                BY <1>1, <1>3 DEF JobOK, Cells
            <4>2. QED BY <1>5, <1>7, <2>3, <4>1
        <3>2. QED BY <1>1, <2>3, <3>1 DEF BitsOK
    <2>4. QED BY <1>1, <1>2, <2>1, <2>2, <2>3 DEF BitsOK
<1>14. Top' \in Nat /\ Top <= Top' /\ Top' <= youngEnd
    BY <1>2, <1>3, <1>5
<1>15. QED BY <1>2, <1>8, <1>11, <1>12, <1>13, <1>14, JavaKeeps

\* What the steps of the program preserve.
LEMMA ProgramKeeps ==
    ASSUME Inv, Program
    PROVE  Inv'
BY SystemGcKeeps, AllocationFailsKeeps, AllocateKeeps, ClearLocalKeeps, GetFieldKeeps,
   GetWeakKeeps, PutFieldKeeps, ConstructWeakKeeps, ClearWeakKeeps DEF Program

-----------------------------------------------------------------------------
(* The end of a collection.                                                *)

\* The smaller of two numbers.
LEMMA MinOfTwo ==
    ASSUME NEW a \in Nat, NEW b \in Nat, NEW m, m = Min({a, b})
    PROVE  m \in Nat /\ m <= a /\ m <= b /\ (m = a \/ m = b)
<1>1. \E x \in {a, b} : \A y \in {a, b} : x <= y
    <2>1. CASE a <= b
        BY <2>1
    <2>2. CASE b <= a
        BY <2>2
    <2>3. QED BY <2>1, <2>2
<1>2. Min({a, b}) \in {a, b} /\ \A y \in {a, b} : Min({a, b}) <= y
    BY <1>1 DEF Min
<1>3. QED BY <1>2

\* A finalizer gives back its own entry.
LEMMA RunFinalizerKeeps ==
    ASSUME Inv, RunFinalizer
    PROVE  Inv'
<1>1. Shape /\ WeakOK /\ ListOK /\ JobOK /\ BitsOK /\ FullOK
    BY DEF Inv
<1> DEFINE w == Head(pending)
<1>2. /\ phase = "finalize" /\ pending # <<>> /\ pending' = Tail(pending)
      /\ root' = root /\ list' = list /\ bits' = bits
      /\ UNCHANGED <<space, overflow, job>>
    BY DEF RunFinalizer, marks
<1>3. /\ w \in Cells /\ Tail(pending) \in Seq(Nat \ {0})
      /\ \A i \in 1..Len(Tail(pending)) : Tail(pending)[i] <= Top
      /\ \A a \in ToSet(pending) : a = w \/ a \in ToSet(Tail(pending))
    <2> DEFINE N == Nat \ {0}
               t == Tail(pending)
    <2>1. pending \in Seq(N) /\ pending # <<>> /\ \A i \in 1..Len(pending) : pending[i] <= Top
        BY <1>1, <1>2 DEF ListOK
    <2>2. 1 \in 1..Len(pending) /\ w = pending[1] /\ w \in N
        BY <2>1
    <2>3. t \in Seq(N) /\ Len(t) = Len(pending) - 1 /\ \A i \in 1..Len(t) : t[i] = pending[i + 1]
        BY <2>1
    <2>4. Top \in Nat /\ Len(pending) \in Nat
        BY <1>1, <2>1, HeapFacts
    <2> HIDE DEF t, w, N
    <2>5. \A i \in 1..Len(t) : i + 1 \in 1..Len(pending)
        BY <2>3, <2>4
    <2>6. \A i \in 1..Len(t) : t[i] <= Top
        BY <2>1, <2>3, <2>5
    <2>7. w \in Cells
        BY <2>1, <2>2, <2>4 DEF Cells, N
    <2>8. ASSUME NEW a \in ToSet(pending), a # w PROVE a \in ToSet(t)
        <3>1. PICK i \in 1..Len(pending) : pending[i] = a
            BY <2>1, ListElements
        <3>2. i - 1 \in 1..Len(t) /\ (i - 1) + 1 = i
            BY <2>2, <2>3, <2>4, <2>8, <3>1
        <3>3. t[i - 1] = a
            BY <2>3, <3>1, <3>2
        <3>4. QED BY <2>3, <3>2, <3>3, ListElements
    <2>9. QED BY <2>3, <2>6, <2>7, <2>8 DEF t, N
<1> HIDE DEF w
<1>4. /\ oldEnd' = oldEnd /\ youngEnd' = youngEnd /\ full' = full /\ overflow' = overflow
      /\ resume' = resume /\ need' = need /\ round' = round /\ wasFull' = wasFull
    BY <1>2 DEF space, job
<1>5. CASE mem[w].index = 0
    <2>1. phase' = "fault" /\ mem' = mem /\ table' = table
        BY <1>5 DEF RunFinalizer, w
    <2>2. Top' = Top /\ Cells' = Cells
        BY <2>1 DEF Top, Cells
    <2>3. Shape'
        BY <1>1, <1>2, <2>1, <2>2 DEF Shape
    <2>4. WeakOK'
        <3>1. \A a \in Cells : IsWeak(a)' <=> IsWeak(a)
            BY <2>1 DEF IsWeak
        <3>2. QED BY <1>1, <2>1, <2>2, <3>1 DEF WeakOK
    <2>5. ListOK'
        BY <1>1, <1>2, <1>3, <2>1, <2>2 DEF ListOK
    <2>6. JobOK'
        BY <1>1, <1>2, <1>4, <2>1, <2>2 DEF JobOK, Phases
    <2>7. BitsOK'
        BY <1>1, <1>2, <1>4, <2>1 DEF BitsOK, Collecting
    <2>8. MarkOK' /\ FullOK'
        BY <2>1 DEF MarkOK, FullOK, Started, Followed, Found, Collecting
    <2>9. QED BY <2>3, <2>4, <2>5, <2>6, <2>7, <2>8 DEF Inv
<1>6. CASE mem[w].index # 0
    <2>1. phase' = "finalize" /\ GiveUp(w)
        BY <1>2, <1>6 DEF RunFinalizer, w
    <2>2. IndexChanged(w, -1) /\ EntriesOK'
        BY <1>1, <1>2, <1>3, <1>6, <2>1, GiveUpKeeps
    <2>3. /\ Shape' /\ Top' = Top /\ Cells' = Cells
          /\ \A a \in Cells : /\ mem'[a].obj = mem[a].obj /\ mem'[a].ref = mem[a].ref
                              /\ mem'[a].index = IF a = w THEN -1 ELSE mem[a].index
        BY <2>2 DEF IndexChanged
    <2>4. WeakOK'
        <3>1. \A a \in Cells : IsWeak(a)' <=> IsWeak(a)
            BY <2>3 DEF IsWeak
        <3>2. \A a \in Cells : IsWeak(a) /\ mem[a].index >= 0 => a \in ToSet(list) \union ToSet(pending)
            BY <1>1, <1>2 DEF WeakOK
        <3>3. ASSUME NEW a \in Cells, IsWeak(a)', mem'[a].index >= 0
              PROVE  a \in ToSet(list') \union ToSet(pending')
            <4>1. a # w
                BY <2>3, <3>3
            <4>2. a \in ToSet(list) \union ToSet(pending)
                BY <2>3, <3>1, <3>2, <3>3, <4>1
            <4>3. QED BY <1>2, <1>3, <4>1, <4>2
        <3>4. QED BY <2>2, <2>3, <3>3 DEF WeakOK, EntriesOK
    <2>5. ListOK'
        BY <1>1, <1>2, <1>3, <2>1, <2>3 DEF ListOK
    <2>6. JobOK'
        BY <1>1, <1>2, <1>4, <2>1, <2>3 DEF JobOK
    <2>7. BitsOK'
        <3>1. phase \notin Collecting /\ phase' \notin Collecting
            BY <1>2, <2>1 DEF Collecting
        <3>2. QED BY <1>2, <2>2, <3>1, IndexSetKeeps
    <2>8. MarkOK'
        BY <2>1 DEF MarkOK, Started, Followed, Found, Collecting
    <2>9. FullOK'
        <3>1. round # 3
            BY <1>1, <1>2 DEF FullOK
        <3>2. \A a \in Cells : Refs(a)' = Refs(a)
            BY <2>3 DEF Refs
        <3>3. FromRoot' = FromRoot
            <4>1. \A C \in SUBSET Cells : Closed(C)' <=> Closed(C)
                BY <3>2 DEF Closed
            <4>2. QED BY <1>2, <2>3, <4>1 DEF FromRoot, Reached
        <3>4. phase' \notin Collecting /\ phase' # "out_of_memory"
            BY <2>1 DEF Collecting
        <3>5. QED BY <1>1, <1>2, <1>4, <2>1, <3>1, <3>3, <3>4 DEF FullOK
    <2>10. QED BY <2>3, <2>4, <2>5, <2>6, <2>7, <2>8, <2>9 DEF Inv
<1>7. QED BY <1>5, <1>6

\* The program goes on.
LEMMA DoneKeeps ==
    ASSUME Inv, phase \in {"finalize", "out_of_memory"}, pending = <<>>,
           phase' \in {"java", "allocate"}, JobDone,
           phase' = "allocate" => Top < youngEnd,
           UNCHANGED <<program, space, marks, pending>>
    PROVE  Inv'
<1>1. Shape /\ WeakOK /\ ListOK /\ JobOK /\ BitsOK
    BY DEF Inv
<1>2. /\ mem' = mem /\ root' = root /\ table' = table /\ list' = list /\ pending' = pending
      /\ oldEnd' = oldEnd /\ youngEnd' = youngEnd /\ full' = full
      /\ bits' = bits /\ overflow' = overflow
      /\ resume' = "java" /\ need' = 0 /\ round' = 0 /\ wasFull' = FALSE
    BY DEF program, space, marks, JobDone
<1>3. Top' = Top /\ Cells' = Cells
    BY <1>2 DEF Top, Cells
<1>4. Shape'
    BY <1>1, <1>2, <1>3 DEF Shape
<1>5. WeakOK'
    <2>1. \A a \in Cells : IsWeak(a)' <=> IsWeak(a)
        BY <1>2 DEF IsWeak
    <2>2. phase # "fault"
        OBVIOUS
    <2>3. QED BY <1>1, <1>2, <1>3, <2>1, <2>2 DEF WeakOK
<1>6. ListOK'
    BY <1>1, <1>2, <1>3 DEF ListOK
<1>7. JobOK'
    <2>1. phase' \in Phases /\ phase' # "finalize" /\ phase' # "out_of_memory"
        BY DEF Phases
    <2>2. phase' = "allocate" => Top < youngEnd
        OBVIOUS
    <2>3. need' = IF phase' \in {"java", "allocate"} THEN 0 ELSE 1
        BY <1>2
    <2>4. /\ overflow \in BOOLEAN /\ full \in BOOLEAN /\ oldEnd \in Nat /\ youngEnd \in Nat
          /\ oldEnd <= Top /\ Top <= youngEnd /\ youngEnd <= Capacity
        BY <1>1 DEF JobOK
    <2>5. resume' \in {"java", "allocate"} /\ wasFull' \in BOOLEAN /\ round' \in 0..3
        <3>1. wasFull' \in BOOLEAN
            BY <1>2, Zenon
        <3>2. resume' \in {"java", "allocate"} /\ round' \in 0..3
            BY <1>2
        <3>3. QED BY <3>1, <3>2
    <2>6. QED BY <1>2, <1>3, <2>1, <2>2, <2>3, <2>4, <2>5 DEF JobOK
<1>8. BitsOK'
    BY <1>1, <1>2 DEF BitsOK, Collecting
<1>9. MarkOK' /\ FullOK'
    BY DEF MarkOK, FullOK, Started, Followed, Found, Collecting
<1>10. QED BY <1>4, <1>5, <1>6, <1>7, <1>8, <1>9 DEF Inv

\* The collection was enough.
LEMMA EnoughKeeps ==
    ASSUME Inv, Enough
    PROVE  Inv'
<1>1. Shape /\ JobOK
    BY DEF Inv
<1>2. /\ phase = "finalize" /\ pending = <<>> /\ phase' = resume /\ JobDone
      /\ UNCHANGED <<program, space, marks, pending>>
    BY DEF Enough
<1>3. resume \in {"java", "allocate"} /\ need = 1 /\ (Top < Capacity => Top < youngEnd)
    BY <1>1, <1>2 DEF JobOK
<1>4. Top \in Nat /\ Capacity \in Nat
    BY <1>1, HeapFacts, Parameters
<1>5. Top < Capacity
    BY <1>3, <1>4 DEF Enough, Free
<1>6. QED BY <1>2, <1>3, <1>5, DoneKeeps

\* The error is thrown.
LEMMA ThrownKeeps ==
    ASSUME Inv, Thrown
    PROVE  Inv'
<1>1. phase = "out_of_memory" /\ phase' = "java" /\ JobDone
      /\ UNCHANGED <<program, space, marks, pending>>
    BY DEF Thrown
<1>2. pending = <<>>
    BY <1>1 DEF Inv, ListOK
<1>3. QED BY <1>1, <1>2, DoneKeeps

\* No collection was enough: the program can reach all that is left.
LEMMA OutOfMemoryKeeps ==
    ASSUME Inv, OutOfMemory
    PROVE  Inv'
<1>1. Shape /\ WeakOK /\ ListOK /\ JobOK /\ BitsOK /\ FullOK
    BY DEF Inv
<1>2. /\ phase = "finalize" /\ pending = <<>> /\ round = 3 /\ Free < need
      /\ Boundary(Top, 0, FALSE, bits) /\ phase' = "out_of_memory"
      /\ mem' = mem /\ root' = root /\ table' = table /\ list' = list
      /\ overflow' = overflow /\ pending' = pending
      /\ resume' = resume /\ need' = need /\ round' = round /\ wasFull' = wasFull
    BY DEF OutOfMemory, program, job
<1>3. Top' = Top /\ Cells' = Cells
    BY <1>2 DEF Top, Cells
<1>4. /\ Top \in Nat /\ Capacity \in Nat /\ YoungTarget \in Nat /\ MinYoung \in Nat
      /\ need = 1 /\ Top <= Capacity
    BY <1>1, <1>2, HeapFacts, Parameters DEF JobOK
<1>5. Top = Capacity
    BY <1>2, <1>4 DEF Free
<1> DEFINE m == Min({YoungTarget + 0, Capacity - Top})
           end == Top + m
<1>6. m = 0
    <2>1. YoungTarget + 0 \in Nat /\ Capacity - Top \in Nat
        BY <1>4, <1>5
    <2>2. m \in Nat /\ m <= Capacity - Top
        BY <2>1, MinOfTwo
    <2> HIDE DEF m
    <2>3. QED BY <1>4, <1>5, <2>2
<1>7. /\ oldEnd' = Top /\ youngEnd' = end /\ full' = (end - (Top + 0) < MinYoung)
      /\ bits' = {b \in bits : b[1] > Top}
    BY <1>2 DEF Boundary
<1> HIDE DEF m
<1>8. end = Top
    BY <1>4, <1>6
<1> HIDE DEF end
<1>9. oldEnd' = Top /\ youngEnd' = Top /\ full' \in BOOLEAN /\ bits' \subseteq bits
    BY <1>4, <1>7, <1>8
<1>10. Shape'
    BY <1>1, <1>2, <1>3 DEF Shape
<1>11. WeakOK'
    <2>1. \A a \in Cells : IsWeak(a)' <=> IsWeak(a)
        BY <1>2 DEF IsWeak
    <2>2. phase # "fault"
        BY <1>2
    <2>3. QED BY <1>1, <1>2, <1>3, <2>1, <2>2 DEF WeakOK
<1>12. ListOK'
    BY <1>1, <1>2, <1>3 DEF ListOK
<1>13. JobOK'
    <2>1. phase' \in Phases /\ phase' \notin {"finalize", "allocate", "java"}
        BY <1>2 DEF Phases
    <2>2. QED BY <1>1, <1>2, <1>3, <1>4, <1>5, <1>9, <2>1 DEF JobOK
<1>14. BitsOK'
    <2>1. \A a \in 1..Top : \A f \in 1..Len(mem[a].ref) : ~(mem[a].ref[f] > Top)
        <3> SUFFICES ASSUME NEW a \in 1..Top, NEW f \in 1..Len(mem[a].ref) PROVE ~(mem[a].ref[f] > Top)
            OBVIOUS
        <3>1. mem[a].ref[f] \in 0..Top
            BY <1>1, CellFacts DEF Cells
        <3>2. QED BY <1>4, <3>1
    <2>2. bits' \in SUBSET (Nat \X Nat)
        BY <1>1, <1>9 DEF BitsOK
    <2>3. phase' # "roots"
        BY <1>2
    <2>4. QED BY <1>2, <1>9, <2>1, <2>2, <2>3 DEF BitsOK
<1>15. MarkOK'
    BY <1>2 DEF MarkOK, Started, Followed, Found, Collecting
<1>16. FullOK'
    <2>1. Cells \subseteq FromRoot
        BY <1>1, <1>2 DEF FullOK
    <2>2. FromRoot' = FromRoot
        BY <1>2, <1>3 DEF FromRoot, Reached, Closed, Refs
    <2>3. QED BY <1>2, <1>3, <2>1, <2>2 DEF FullOK, Collecting
<1>17. QED BY <1>10, <1>11, <1>12, <1>13, <1>14, <1>15, <1>16 DEF Inv

-----------------------------------------------------------------------------
(* Compaction.                                                             *)

\* Where the last of the marked objects goes, and what is kept.
NewTop(M) == AreaStart + Cardinality(M)
Kept(M) == M \union Old

\* What has gone to a cell.
Source(M, i) == IF i <= Fixed(M) THEN i ELSE CHOOSE a \in M : Place(M, a) = i

\* The marked objects go to the start of the area, in their order.
LEMMA PlaceFacts ==
    ASSUME Shape, JobOK, NEW M \in SUBSET Area
    PROVE  /\ IsFiniteSet(M) /\ Cardinality(M) \in Nat /\ NewTop(M) \in Nat
           /\ AreaStart <= NewTop(M) /\ NewTop(M) <= Top
           /\ \A a \in M : Place(M, a) \in AreaStart + 1..NewTop(M) /\ Place(M, a) <= a
           /\ \A a, b \in M : a < b => Place(M, a) < Place(M, b)
           /\ \A a : a \notin M => Place(M, a) = a
<1>1. Top \in Nat /\ AreaStart \in Nat /\ AreaStart <= Top /\ \A a \in M : a \in AreaStart + 1..Top
    BY HeapFacts DEF Area
<1>2. IsFiniteSet(AreaStart + 1..Top) /\ Cardinality(AreaStart + 1..Top) = Top - AreaStart
    <2>1. AreaStart + 1 \in Int /\ Top \in Int
        BY <1>1
    <2> DEFINE x == AreaStart + 1
    <2>2. IsFiniteSet(x..Top) /\ Cardinality(x..Top) = IF x > Top THEN 0 ELSE Top - x + 1
        <3> HIDE DEF x
        <3>1. x \in Int /\ Top \in Int
            BY <2>1 DEF x
        <3>2. QED BY <3>1, FS_Interval
    <2>3. (IF x > Top THEN 0 ELSE Top - x + 1) = Top - AreaStart
        BY <1>1
    <2>4. QED BY <2>2, <2>3
<1>3. IsFiniteSet(M) /\ Cardinality(M) \in Nat /\ Cardinality(M) <= Top - AreaStart
    <2>1. M \in SUBSET (AreaStart + 1..Top)
        BY DEF Area
    <2>2. IsFiniteSet(M) /\ Cardinality(M) <= Cardinality(AreaStart + 1..Top)
        BY <1>2, <2>1, FS_Subset
    <2>3. QED BY <1>2, <2>2, FS_CardinalityType
<1> DEFINE R(a) == {b \in M : b <= a}
<1>4. ASSUME NEW a \in M
      PROVE  /\ IsFiniteSet(R(a)) /\ Cardinality(R(a)) \in 1..Cardinality(M)
             /\ Cardinality(R(a)) <= a - AreaStart
    <2>1. R(a) \in SUBSET M /\ a \in R(a)
        BY <1>1
    <2>2. R(a) \in SUBSET (AreaStart + 1..a) /\ a \in Nat /\ a > AreaStart
        BY <1>1
    <2> HIDE DEF R
    <2>3. IsFiniteSet(R(a)) /\ Cardinality(R(a)) <= Cardinality(M) /\ Cardinality(R(a)) \in Nat
        BY <1>3, <2>1, FS_Subset, FS_CardinalityType
    <2>4. Cardinality(R(a)) # 0
        BY <2>1, <2>3, FS_EmptySet
    <2>5. Cardinality(R(a)) <= a - AreaStart
        <3> DEFINE x == AreaStart + 1
        <3>1. x \in Int /\ a \in Int /\ x <= a
            BY <1>1, <2>2
        <3>2. a - x + 1 = a - AreaStart
            BY <1>1, <2>2
        <3>3. R(a) \in SUBSET (x..a)
            BY <2>2
        <3> HIDE DEF x
        <3>4. IsFiniteSet(x..a) /\ Cardinality(x..a) = a - x + 1
            <4>1. IsFiniteSet(x..a) /\ Cardinality(x..a) = IF x > a THEN 0 ELSE a - x + 1
                BY <3>1, FS_Interval
            <4>2. QED BY <3>1, <4>1
        <3>5. Cardinality(R(a)) <= Cardinality(x..a)
            BY <3>3, <3>4, FS_Subset
        <3>6. QED BY <3>2, <3>4, <3>5
    <2>6. QED BY <1>3, <2>3, <2>4, <2>5
<1>5. \A a \in M : Place(M, a) = AreaStart + Cardinality(R(a))
    BY DEF Place
<1>6. ASSUME NEW a \in M, NEW b \in M, a < b PROVE Cardinality(R(a)) < Cardinality(R(b))
    <2>1. R(a) \in SUBSET R(b) /\ b \in R(b) /\ b \notin R(a)
        BY <1>1, <1>6
    <2>2. IsFiniteSet(R(b)) /\ Cardinality(R(a)) \in Nat /\ Cardinality(R(b)) \in Nat
        BY <1>4, FS_CardinalityType
    <2> HIDE DEF R
    <2>3. Cardinality(R(a)) <= Cardinality(R(b)) /\ (Cardinality(R(b)) = Cardinality(R(a)) => R(b) = R(a))
        BY <2>1, <2>2, FS_Subset
    <2>4. QED BY <2>1, <2>2, <2>3
<1> HIDE DEF R
<1>7. NewTop(M) \in Nat /\ AreaStart <= NewTop(M) /\ NewTop(M) <= Top
    BY <1>1, <1>3 DEF NewTop
<1>8. \A a \in M : Place(M, a) \in AreaStart + 1..NewTop(M) /\ Place(M, a) <= a
    <2> SUFFICES ASSUME NEW a \in M
                 PROVE  Place(M, a) \in AreaStart + 1..NewTop(M) /\ Place(M, a) <= a
        OBVIOUS
    <2> DEFINE c == Cardinality(R(a))
    <2>1. c \in 1..Cardinality(M) /\ c <= a - AreaStart /\ Place(M, a) = AreaStart + c /\ a \in Nat
        BY <1>1, <1>4, <1>5
    <2> HIDE DEF c
    <2>2. QED BY <1>1, <1>3, <2>1 DEF NewTop
<1>9. \A a, b \in M : a < b => Place(M, a) < Place(M, b)
    <2> SUFFICES ASSUME NEW a \in M, NEW b \in M, a < b PROVE Place(M, a) < Place(M, b)
        OBVIOUS
    <2>1. Cardinality(R(a)) < Cardinality(R(b)) /\ Cardinality(R(a)) \in Nat /\ Cardinality(R(b)) \in Nat
        <3>1. Cardinality(R(a)) \in 1..Cardinality(M) /\ Cardinality(R(b)) \in 1..Cardinality(M)
            BY <1>4
        <3>2. Cardinality(R(a)) < Cardinality(R(b))
            BY <1>6
        <3>3. QED BY <1>3, <3>1, <3>2
    <2>2. QED BY <1>1, <1>5, <2>1
<1>10. \A a : a \notin M => Place(M, a) = a
    BY DEF Place
<1>11. QED BY <1>3, <1>7, <1>8, <1>9, <1>10

\* The objects in front of the first dead one stay.
LEMMA FixedFacts ==
    ASSUME Shape, JobOK, NEW M \in SUBSET Area
    PROVE  /\ Fixed(M) \in Nat /\ AreaStart <= Fixed(M) /\ Fixed(M) <= Top
           /\ \A a \in AreaStart + 1..Fixed(M) : a \in M
           /\ \A a \in Nat : a <= Fixed(M) => Place(M, a) = a
           /\ \A a \in M : a > Fixed(M) => Place(M, a) > Fixed(M)
<1> DEFINE S == {x \in AreaStart..Top : AreaStart + 1 .. x \subseteq M}
           e == Fixed(M)
<1>1. Top \in Nat /\ AreaStart \in Nat /\ AreaStart <= Top /\ \A a \in M : a \in AreaStart + 1..Top
    BY HeapFacts DEF Area
<1>2. AreaStart \in S
    BY <1>1
<1>3. e \in S
    <2> DEFINE T == {Top - x : x \in S}
    <2>1. T \subseteq Nat /\ T # {}
        BY <1>1, <1>2
    <2>2. PICK y \in T : \A z \in T : y <= z
        <3> HIDE DEF T
        <3>1. QED BY <2>1, SmallestOfNat
    <2>3. PICK x \in S : y = Top - x
        OBVIOUS
    <2>4. \A z \in S : x >= z
        <3> SUFFICES ASSUME NEW z \in S PROVE x >= z
            OBVIOUS
        <3>1. Top - z \in T /\ x \in Nat /\ z \in Nat
            BY <1>1
        <3>2. Top - x <= Top - z
            BY <2>2, <2>3, <3>1
        <3> HIDE DEF S, T
        <3>3. QED BY <1>1, <3>1, <3>2
    <2>5. e = CHOOSE m \in S : \A z \in S : m >= z
        BY DEF Fixed, Max
    <2> HIDE DEF S, e
    <2>6. QED BY <2>4, <2>5
<1>4. e \in Nat /\ AreaStart <= e /\ e <= Top /\ AreaStart + 1..e \subseteq M
    BY <1>1, <1>3
<1> HIDE DEF e
<1>5. ASSUME NEW a \in AreaStart + 1..e PROVE Place(M, a) = a
    <2> DEFINE R == {b \in M : b <= a}
               x == AreaStart + 1
    <2>1. a \in Nat /\ x <= a /\ a <= e /\ a \in M
        BY <1>1, <1>4
    <2>2. R = x..a
        <3>1. \A b \in x..a : b \in AreaStart + 1..e /\ b <= a
            BY <1>1, <1>4, <2>1
        <3>2. \A b \in R : b \in x..a
            BY <1>1, <2>1
        <3>3. QED BY <1>4, <3>1, <3>2
    <2>3. Place(M, a) = AreaStart + Cardinality(R)
        BY <2>1 DEF Place
    <2>4. x \in Int /\ a \in Int
        BY <1>1, <2>1
    <2>5. a - x + 1 = a - AreaStart
        BY <1>1, <2>1
    <2> HIDE DEF R, x
    <2>6. Cardinality(R) = a - x + 1
        <3>1. Cardinality(x..a) = IF x > a THEN 0 ELSE a - x + 1
            BY <2>4, FS_Interval
        <3>2. QED BY <2>1, <2>2, <2>4, <3>1
    <2>7. QED BY <1>1, <2>1, <2>3, <2>5, <2>6
<1>6. ASSUME NEW a \in Nat, a <= e PROVE Place(M, a) = a
    <2>1. CASE a <= AreaStart
        <3>1. a \notin M
            BY <1>1, <2>1
        <3>2. QED BY <3>1 DEF Place
    <2>2. CASE a > AreaStart
        BY <1>1, <1>4, <1>5, <1>6, <2>2
    <2>3. QED BY <1>1, <2>1, <2>2
<1>7. ASSUME NEW a \in M, a > e PROVE Place(M, a) > e
    <2>1. CASE e = AreaStart
        <3>1. Place(M, a) \in AreaStart + 1..NewTop(M) /\ NewTop(M) \in Nat
            BY PlaceFacts
        <3>2. QED BY <1>1, <2>1, <3>1
    <2>2. CASE e # AreaStart
        <3>1. e \in AreaStart + 1..e
            BY <1>1, <1>4, <2>2
        <3>2. e \in M /\ Place(M, e) = e
            BY <1>4, <1>5, <3>1
        <3>3. Place(M, e) < Place(M, a)
            BY <1>7, <3>2, PlaceFacts
        <3>4. Place(M, a) \in AreaStart + 1..NewTop(M) /\ NewTop(M) \in Nat
            BY PlaceFacts
        <3>5. QED BY <1>1, <1>4, <3>2, <3>3, <3>4
    <2>3. QED BY <2>1, <2>2
<1>8. QED BY <1>4, <1>6, <1>7 DEF e

\* What is kept goes to the cells that are left, in order, one to each.
LEMMA SourceFacts ==
    ASSUME Shape, JobOK, NEW M \in SUBSET Area
    PROVE  /\ Kept(M) \in SUBSET Cells
           /\ \A i \in 1..NewTop(M) : Source(M, i) \in Kept(M) /\ Place(M, Source(M, i)) = i
           /\ \A a \in Kept(M) : Place(M, a) \in 1..NewTop(M) /\ Source(M, Place(M, a)) = a
           /\ \A a, b \in Kept(M) : a < b => Place(M, a) < Place(M, b)
           /\ \A i \in Old : Source(M, i) = i /\ i \in 1..NewTop(M)
<1>1. Top \in Nat /\ AreaStart \in Nat /\ AreaStart <= Top /\ \A a \in M : a \in AreaStart + 1..Top
    BY HeapFacts DEF Area
<1>2. /\ IsFiniteSet(M) /\ Cardinality(M) \in Nat /\ NewTop(M) \in Nat
      /\ AreaStart <= NewTop(M) /\ NewTop(M) <= Top
      /\ \A a \in M : Place(M, a) \in AreaStart + 1..NewTop(M)
      /\ \A a, b \in M : a < b => Place(M, a) < Place(M, b)
      /\ \A a : a \notin M => Place(M, a) = a
    BY PlaceFacts
<1>3. /\ Fixed(M) \in Nat /\ AreaStart <= Fixed(M) /\ Fixed(M) <= Top
      /\ \A a \in AreaStart + 1..Fixed(M) : a \in M
      /\ \A a \in Nat : a <= Fixed(M) => Place(M, a) = a
    BY FixedFacts
<1>4. /\ Kept(M) \in SUBSET Cells
      /\ \A a \in Kept(M) : a \in Nat /\ (a \in M \/ (a \in Old /\ a \notin M /\ Place(M, a) = a))
      /\ \A a \in Old : a \in 1..AreaStart /\ a \in 1..NewTop(M)
    <2>1. Kept(M) \in SUBSET Cells
        BY <1>1 DEF Kept, Old, Cells
    <2>2. \A a \in Old : a \notin M /\ a \in 1..AreaStart /\ a \in 1..NewTop(M)
        BY <1>1, <1>2 DEF Old
    <2>3. QED BY <1>2, <2>1, <2>2 DEF Kept, Cells
<1>5. ASSUME NEW a \in Kept(M), NEW b \in Kept(M), a < b
      PROVE  Place(M, a) < Place(M, b)
    <2>1. CASE a \in M /\ b \in M
        BY <1>2, <1>5, <2>1
    <2>2. CASE a \in Old /\ Place(M, a) = a /\ b \in M
        <3>1. a <= AreaStart /\ Place(M, b) \in AreaStart + 1..NewTop(M) /\ a \in Nat
            BY <1>2, <1>4, <2>2
        <3>2. QED BY <1>1, <1>2, <2>2, <3>1
    <2>3. CASE b \in Old /\ b \notin M /\ Place(M, b) = b
        <3>1. a \notin M
            BY <1>1, <1>4, <1>5, <2>3
        <3>2. QED BY <1>2, <1>5, <2>3, <3>1
    <2>4. QED BY <1>4, <2>1, <2>2, <2>3
<1>6. \A a \in Kept(M) : Place(M, a) \in 1..NewTop(M)
    <2> SUFFICES ASSUME NEW a \in Kept(M) PROVE Place(M, a) \in 1..NewTop(M)
        OBVIOUS
    <2>1. CASE a \in M
        <3>1. Place(M, a) \in AreaStart + 1..NewTop(M)
            BY <1>2, <2>1
        <3>2. QED BY <1>1, <1>2, <3>1
    <2>2. CASE a \in Old /\ Place(M, a) = a
        BY <1>4, <2>2
    <2>3. QED BY <1>4, <2>1, <2>2
<1>7. ASSUME NEW a \in Kept(M), NEW b \in Kept(M), Place(M, a) = Place(M, b)
      PROVE  a = b
    <2>1. a \in Nat /\ b \in Nat /\ Place(M, a) \in Nat
        <3>1. Place(M, a) \in 1..NewTop(M)
            BY <1>6
        <3>2. QED BY <1>4, <3>1
    <2>2. ~(a < b) /\ ~(b < a)
        BY <1>5, <1>7, <2>1
    <2>3. QED BY <2>1, <2>2
<1>8. ASSUME NEW i \in AreaStart + 1..NewTop(M)
      PROVE  \E a \in M : Place(M, a) = i
    <2>1. SUFFICES ASSUME \A a \in M : Place(M, a) # i PROVE FALSE
        OBVIOUS
    <2> DEFINE x == AreaStart + 1
               T == x..NewTop(M)
               D == T \ {i}
               f == [a \in M |-> Place(M, a)]
    <2>2. IsFiniteSet(T) /\ Cardinality(T) = Cardinality(M)
        <3>1. x \in Int /\ NewTop(M) \in Int /\ NewTop(M) - x + 1 = Cardinality(M) /\ x <= NewTop(M)
            BY <1>1, <1>2 DEF NewTop
        <3> HIDE DEF x
        <3>2. IsFiniteSet(T) /\ Cardinality(T) = IF x > NewTop(M) THEN 0 ELSE NewTop(M) - x + 1
            BY <3>1, FS_Interval
        <3>3. QED BY <3>1, <3>2
    <2>3. f \in [M -> D]
        BY <1>2, <2>1
    <2>4. i \in T
        OBVIOUS
    <2> HIDE DEF f, T
    <2>5. IsFiniteSet(D) /\ Cardinality(D) = Cardinality(T) - 1
        BY <2>2, <2>4, FS_RemoveElement
    <2> HIDE DEF D
    <2>6. Cardinality(D) < Cardinality(M)
        BY <1>2, <2>2, <2>5
    <2>7. \E a, b \in M : a # b /\ f[a] = f[b]
        BY <1>2, <2>3, <2>5, <2>6, FS_PigeonHole
    <2>8. QED BY <1>7, <2>7 DEF f, Kept
<1>9. ASSUME NEW i \in 1..NewTop(M)
      PROVE  Source(M, i) \in Kept(M) /\ Place(M, Source(M, i)) = i
    <2>1. CASE i <= Fixed(M)
        <3>1. Source(M, i) = i /\ Place(M, i) = i
            BY <1>3, <2>1 DEF Source
        <3>2. i \in Kept(M)
            <4>1. i \in 1..AreaStart \/ i \in AreaStart + 1..Fixed(M)
                BY <1>1, <1>3, <2>1
            <4>2. QED BY <1>3, <4>1 DEF Kept, Old
        <3>3. QED BY <3>1, <3>2
    <2>2. CASE ~(i <= Fixed(M))
        <3>1. i \in AreaStart + 1..NewTop(M)
            BY <1>1, <1>2, <1>3, <2>2
        <3>2. \E a \in M : Place(M, a) = i
            BY <1>8, <3>1
        <3>3. Source(M, i) = CHOOSE a \in M : Place(M, a) = i
            BY <2>2 DEF Source
        <3>4. QED BY <3>2, <3>3 DEF Kept
    <2>3. QED BY <2>1, <2>2
<1>10. \A a \in Kept(M) : Source(M, Place(M, a)) = a
    <2> SUFFICES ASSUME NEW a \in Kept(M) PROVE Source(M, Place(M, a)) = a
        OBVIOUS
    <2>1. Place(M, a) \in 1..NewTop(M)
        BY <1>6
    <2>2. Source(M, Place(M, a)) \in Kept(M) /\ Place(M, Source(M, Place(M, a))) = Place(M, a)
        BY <1>9, <2>1
    <2>3. QED BY <1>7, <2>2
<1>11. \A i \in Old : Source(M, i) = i /\ i \in 1..NewTop(M)
    BY <1>1, <1>3, <1>4 DEF Source
<1>12. QED BY <1>4, <1>5, <1>6, <1>9, <1>10, <1>11

\* What a kept object refers to is kept, and the slots are told where it goes:
\* those that are not updated refer to what stays.
MovedRight(M, B, a) ==
    LET n == Moved(M, B, a)
    IN  /\ n \in Cell_ /\ n.obj = mem[a].obj /\ n.index = mem[a].index
        /\ Len(n.ref) = Len(mem[a].ref)
        /\ \A f \in 1..Len(mem[a].ref) : /\ n.ref[f] = Place(M, mem[a].ref[f])
                                         /\ mem[a].ref[f] \in Kept(M) \union {0}
                                         /\ n.ref[f] \in 0..NewTop(M)

\* An object that has moved refers to the same objects, wherever they are now:
\* a slot that is not updated refers to an object that stays.
LEMMA MovedFacts ==
    ASSUME Inv, phase = "compact", NEW M, M = MarkedNow,
           NEW B, B = bits \union Forward(M), NEW a \in Kept(M)
    PROVE  MovedRight(M, B, a)
<1>1. Shape /\ JobOK /\ BitsOK /\ MarkOK
    BY DEF Inv
<1>2. M \in SUBSET Area
    BY DEF MarkedNow, Marked, Area
<1>3. /\ Top \in Nat /\ AreaStart \in Nat /\ AreaStart <= Top
      /\ Fixed(M) \in Nat /\ AreaStart <= Fixed(M) /\ Fixed(M) <= Top
      /\ \A x \in Nat : x <= Fixed(M) => Place(M, x) = x
    BY <1>1, <1>2, HeapFacts, FixedFacts
<1>4. Kept(M) \in SUBSET Cells /\ Closed(Kept(M))
    <2>1. \A x \in Old : Refs(x) \intersect Area \subseteq M
        BY <1>1 DEF MarkOK, Started, Collecting
    <2>2. \A x \in M : Refs(x) \intersect Area \subseteq M
        BY <1>1 DEF MarkOK, Followed
    <2>3. QED BY <1>1, <1>2, <2>1, <2>2, ClosedWithOld DEF Kept
<1> DEFINE r == mem[a].ref
           q == [f \in DOMAIN r |-> IF a > Fixed(M) \/ <<a, f>> \in B THEN Place(M, r[f]) ELSE r[f]]
<1>5. /\ a \in Cells /\ a \in Nat /\ mem[a] \in Cell_
      /\ r \in Seq(Nat) /\ Len(r) \in Nat /\ DOMAIN r = 1..Len(r)
      /\ \A f \in 1..Len(r) : r[f] \in 0..Top /\ (r[f] # 0 => r[f] \in Refs(a))
    <2>1. a \in Cells
        BY <1>4
    <2>2. QED BY <1>1, <2>1, CellFacts DEF Cells
<1>6. \A f \in 1..Len(r) : r[f] \in Kept(M) \union {0} /\ r[f] \in Nat
    BY <1>4, <1>5 DEF Closed
<1>7. \A x \in Kept(M) \union {0} : Place(M, x) \in 0..NewTop(M)
    <2>1. NewTop(M) \in Nat /\ 0 \notin M /\ Place(M, 0) = 0
        <3>1. 0 \notin Area
            BY <1>3 DEF Area
        <3>2. QED BY <1>1, <1>2, <3>1, PlaceFacts
    <2>2. \A x \in Kept(M) : Place(M, x) \in 1..NewTop(M)
        BY <1>1, <1>2, SourceFacts
    <2>3. QED BY <2>1, <2>2
<1>8. Moved(M, B, a) = [mem[a] EXCEPT !.ref = q]
    BY DEF Moved
<1>9. ASSUME NEW f \in 1..Len(r), ~(a > Fixed(M)), <<a, f>> \notin B
      PROVE  Place(M, r[f]) = r[f]
    <2>1. CASE a \in Old
        <3>1. ~full /\ AreaStart = oldEnd /\ a \in 1..oldEnd
            <4>1. AreaStart # 0
                BY <1>3, <2>1 DEF Old
            <4>2. ~full /\ AreaStart = oldEnd
                BY <4>1 DEF AreaStart
            <4>3. QED BY <2>1, <4>2 DEF Old
        <3>2. phase \in Collecting /\ <<a, f>> \notin bits
            BY <1>9 DEF Collecting
        <3>3. ~(r[f] > oldEnd)
            BY <1>1, <3>1, <3>2 DEF BitsOK
        <3>4. r[f] \in Nat /\ r[f] <= Fixed(M)
            BY <1>3, <1>6, <3>1, <3>3
        <3>5. QED BY <1>3, <3>4
    <2>2. CASE a \notin Old
        <3>1. a \in AreaStart + 1..Fixed(M)
            BY <1>3, <1>5, <1>9, <2>2 DEF Old, Cells
        <3>2. <<a, f>> \notin Forward(M) /\ f \in DOMAIN mem[a].ref
            BY <1>5, <1>9
        <3>3. ~(mem[a].ref[f] > a)
            BY <3>1, <3>2 DEF Forward
        <3>4. r[f] \in Nat /\ r[f] <= Fixed(M)
            BY <1>3, <1>5, <1>6, <3>1, <3>3
        <3>5. QED BY <1>3, <3>4
    <2>3. QED BY <2>1, <2>2
<1> HIDE DEF r
<1>10. \A f \in 1..Len(r) : q[f] = Place(M, r[f])
    BY <1>5, <1>9
<1> HIDE DEF q
<1>11. q \in Seq(Nat) /\ Len(q) = Len(r)
    <2>1. \A f \in 1..Len(r) : q[f] \in Nat
        <3>1. NewTop(M) \in Nat
            BY <1>1, <1>2, PlaceFacts
        <3>2. \A f \in 1..Len(r) : Place(M, r[f]) \in 0..NewTop(M)
            BY <1>6, <1>7
        <3>3. QED BY <1>10, <3>1, <3>2
    <2>2. q = [f \in 1..Len(r) |-> q[f]]
        BY <1>5 DEF q
    <2>3. q \in [1..Len(r) -> Nat]
        BY <2>1, <2>2
    <2>4. QED BY <1>5, <2>3
<1> DEFINE n == [mem[a] EXCEPT !.ref = q]
<1>12. n \in Cell_ /\ n.obj = mem[a].obj /\ n.index = mem[a].index /\ n.ref = q
    BY <1>5, <1>11 DEF Cell_
<1> HIDE DEF n
<1>13. Moved(M, B, a) = n
    BY <1>8 DEF n
<1>14. QED BY <1>6, <1>7, <1>10, <1>11, <1>12, <1>13 DEF MovedRight, r

\* A list with one element for each of another.
LEMMA ListOfImages ==
    ASSUME NEW S, NEW T, NEW s \in Seq(S), NEW r, r = [i \in 1..Len(s) |-> r[i]],
           \A i \in 1..Len(s) : r[i] \in T
    PROVE  r \in Seq(T) /\ Len(r) = Len(s)
<1>1. Len(s) \in Nat
    OBVIOUS
<1> DEFINE n == Len(s)
<1>2. r \in [1..n -> T]
    OBVIOUS
<1>3. n \in Nat
    BY <1>1
<1> HIDE DEF n
<1>4. r \in Seq(T) /\ Len(r) = n
    BY <1>2, <1>3
<1>5. QED BY <1>4 DEF n

\* The heap after the compaction.
Compacted(M) ==
    /\ mem' \in Seq(Cell_) /\ Top' = NewTop(M)
    /\ \A i \in 1..NewTop(M) :
          /\ mem'[i].obj = mem[Source(M, i)].obj /\ mem'[i].index = mem[Source(M, i)].index
          /\ Len(mem'[i].ref) = Len(mem[Source(M, i)].ref)
          /\ \A f \in 1..Len(mem[Source(M, i)].ref) :
                /\ mem'[i].ref[f] = Place(M, mem[Source(M, i)].ref[f])
                /\ mem[Source(M, i)].ref[f] \in Kept(M) \union {0}
                /\ mem'[i].ref[f] \in 0..NewTop(M)

\* What compaction makes of the heap, the roots and the lists.
LEMMA CompactMoves ==
    ASSUME Inv, Compact
    PROVE  Compacted(MarkedNow)
<1> DEFINE M == MarkedNow
           B == bits \union Forward(M)
<1>1. Shape /\ JobOK /\ phase = "compact"
    BY DEF Inv, Compact
<1>2. M \in SUBSET Area
    BY DEF MarkedNow, Marked, Area
<1>3. mem' = [i \in 1..NewTop(M) |-> Moved(M, B, Source(M, i))]
    BY DEF Compact, MarkedNow, NewTop, Source
<1>4. \A i \in 1..NewTop(M) : MovedRight(M, B, Source(M, i))
    <2>1. \A i \in 1..NewTop(M) : Source(M, i) \in Kept(M)
        BY <1>1, <1>2, SourceFacts
    <2> HIDE DEF M
    <2>2. M = MarkedNow
        BY DEF M
    <2> HIDE DEF B
    <2>3. B = bits \union Forward(M)
        BY DEF B
    <2>4. QED BY <1>1, <2>1, <2>2, <2>3, MovedFacts
<1>5. NewTop(M) \in Nat
    BY <1>1, <1>2, PlaceFacts
<1> HIDE DEF M, B
<1>6. \A i \in 1..NewTop(M) : mem'[i] = Moved(M, B, Source(M, i)) /\ Moved(M, B, Source(M, i)) \in Cell_
    BY <1>3, <1>4 DEF MovedRight
<1>7. mem' \in Seq(Cell_) /\ Len(mem') = NewTop(M)
    <2> DEFINE G(i) == Moved(M, B, Source(M, i))
    <2>1. \A i \in 1..NewTop(M) : G(i) \in Cell_
        BY <1>6
    <2>2. mem' = [i \in 1..NewTop(M) |-> G(i)]
        BY <1>3
    <2> HIDE DEF G
    <2>3. mem' \in [1..NewTop(M) -> Cell_]
        BY <2>1, <2>2
    <2>4. QED BY <1>5, <2>3
<1>8. ASSUME NEW i \in 1..NewTop(M)
      PROVE  /\ mem'[i].obj = mem[Source(M, i)].obj /\ mem'[i].index = mem[Source(M, i)].index
             /\ Len(mem'[i].ref) = Len(mem[Source(M, i)].ref)
             /\ \A f \in 1..Len(mem[Source(M, i)].ref) :
                   /\ mem'[i].ref[f] = Place(M, mem[Source(M, i)].ref[f])
                   /\ mem[Source(M, i)].ref[f] \in Kept(M) \union {0}
                   /\ mem'[i].ref[f] \in 0..NewTop(M)
    BY <1>4, <1>6 DEF MovedRight
<1>9. Top' = NewTop(M)
    BY <1>7 DEF Top
<1>10. QED BY <1>7, <1>8, <1>9 DEF Compacted, M

\* Where the objects that are kept are after the compaction: Place is one to one on
\* them and keeps their order.
Images(M) ==
    /\ M \in SUBSET Area /\ Kept(M) \in SUBSET Cells
    /\ NewTop(M) \in Nat /\ AreaStart <= NewTop(M) /\ NewTop(M) <= Top
    /\ \A a : a \notin M => Place(M, a) = a
    /\ \A i \in 1..NewTop(M) : Source(M, i) \in Kept(M) /\ Place(M, Source(M, i)) = i
    /\ \A a \in Kept(M) : Place(M, a) \in 1..NewTop(M) /\ Source(M, Place(M, a)) = a
    /\ \A a, b \in Kept(M) : a < b => Place(M, a) < Place(M, b)
    /\ \A i \in Old : Source(M, i) = i /\ i \in 1..NewTop(M)
    /\ 0 \notin Kept(M) /\ 0 \notin M /\ Place(M, 0) = 0 /\ -1 \notin M /\ Place(M, -1) = -1
    /\ root \in Kept(M) /\ \A a \in ToSet(list) \union ToSet(pending) : a \in Kept(M)

\* The lists of those with finalizers after the compaction.
ListsMoved(M) ==
    /\ list' \in Seq(Nat \ {0}) /\ Len(list') = Len(list)
    /\ pending' \in Seq(Nat \ {0}) /\ Len(pending') = Len(pending)
    /\ \A i \in 1..Len(list) : list'[i] = Place(M, list[i]) /\ list[i] \in Kept(M) /\ list'[i] \in 1..NewTop(M)
    /\ \A i \in 1..Len(pending) : /\ pending'[i] = Place(M, pending[i])
                                   /\ pending[i] \in Kept(M) /\ pending'[i] \in 1..NewTop(M)
    /\ ToSet(list') = {Place(M, a) : a \in ToSet(list)}
    /\ ToSet(pending') = {Place(M, a) : a \in ToSet(pending)}

\* What is kept: the stack, all with a finalizer, and with them what they refer to.
LEMMA CompactImages ==
    ASSUME Inv, phase = "compact"
    PROVE  Images(MarkedNow)
<1>1. Shape /\ ListOK /\ JobOK /\ MarkOK
    BY DEF Inv
<1> DEFINE M == MarkedNow
           top == NewTop(M)
           K == Kept(M)
           P(a) == Place(M, a)
           S(i) == Source(M, i)
<1>2. phase = "compact"
    OBVIOUS
<1>3. M \in SUBSET Area
    BY DEF MarkedNow, Marked, Area
<1>4. /\ Top \in Nat /\ AreaStart \in Nat /\ AreaStart <= Top /\ root \in Cells
      /\ top \in Nat /\ AreaStart <= top /\ top <= Top /\ Cardinality(M) \in Nat
      /\ \A a : a \notin M => P(a) = a
    BY <1>1, <1>3, HeapFacts, PlaceFacts
<1>5. /\ K \in SUBSET Cells
      /\ \A i \in 1..top : S(i) \in K /\ P(S(i)) = i
      /\ \A a \in K : P(a) \in 1..top /\ S(P(a)) = a
      /\ \A a, b \in K : a < b => P(a) < P(b)
      /\ \A i \in Old : S(i) = i /\ i \in 1..top
    BY <1>1, <1>3, SourceFacts
<1>6. /\ root \in Area => root \in M
      /\ ToSet(pending) \subseteq M
      /\ ToSet(list) \intersect Area \subseteq M
      /\ M \subseteq K /\ Old \subseteq K
    BY <1>1, <1>2 DEF MarkOK, Started, Collecting, Found, Kept
<1>7. \A a \in Cells : a \notin Area => a \in Old
    BY <1>4 DEF Cells, Area, Old
<1>8. 0 \notin K /\ 0 \notin M /\ P(0) = 0 /\ -1 \notin M /\ P(-1) = -1
    <2>1. 0 \notin K /\ 0 \notin M
        BY <1>5, <1>6 DEF Cells
    <2>2. -1 \notin M
        BY <1>5, <1>6 DEF Cells
    <2>3. QED BY <1>4, <2>1, <2>2
<1>9. root \in K /\ \A a \in ToSet(list) \union ToSet(pending) : a \in K
    <2>1. ToSet(list) \subseteq Cells
        <3>1. \A x \in ToSet(list) : \E i \in 1..Len(list) : list[i] = x
            BY <1>1, ListElements DEF ListOK
        <3>2. \A i \in 1..Len(list) : list[i] \in Nat \ {0} /\ list[i] <= Top
            BY <1>1 DEF ListOK
        <3>3. QED BY <3>1, <3>2 DEF Cells
    <2>2. QED BY <1>4, <1>6, <1>7, <2>1
<1>10. QED BY <1>3, <1>4, <1>5, <1>8, <1>9 DEF Images

\* Compaction follows the lists.
LEMMA CompactLists ==
    ASSUME Inv, Compact
    PROVE  ListsMoved(MarkedNow)
<1>1. ListOK
    BY DEF Inv
<1> DEFINE M == MarkedNow
           top == NewTop(M)
           K == Kept(M)
           P(a) == Place(M, a)
<1>2. /\ phase = "compact"
      /\ list' = [i \in DOMAIN list |-> P(list[i])]
      /\ pending' = [i \in DOMAIN pending |-> P(pending[i])]
    BY DEF Compact, MarkedNow
<1>3. top \in Nat
    BY <1>2, CompactImages DEF Images
<1>4. \A a \in K : P(a) \in 1..top
    BY <1>2, CompactImages DEF Images
<1>5. \A a \in ToSet(list) \union ToSet(pending) : a \in K
    BY <1>2, CompactImages DEF Images
<1> HIDE DEF P, K, top, M
<1>6. /\ list' \in Seq(Nat \ {0}) /\ Len(list') = Len(list)
      /\ pending' \in Seq(Nat \ {0}) /\ Len(pending') = Len(pending)
      /\ \A i \in 1..Len(list) : list'[i] = P(list[i]) /\ list[i] \in K /\ list'[i] \in 1..top
      /\ \A i \in 1..Len(pending) : pending'[i] = P(pending[i]) /\ pending[i] \in K /\ pending'[i] \in 1..top
    <2>1. /\ list \in Seq(Nat \ {0}) /\ pending \in Seq(Nat \ {0})
          /\ Len(list) \in Nat /\ Len(pending) \in Nat
          /\ DOMAIN list = 1..Len(list) /\ DOMAIN pending = 1..Len(pending)
        BY <1>1 DEF ListOK
    <2>2. \A i \in 1..Len(list) : list[i] \in ToSet(list)
        BY <2>1, ListElements
    <2>3. \A i \in 1..Len(pending) : pending[i] \in ToSet(pending)
        BY <2>1, ListElements
    <2>4. \A i \in 1..Len(list) : list'[i] = P(list[i]) /\ list[i] \in K /\ list'[i] \in 1..top
        BY <1>2, <1>4, <1>5, <2>1, <2>2
    <2>5. \A i \in 1..Len(pending) : pending'[i] = P(pending[i]) /\ pending[i] \in K /\ pending'[i] \in 1..top
        BY <1>2, <1>4, <1>5, <2>1, <2>3
    <2>6. list' \in Seq(Nat \ {0}) /\ Len(list') = Len(list)
        <3> DEFINE r == list'
                   N == Nat \ {0}
        <3>1. r = [i \in 1..Len(list) |-> r[i]]
            BY <1>2, <2>1
        <3>2. list \in Seq(N) /\ \A i \in 1..Len(list) : r[i] \in N
            BY <1>3, <2>1, <2>4
        <3> HIDE DEF r, N
        <3>3. r \in Seq(N) /\ Len(r) = Len(list)
            BY <3>1, <3>2, ListOfImages
        <3>4. QED BY <3>3 DEF r, N
    <2>7. pending' \in Seq(Nat \ {0}) /\ Len(pending') = Len(pending)
        <3> DEFINE r == pending'
                   N == Nat \ {0}
        <3>1. r = [i \in 1..Len(pending) |-> r[i]]
            BY <1>2, <2>1
        <3>2. pending \in Seq(N) /\ \A i \in 1..Len(pending) : r[i] \in N
            BY <1>3, <2>1, <2>5
        <3> HIDE DEF r, N
        <3>3. r \in Seq(N) /\ Len(r) = Len(pending)
            BY <3>1, <3>2, ListOfImages
        <3>4. QED BY <3>3 DEF r, N
    <2>8. QED BY <2>4, <2>5, <2>6, <2>7
<1>7. /\ ToSet(list') = {P(a) : a \in ToSet(list)}
      /\ ToSet(pending') = {P(a) : a \in ToSet(pending)}
    <2>1. /\ \A x : x \in ToSet(list) <=> \E i \in 1..Len(list) : list[i] = x
          /\ \A x : x \in ToSet(pending) <=> \E i \in 1..Len(pending) : pending[i] = x
        BY <1>1, ListElements DEF ListOK
    <2>2. /\ \A x : x \in ToSet(list') <=> \E i \in 1..Len(list) : list'[i] = x
          /\ \A x : x \in ToSet(pending') <=> \E i \in 1..Len(pending) : pending'[i] = x
        BY <1>6, ListElements
    <2>3. \A x : x \in ToSet(list') <=> \E a \in ToSet(list) : x = P(a)
        <3>1. ASSUME NEW x \in ToSet(list') PROVE \E a \in ToSet(list) : x = P(a)
            <4>1. PICK i \in 1..Len(list) : list'[i] = x
                BY <2>2
            <4>2. x = P(list[i]) /\ list[i] \in ToSet(list)
                BY <1>6, <2>1, <4>1
            <4>3. QED BY <4>2
        <3>2. ASSUME NEW a \in ToSet(list) PROVE P(a) \in ToSet(list')
            <4>1. PICK i \in 1..Len(list) : list[i] = a
                BY <2>1
            <4>2. list'[i] = P(a)
                BY <1>6, <4>1
            <4>3. QED BY <2>2, <4>2
        <3>3. QED BY <3>1, <3>2
    <2>4. \A x : x \in ToSet(pending') <=> \E a \in ToSet(pending) : x = P(a)
        <3>1. ASSUME NEW x \in ToSet(pending') PROVE \E a \in ToSet(pending) : x = P(a)
            <4>1. PICK i \in 1..Len(pending) : pending'[i] = x
                BY <2>2
            <4>2. x = P(pending[i]) /\ pending[i] \in ToSet(pending)
                BY <1>6, <2>1, <4>1
            <4>3. QED BY <4>2
        <3>2. ASSUME NEW a \in ToSet(pending) PROVE P(a) \in ToSet(pending')
            <4>1. PICK i \in 1..Len(pending) : pending[i] = a
                BY <2>1
            <4>2. pending'[i] = P(a)
                BY <1>6, <4>1
            <4>3. QED BY <2>2, <4>2
        <3>3. QED BY <3>1, <3>2
    <2>5. QED BY <2>3, <2>4
<1>8. QED BY <1>6, <1>7 DEF ListsMoved, P, K, top, M

\* Compaction: the new old generation has the bits it needs, and what could be
\* reached still can.
LEMMA CompactKeeps ==
    ASSUME Inv, Compact
    PROVE  Inv'
<1>1. Shape /\ WeakOK /\ ListOK /\ JobOK /\ BitsOK /\ MarkOK /\ FullOK
    BY DEF Inv
<1> DEFINE M == MarkedNow
           B == bits \union Forward(M)
           top == NewTop(M)
           K == Kept(M)
           P(a) == Place(M, a)
           S(i) == Source(M, i)
<1>2. /\ phase = "compact" /\ phase' = "finalize" /\ wasFull' = full
      /\ root' = P(root)
      /\ table' = [i \in DOMAIN table |-> P(table[i])]
      /\ list' = [i \in DOMAIN list |-> P(list[i])]
      /\ pending' = [i \in DOMAIN pending |-> P(pending[i])]
      /\ overflow' = overflow /\ resume' = resume /\ need' = need /\ round' = round
    BY DEF Compact, MarkedNow
<1>3. Images(M)
    BY <1>2, CompactImages
<1>4. M \in SUBSET Area
    BY <1>3 DEF Images
<1>5. /\ Top \in Nat /\ AreaStart \in Nat /\ AreaStart <= Top /\ root \in Cells
      /\ top \in Nat /\ AreaStart <= top /\ top <= Top /\ M \in SUBSET Area
      /\ \A a : a \notin M => P(a) = a
    BY <1>1, <1>3, HeapFacts DEF Images
<1>6. /\ K \in SUBSET Cells
      /\ \A i \in 1..top : S(i) \in K /\ P(S(i)) = i
      /\ \A a \in K : P(a) \in 1..top /\ S(P(a)) = a
      /\ \A a, b \in K : a < b => P(a) < P(b)
      /\ \A i \in Old : S(i) = i /\ i \in 1..top
    BY <1>3 DEF Images
<1>7. /\ mem' \in Seq(Cell_) /\ Top' = top
      /\ \A i \in 1..top :
            /\ mem'[i].obj = mem[S(i)].obj /\ mem'[i].index = mem[S(i)].index
            /\ Len(mem'[i].ref) = Len(mem[S(i)].ref)
            /\ \A f \in 1..Len(mem[S(i)].ref) : /\ mem'[i].ref[f] = P(mem[S(i)].ref[f])
                                                 /\ mem[S(i)].ref[f] \in K \union {0}
                                                 /\ mem'[i].ref[f] \in 0..top
    BY CompactMoves DEF Compacted
<1>8. /\ M \subseteq FromAll
      /\ root \in Area => root \in M
      /\ ToSet(pending) \subseteq M
      /\ ToSet(list) \intersect Area \subseteq M
      /\ \A i \in DOMAIN table : table[i] \in Area => table[i] \in M
      /\ M \subseteq K /\ Old \subseteq K
    BY <1>1, <1>2 DEF MarkOK, Started, Collecting, Found, Kept
<1>9. \A a \in Cells : a \notin Area => a \in Old
    BY <1>5 DEF Cells, Area, Old
<1>10. Cells' = 1..top
    BY <1>7 DEF Cells
<1>11. 0 \notin K /\ 0 \notin M /\ P(0) = 0 /\ -1 \notin M /\ P(-1) = -1
    BY <1>3 DEF Images
<1>12. root \in K /\ \A a \in ToSet(list) \union ToSet(pending) : a \in K
    BY <1>3 DEF Images
<1>13. ListsMoved(M)
    BY CompactLists
<1> HIDE DEF P, S, K, top, M, B
<1>14. Shape'
    <2>1. \A i \in 1..top : Len(mem'[i].ref) = Size(mem'[i].obj)
        BY <1>1, <1>6, <1>7 DEF Shape
    <2>2. ASSUME NEW i \in 1..top, NEW f \in 1..Len(mem'[i].ref) PROVE mem'[i].ref[f] <= top
        <3>1. mem'[i].ref[f] \in 0..top
            BY <1>7
        <3>2. QED BY <1>5, <3>1
    <2>3. \A i, j \in 1..top : mem'[i].obj = mem'[j].obj => i = j
        <3> SUFFICES ASSUME NEW i \in 1..top, NEW j \in 1..top, mem'[i].obj = mem'[j].obj PROVE i = j
            OBVIOUS
        <3>1. S(i) \in Cells /\ S(j) \in Cells /\ mem[S(i)].obj = mem[S(j)].obj
            BY <1>6, <1>7
        <3>2. S(i) = S(j)
            BY <1>1, <3>1 DEF Shape
        <3>3. P(S(i)) = i /\ P(S(j)) = j
            BY <1>6
        <3>4. QED BY <3>2, <3>3
    <2>4. root' \in 1..top /\ mem'[root'].obj = Stack
        <3>1. P(root) \in 1..top /\ S(P(root)) = root
            BY <1>6, <1>12
        <3>2. mem'[P(root)].obj = mem[root].obj
            BY <1>7, <3>1
        <3>3. QED BY <1>1, <1>2, <3>1, <3>2 DEF Shape
    <2>5. QED BY <1>7, <1>10, <2>1, <2>2, <2>3, <2>4 DEF Shape, Size
<1>15. \A a \in K : /\ P(a) \in 1..top /\ mem'[P(a)].obj = mem[a].obj /\ mem'[P(a)].index = mem[a].index
    BY <1>6, <1>7
<1>16. /\ list' \in Seq(Nat \ {0}) /\ Len(list') = Len(list)
       /\ pending' \in Seq(Nat \ {0}) /\ Len(pending') = Len(pending)
       /\ \A i \in 1..Len(list) : list'[i] = P(list[i]) /\ list[i] \in K /\ list'[i] \in 1..top
       /\ \A i \in 1..Len(pending) : pending'[i] = P(pending[i]) /\ pending[i] \in K /\ pending'[i] \in 1..top
    BY <1>13 DEF ListsMoved, P, K, top
<1>17. ListOK'
    <2>1. \A i \in 1..Len(list') : list'[i] <= Top'
        BY <1>5, <1>7, <1>16
    <2>2. \A i \in 1..Len(pending') : pending'[i] <= Top'
        BY <1>5, <1>7, <1>16
    <2>3. Decreasing(list')
        <3> SUFFICES ASSUME NEW i \in 1..Len(list'), NEW j \in 1..Len(list'), i < j
                     PROVE  list'[i] > list'[j]
            BY DEF Decreasing
        <3>1. i \in 1..Len(list) /\ j \in 1..Len(list)
            BY <1>16
        <3>2. list[i] > list[j] /\ list[i] \in Nat /\ list[j] \in Nat
            BY <1>1, <3>1 DEF ListOK, Decreasing
        <3>3. P(list[j]) < P(list[i])
            BY <1>6, <1>16, <3>1, <3>2
        <3>4. list'[j] < list'[i] /\ list'[j] \in 1..top /\ list'[i] \in 1..top
            BY <1>16, <3>1, <3>3
        <3>5. QED BY <1>5, <3>4
    <2>4. QED BY <1>2, <1>16, <2>1, <2>2, <2>3 DEF ListOK
<1>18. /\ ToSet(list') = {P(a) : a \in ToSet(list)}
       /\ ToSet(pending') = {P(a) : a \in ToSet(pending)}
    BY <1>13 DEF ListsMoved, P
<1>19. /\ table' \in [1..Cardinality(Weaks) -> Int] /\ DOMAIN table' = DOMAIN table
       /\ \A i \in DOMAIN table : /\ -1 <= table'[i] /\ table'[i] <= top
                                  /\ table'[i] >= 0 <=> table[i] >= 0
    <2>1. /\ table \in [1..Cardinality(Weaks) -> Int] /\ DOMAIN table = 1..Cardinality(Weaks)
          /\ \A i \in DOMAIN table : table[i] \in Int /\ -1 <= table[i] /\ table[i] <= Top
        BY <1>1 DEF WeakOK
    <2>2. ASSUME NEW i \in DOMAIN table
          PROVE  /\ table'[i] \in Int /\ -1 <= table'[i] /\ table'[i] <= top
                 /\ table'[i] >= 0 <=> table[i] >= 0
        <3>1. table'[i] = P(table[i])
            BY <1>2
        <3>2. table[i] = -1 \/ table[i] = 0 \/ table[i] \in Cells
            BY <1>5, <2>1 DEF Cells
        <3>3. CASE table[i] = -1 \/ table[i] = 0
            BY <1>5, <1>11, <3>1, <3>3
        <3>4. CASE table[i] \in Cells
            <4>1. table[i] \in K
                BY <1>8, <1>9, <3>4
            <4>2. P(table[i]) \in 1..top
                BY <1>6, <4>1
            <4>3. table[i] >= 0
                BY <1>5, <3>4 DEF Cells
            <4>4. QED BY <1>5, <3>1, <4>2, <4>3
        <3>5. QED BY <3>2, <3>3, <3>4
    <2>3. table' \in [1..Cardinality(Weaks) -> Int]
        <3>1. table' = [i \in 1..Cardinality(Weaks) |-> table'[i]]
            BY <1>2, <2>1
        <3>2. \A i \in 1..Cardinality(Weaks) : table'[i] \in Int
            BY <2>1, <2>2
        <3>3. QED BY <3>1, <3>2
    <2>4. QED BY <2>1, <2>2, <2>3
<1>20. WeakOK'
    <2>1. /\ \A a \in Cells : -1 <= mem[a].index /\ mem[a].index <= Cardinality(Weaks)
          /\ \A a \in Cells : mem[a].index > 0 => IsWeak(a) /\ table[mem[a].index] >= 0
          /\ \A a, b \in Cells : mem[a].index > 0 /\ mem[a].index = mem[b].index => a = b
          /\ \A i \in DOMAIN table : table[i] >= 0 => \E a \in Cells : mem[a].index = i
          /\ \A a \in Cells : IsWeak(a) /\ mem[a].index >= 0 => a \in ToSet(list) \union ToSet(pending)
        BY <1>1, <1>2 DEF WeakOK
    <2>2. \A i \in 1..top : S(i) \in Cells /\ (IsWeak(i)' <=> IsWeak(S(i)))
        BY <1>6, <1>7 DEF IsWeak
    <2>3. \A i \in 1..top : -1 <= mem'[i].index /\ mem'[i].index <= Cardinality(Weaks)
        BY <1>7, <2>1, <2>2
    <2>4. ASSUME NEW i \in 1..top, mem'[i].index > 0
          PROVE  IsWeak(i)' /\ table'[mem'[i].index] >= 0
        <3>1. S(i) \in Cells /\ mem[S(i)].index = mem'[i].index
            BY <1>7, <2>2
        <3>2. IsWeak(S(i)) /\ table[mem'[i].index] >= 0
            BY <2>1, <2>4, <3>1
        <3>3. mem'[i].index \in DOMAIN table
            BY <1>1, <2>4, <3>1, EntryFacts
        <3>4. QED BY <1>19, <2>2, <3>2, <3>3
    <2>5. ASSUME NEW i \in 1..top, NEW j \in 1..top, mem'[i].index > 0, mem'[i].index = mem'[j].index
          PROVE  i = j
        <3>1. S(i) = S(j)
            BY <1>7, <2>1, <2>2, <2>5
        <3>2. P(S(i)) = i /\ P(S(j)) = j
            BY <1>6
        <3>3. QED BY <3>1, <3>2
    <2>6. ASSUME NEW i \in DOMAIN table, table'[i] >= 0
          PROVE  \E a \in 1..top : mem'[a].index = i
        <3>1. PICK a \in Cells : mem[a].index = i
            BY <1>19, <2>1, <2>6
        <3>2. i > 0 /\ i \in Int
            <4>1. DOMAIN table = 1..Cardinality(Weaks) /\ Cardinality(Weaks) \in Nat
                BY <1>1, <3>1, EntryFacts
            <4>2. QED BY <4>1
        <3>3. IsWeak(a)
            BY <2>1, <3>1, <3>2
        <3>4. a \in K
            BY <1>12, <2>1, <3>1, <3>2, <3>3
        <3>5. QED BY <1>15, <3>1, <3>4
    <2>7. ASSUME NEW i \in 1..top, IsWeak(i)', mem'[i].index >= 0
          PROVE  i \in ToSet(list') \union ToSet(pending')
        <3>1. S(i) \in ToSet(list) \union ToSet(pending)
            BY <1>7, <2>1, <2>2, <2>7
        <3>2. P(S(i)) = i
            BY <1>6
        <3>3. QED BY <1>18, <3>1, <3>2
    <2>8. QED BY <1>7, <1>10, <1>19, <2>3, <2>4, <2>5, <2>6, <2>7 DEF WeakOK
<1> DEFINE reuse == /\ ~full
                    /\ Top - top >= need
                    /\ Top - top >= MinReuse
                    /\ 100 * Cardinality(M) < (youngEnd - oldEnd) * SurvivalPercent
           end == IF reuse THEN youngEnd ELSE top + Min({YoungTarget + need, Capacity - top})
<1>21. /\ oldEnd' = IF reuse THEN oldEnd ELSE top
       /\ youngEnd' = end
       /\ full' = (end - (top + need) < MinYoung)
       /\ bits' = IF reuse
                  THEN IF root' <= oldEnd
                       THEN B \ {<<root', l>> : l \in 1..LocalCount}
                       ELSE B
                  ELSE {b \in B : b[1] > top}
    BY DEF Compact, Boundary, MarkedNow, M, B, top, NewTop
<1>22. /\ need = 1 /\ oldEnd \in Nat /\ oldEnd <= Top /\ Top <= youngEnd /\ youngEnd <= Capacity
       /\ youngEnd \in Nat /\ Capacity \in Nat /\ YoungTarget \in Nat
    BY <1>1, <1>2, Parameters DEF JobOK
<1>23. reuse => ~full /\ Top - top >= 1
    BY <1>22
<1> HIDE DEF reuse
<1>24. \/ reuse /\ oldEnd' = oldEnd /\ youngEnd' = youngEnd /\ AreaStart = oldEnd
       \/ ~reuse /\ oldEnd' = top /\ youngEnd' \in Nat /\ top <= youngEnd' /\ youngEnd' <= Capacity
                 /\ (top < Capacity => top < youngEnd')
    <2>1. CASE reuse
        BY <1>21, <1>23, <2>1 DEF AreaStart
    <2>2. CASE ~reuse
        <3> DEFINE m == Min({YoungTarget + need, Capacity - top})
        <3>1. YoungTarget + need \in Nat /\ Capacity - top \in Nat /\ YoungTarget + need >= 1
            BY <1>5, <1>22
        <3>2. m \in Nat /\ m <= Capacity - top /\ (m = YoungTarget + need \/ m = Capacity - top)
            BY <3>1, MinOfTwo
        <3>3. youngEnd' = top + m /\ oldEnd' = top
            BY <1>21, <2>2
        <3> HIDE DEF m
        <3>4. QED BY <1>5, <1>22, <2>2, <3>1, <3>2, <3>3
    <2>3. QED BY <2>1, <2>2
<1>25. full' \in BOOLEAN /\ wasFull' \in BOOLEAN
    <2>1. full' \in BOOLEAN
        BY <1>21
    <2>2. wasFull' \in BOOLEAN
        BY <1>1, <1>2 DEF JobOK
    <2>3. QED BY <2>1, <2>2
<1> HIDE DEF end
<1>26. JobOK'
    <2>1. phase' \in Phases /\ phase' \notin {"java", "allocate", "out_of_memory"}
        BY <1>2 DEF Phases
    <2>2. /\ oldEnd' \in Nat /\ youngEnd' \in Nat /\ oldEnd' <= top /\ top <= youngEnd'
          /\ youngEnd' <= Capacity /\ (top < Capacity => top < youngEnd')
        BY <1>5, <1>22, <1>23, <1>24
    <2>3. resume \in {"java", "allocate"} /\ round \in 0..3 /\ overflow \in BOOLEAN
        BY <1>1 DEF JobOK
    <2>4. QED BY <1>2, <1>7, <1>22, <1>25, <2>1, <2>2, <2>3 DEF JobOK
<1>27. BitsOK'
    <2>1. bits \in SUBSET (Nat \X Nat) /\ bits \subseteq B
        BY <1>1 DEF BitsOK, B
    <2>2. B \in SUBSET (Nat \X Nat)
        <3>1. Forward(M) \in SUBSET (Nat \X Nat)
            <4>1. Fixed(M) \in Nat /\ Fixed(M) <= Top
                BY <1>1, <1>4, FixedFacts
            <4>2. \A a \in AreaStart + 1..Fixed(M) : a \in Cells /\ a \in Nat
                BY <1>5, <4>1 DEF Cells
            <4>3. \A a \in Cells : DOMAIN mem[a].ref \subseteq Nat
                <5> SUFFICES ASSUME NEW a \in Cells PROVE DOMAIN mem[a].ref \subseteq Nat
                    OBVIOUS
                <5>1. DOMAIN mem[a].ref = 1..Len(mem[a].ref) /\ Len(mem[a].ref) \in Nat
                    BY <1>1, CellFacts
                <5>2. QED BY <5>1
            <4>4. QED BY <4>2, <4>3 DEF Forward
        <3>2. QED BY <2>1, <3>1 DEF B
    <2>3. bits' \subseteq B
        BY <1>21
    <2>4. phase' # "roots" /\ phase' \notin Collecting /\ phase \in Collecting
        BY <1>2 DEF Collecting
    <2>5. ASSUME NEW i \in 1..oldEnd', NEW f \in 1..Len(mem'[i].ref),
                 mem'[i].ref[f] > oldEnd', i # root'
          PROVE  <<i, f>> \in bits'
        <3>1. CASE ~reuse
            <4>1. oldEnd' = top
                BY <1>24, <3>1
            <4>2. mem'[i].ref[f] \in 0..top
                BY <1>7, <4>1
            <4>3. QED BY <1>5, <2>5, <4>1, <4>2
        <3>2. CASE reuse
            <4>1. oldEnd' = oldEnd /\ AreaStart = oldEnd /\ ~full
                BY <1>23, <1>24, <3>2
            <4>2. i \in Old /\ i \in 1..oldEnd /\ S(i) = i /\ i \in 1..top
                BY <1>6, <4>1 DEF Old
            <4>3. f \in 1..Len(mem[i].ref) /\ mem'[i].ref[f] = P(mem[i].ref[f])
                BY <1>7, <4>2
            <4>4. mem[i].ref[f] \in 0..Top
                <5>1. i \in Cells
                    BY <1>5, <1>22, <4>2 DEF Cells
                <5>2. QED BY <1>1, <4>3, <5>1, CellFacts
            <4>5. mem[i].ref[f] > oldEnd
                <5>1. SUFFICES ASSUME mem[i].ref[f] <= oldEnd PROVE FALSE
                    BY <1>5, <1>22, <4>4
                <5>2. mem[i].ref[f] \notin M
                    BY <1>4, <1>5, <1>22, <4>1, <4>4, <5>1 DEF Area
                <5>3. mem'[i].ref[f] = mem[i].ref[f]
                    BY <1>5, <4>3, <5>2
                <5>4. QED BY <1>5, <1>22, <2>5, <4>1, <4>4, <5>1, <5>3
            <4>6. <<i, f>> \in bits
                BY <1>1, <2>4, <4>1, <4>2, <4>3, <4>5 DEF BitsOK
            <4>7. <<i, f>> \in B /\ \A l : <<i, f>> # <<root', l>>
                BY <2>1, <2>5, <4>6
            <4>8. QED BY <1>21, <3>2, <4>7
        <3>3. QED BY <3>1, <3>2
    <2>6. bits' \in SUBSET (Nat \X Nat)
        BY <2>2, <2>3
    <2>7. QED BY <2>4, <2>5, <2>6 DEF BitsOK
<1>28. MarkOK'
    BY <1>2 DEF MarkOK, Started, Followed, Found, Collecting
<1>29. \A a \in FromRoot \intersect K : P(a) \in FromRoot'
    <2> SUFFICES ASSUME NEW a \in FromRoot \intersect K,
                        NEW D \in SUBSET (1..top), root' \in D, Closed(D)'
                 PROVE  P(a) \in D
        <3>1. \A a \in FromRoot \intersect K : P(a) \in Cells'
            BY <1>6, <1>10
        <3>2. QED BY <1>10, <3>1 DEF FromRoot, Reached
    <2> DEFINE C == {x \in K : P(x) \in D}
    <2>1. C \in SUBSET Cells /\ root \in C
        BY <1>2, <1>6, <1>12
    <2>2. ASSUME NEW x \in C, NEW y \in Refs(x) PROVE y \in C
        <3>1. x \in Cells /\ x \in K /\ P(x) \in D /\ P(x) \in 1..top /\ S(P(x)) = x
            BY <1>6
        <3>2. PICK f \in 1..Len(mem[x].ref) : mem[x].ref[f] = y
            BY <1>1, <3>1, CellFacts
        <3>3. y \in K /\ y # 0
            <4>1. y # 0
                BY DEF Refs
            <4>2. QED BY <1>7, <3>1, <3>2, <4>1
        <3>4. mem'[P(x)].ref[f] = P(y) /\ f \in 1..Len(mem'[P(x)].ref)
            BY <1>7, <3>1, <3>2
        <3> PICK i \in 1..top : i = P(x)
            BY <3>1
        <3>5. P(y) \in Refs(i)'
            <4>1. P(y) # 0 /\ mem'[P(x)].ref \in Seq(Nat)
                <5>1. P(y) \in 1..top
                    BY <1>6, <3>3
                <5>2. P(x) \in DOMAIN mem' /\ mem'[P(x)] \in Cell_
                    <6>1. Len(mem') = top /\ mem' \in Seq(Cell_)
                        BY <1>7 DEF Top
                    <6>2. QED BY <3>1, <6>1
                <5>3. QED BY <1>5, <5>1, <5>2 DEF Cell_
            <4>2. P(y) \in ToSet(mem'[P(x)].ref)
                BY <3>4, <4>1, ListElements
            <4>3. QED BY <4>1, <4>2 DEF Refs
        <3>6. P(y) \in D
            BY <3>1, <3>5 DEF Closed
        <3>7. QED BY <3>3, <3>6
    <2>3. Closed(C)
        BY <2>2 DEF Closed
    <2> HIDE DEF C
    <2>4. a \in C
        BY <2>1, <2>3 DEF FromRoot, Reached
    <2>5. QED BY <2>4 DEF C
<1>30. FullOK'
    <2>1. full => ToSet(list) \subseteq FromRoot /\ M \subseteq Reached({root} \union ToSet(pending))
        <3> SUFFICES ASSUME full
                     PROVE  /\ ToSet(list) \subseteq FromRoot
                            /\ M \subseteq Reached({root} \union ToSet(pending))
            OBVIOUS
        <3>1. Old = {}
            BY DEF Old, AreaStart
        <3>2. /\ {root} \union Old = {root}
              /\ {root} \union Old \union ToSet(pending) = {root} \union ToSet(pending)
            BY <3>1
        <3>3. FromOld = FromRoot /\ FromAll = Reached({root} \union ToSet(pending))
            BY <3>2 DEF FromOld, FromRoot, FromAll
        <3>4. ToSet(list) \intersect Area \subseteq FromRoot
            BY <1>1, <1>2, <3>3 DEF MarkOK, Found
        <3>5. ToSet(list) \subseteq Area
            BY <1>6, <1>9, <1>12, <3>1
        <3>6. QED BY <1>8, <3>3, <3>4, <3>5
    <2>2. ASSUME wasFull' PROVE ToSet(list') \subseteq FromRoot'
        <3>1. ToSet(list) \subseteq FromRoot \intersect K
            BY <1>2, <1>12, <2>1, <2>2
        <3>2. QED BY <1>18, <1>29, <3>1
    <2>3. ASSUME round' = 3 PROVE wasFull' /\ pending' = <<>> /\ Cells' \subseteq FromRoot'
        <3>1. round = 3 /\ phase \in Collecting
            BY <1>2, <2>3 DEF Collecting
        <3>2. full /\ pending = <<>>
            BY <1>1, <3>1 DEF FullOK
        <3>3. ToSet(pending) = {} /\ Old = {}
            BY <3>2 DEF ToSet, Old, AreaStart
        <3>4. M \subseteq FromRoot
            <4>1. {root} \union ToSet(pending) = {root}
                BY <3>3
            <4>2. QED BY <2>1, <3>2, <4>1 DEF FromRoot
        <3>5. ASSUME NEW i \in 1..top PROVE i \in FromRoot'
            <4>1. S(i) \in K /\ P(S(i)) = i
                BY <1>6
            <4>2. S(i) \in FromRoot
                BY <3>3, <3>4, <4>1 DEF K, Kept
            <4>3. QED BY <1>29, <4>1, <4>2
        <3>6. pending' = <<>>
            <4>1. Len(pending) = 0
                BY <3>2
            <4>2. Len(pending') = 0 /\ pending' \in Seq(Nat \ {0})
                BY <1>16, <4>1
            <4>3. QED BY <4>2
        <3>7. QED BY <1>2, <1>10, <3>2, <3>5, <3>6
    <2>4. phase' \notin Collecting /\ phase' # "out_of_memory"
        BY <1>2 DEF Collecting
    <2>5. QED BY <2>2, <2>3, <2>4 DEF FullOK
<1>31. QED BY <1>14, <1>17, <1>20, <1>26, <1>27, <1>28, <1>30 DEF Inv

-----------------------------------------------------------------------------
(* The invariant holds always, and the properties follow.                  *)

\* The invariant holds at the start.
LEMMA InitInv == Init => Inv
<1> SUFFICES ASSUME Init PROVE Inv
    OBVIOUS
<1> PICK o \in Objects \ Weaks :
        /\ mem = <<Cell(o), [obj |-> Stack,
                             ref |-> [l \in 1..LocalCount |-> IF l = 1 THEN 1 ELSE 0],
                             index |-> 0]>>
        /\ root = 2 /\ oldEnd = 0 /\ youngEnd = Capacity /\ full = TRUE
        /\ bits = {} /\ overflow = FALSE
        /\ table = [i \in 1..Cardinality(Weaks) |-> -1]
        /\ list = <<>> /\ pending = <<>>
        /\ phase = "java" /\ resume = "java" /\ need = 0 /\ round = 0 /\ wasFull = FALSE
    BY DEF Init
<1>1. /\ FieldCount[o] \in Nat /\ LocalCount \in Nat /\ o # Stack
      /\ Stack \notin Weaks /\ o \notin Weaks /\ Capacity \in Nat /\ Capacity >= 2
    BY HeapAssumption
<1>2. /\ Len(mem) = 2 /\ Top = 2 /\ Cells = {1, 2}
      /\ mem[1] = Cell(o)
      /\ mem[2] = [obj |-> Stack, ref |-> [l \in 1..LocalCount |-> IF l = 1 THEN 1 ELSE 0],
                   index |-> 0]
    BY DEF Top, Cells
<1>3. /\ mem[1].obj = o /\ mem[1].index = 0 /\ mem[1].ref \in Seq(Nat)
      /\ Len(mem[1].ref) = FieldCount[o]
      /\ \A f \in 1..Len(mem[1].ref) : mem[1].ref[f] = 0
    <2>1. mem[1].ref = [f \in 1..FieldCount[o] |-> 0] /\ mem[1].obj = o /\ mem[1].index = 0
        BY <1>2 DEF Cell
    <2>2. QED BY <1>1, <2>1
<1>4. /\ mem[2].obj = Stack /\ mem[2].index = 0 /\ mem[2].ref \in Seq(Nat)
      /\ Len(mem[2].ref) = LocalCount
      /\ \A f \in 1..Len(mem[2].ref) : mem[2].ref[f] \in 0..1
    <2>1. /\ mem[2].ref = [l \in 1..LocalCount |-> IF l = 1 THEN 1 ELSE 0]
          /\ mem[2].obj = Stack /\ mem[2].index = 0
        BY <1>2
    <2>2. QED BY <1>1, <2>1
<1>5. Shape
    <2>1. mem[1] \in Cell_
        <3>1. mem[1] = [obj |-> mem[1].obj, ref |-> mem[1].ref, index |-> mem[1].index]
            BY <1>2 DEF Cell
        <3>2. QED BY <1>3, <3>1 DEF Cell_
    <2>2. mem[2] \in Cell_
        <3>1. mem[2] = [obj |-> mem[2].obj, ref |-> mem[2].ref, index |-> mem[2].index]
            BY <1>2
        <3>2. mem[2].obj \in Objects \union {Stack} /\ mem[2].ref \in Seq(Nat) /\ mem[2].index \in Int
            BY <1>4
        <3>3. QED BY <3>1, <3>2 DEF Cell_
    <2>3. mem \in Seq(Cell_)
        <3>1. mem = <<mem[1], mem[2]>>
            BY <1>2
        <3>2. QED BY <2>1, <2>2, <3>1
    <2>4. \A a \in Cells : Len(mem[a].ref) = Size(mem[a].obj)
        BY <1>1, <1>2, <1>3, <1>4 DEF Size
    <2>5. \A a \in Cells : \A f \in 1..Len(mem[a].ref) : mem[a].ref[f] <= Top
        BY <1>2, <1>3, <1>4
    <2>6. \A a, b \in Cells : mem[a].obj = mem[b].obj => a = b
        BY <1>1, <1>2, <1>3, <1>4
    <2>7. QED BY <1>2, <1>4, <2>3, <2>4, <2>5, <2>6 DEF Shape
<1>6. WeakOK
    <2>1. Cardinality(Weaks) \in Nat
        BY HeapAssumption, FS_CardinalityType
    <2>2. table \in [1..Cardinality(Weaks) -> Int] /\ \A i \in DOMAIN table : table[i] = -1
        <3>1. -1 \in Int
            OBVIOUS
        <3>2. QED BY <3>1
    <2>3. \A a \in Cells : mem[a].index = 0 /\ ~IsWeak(a)
        BY <1>1, <1>2, <1>3, <1>4 DEF IsWeak
    <2>4. QED BY <1>2, <2>1, <2>2, <2>3 DEF WeakOK
<1>7. ListOK
    <2>1. Len(list) = 0 /\ Len(pending) = 0 /\ list \in Seq(Nat \ {0}) /\ pending \in Seq(Nat \ {0})
        OBVIOUS
    <2>2. QED BY <2>1 DEF ListOK, Decreasing
<1>8. JobOK
    <2>1. phase \in Phases /\ resume \in {"java", "allocate"} /\ round \in 0..3
        BY DEF Phases
    <2>2. /\ oldEnd \in Nat /\ youngEnd \in Nat
          /\ oldEnd <= Top /\ Top <= youngEnd /\ youngEnd <= Capacity
        BY <1>1, <1>2
    <2>3. QED BY <2>1, <2>2 DEF JobOK
<1>9. BitsOK
    BY <1>1 DEF BitsOK
<1>10. MarkOK
    BY DEF MarkOK, Started, Followed, Found, Collecting
<1>11. FullOK
    BY DEF FullOK, Collecting
<1>12. QED BY <1>5, <1>6, <1>7, <1>8, <1>9, <1>10, <1>11 DEF Inv

\* What the steps of the collector preserve.
LEMMA CollectorKeeps ==
    ASSUME Inv, Collector
    PROVE  Inv'
BY MarkFromRootsKeeps, RescanKeeps, DiscoverFinalizersKeeps, ClearWeakReferencesKeeps,
   CompactKeeps, RunFinalizerKeeps, EnoughKeeps, NotEnoughKeeps, OutOfMemoryKeeps,
   ThrownKeeps DEF Collector

\* A step in which nothing changes.
LEMMA StutterKeeps ==
    ASSUME Inv, UNCHANGED vars
    PROVE  Inv'
<1>1. /\ UNCHANGED <<mem, root, space>>
      /\ UNCHANGED <<mem, root, table, list, oldEnd, youngEnd, full, bits, overflow, pending, phase>>
      /\ UNCHANGED <<resume, need, round, wasFull>>
    BY DEF vars, program, space, marks, job
<1>2. /\ Top' = Top /\ Cells' = Cells /\ AreaStart' = AreaStart /\ Area' = Area
      /\ Old' = Old /\ FromRoot' = FromRoot /\ FromOld' = FromOld /\ FromAll' = FromAll
      /\ MarkedNow' = MarkedNow
      /\ \A a : Refs(a)' = Refs(a)
    BY <1>1, SameHeap DEF MarkedNow
<1>3. Shape' /\ \A a : IsWeak(a)' <=> IsWeak(a)
    BY <1>1, SameHeap DEF Inv, IsWeak
<1>4. WeakOK'
    BY <1>1, <1>2, <1>3 DEF Inv, WeakOK
<1>5. ListOK' /\ JobOK'
    BY <1>1, <1>2 DEF Inv, ListOK, JobOK
<1>6. BitsOK'
    BY <1>1, <1>2 DEF Inv, BitsOK
<1>7. MarkOK' /\ FullOK'
    BY <1>1, <1>2 DEF Inv, MarkOK, FullOK
<1>8. QED BY <1>3, <1>4, <1>5, <1>6, <1>7 DEF Inv

\* The inductive invariant.
THEOREM AlwaysInv == Spec => []Inv
<1>1. Inv /\ [Next]_vars => Inv'
    BY ProgramKeeps, CollectorKeeps, StutterKeeps DEF Next
<1>2. QED BY InitInv, <1>1, PTL DEF Spec

\* TypeOK: every address in the fields, the variables, the lists and the array
\* of weak references is that of a cell, whatever the collector has moved.
THEOREM AlwaysTypeOK == Spec => []TypeOK
<1>1. ASSUME Inv PROVE TypeOK
    <2>1. Shape /\ WeakOK /\ ListOK /\ JobOK
        BY <1>1 DEF Inv
    <2>2. Top \in Nat /\ Cells = 1..Top
        BY <2>1, HeapFacts DEF Cells
    <2>3. Cardinality(Weaks) \in Nat /\ Len(table) = Cardinality(Weaks)
        BY <2>1, HeapAssumption, FS_CardinalityType DEF WeakOK
    <2>4. ASSUME NEW a \in 1..Top
          PROVE  /\ mem[a].obj \in Objects \union {Stack}
                 /\ Range(mem[a].ref) \subseteq 0..Top
                 /\ mem[a].index \in -1..Len(table)
        <3>1. /\ mem[a].obj \in Objects \union {Stack} /\ mem[a].index \in Int
              /\ \A f \in DOMAIN mem[a].ref : mem[a].ref[f] \in 0..Top
            BY <2>1, <2>2, CellFacts
        <3>2. -1 <= mem[a].index /\ mem[a].index <= Cardinality(Weaks)
            BY <2>1, <2>2 DEF WeakOK
        <3>3. mem[a].index \in -1..Len(table)
            BY <2>3, <3>1, <3>2
        <3>4. QED BY <3>1, <3>3 DEF Range
    <2>5. root \in 1..Top /\ mem[root].obj = Stack
        BY <2>1, <2>2 DEF Shape
    <2>6. Range(table) \subseteq (0..Top) \union {-1}
        <3>1. \A i \in DOMAIN table : table[i] \in Int /\ -1 <= table[i] /\ table[i] <= Top
            BY <2>1 DEF WeakOK
        <3>2. \A i \in DOMAIN table : table[i] \in (0..Top) \union {-1}
            BY <2>2, <3>1
        <3>3. QED BY <3>2 DEF Range
    <2>7. Range(list) \union Range(pending) \subseteq 1..Top
        <3>1. \A i \in 1..Len(list) : list[i] \in Nat \ {0} /\ list[i] <= Top
            BY <2>1 DEF ListOK
        <3>2. \A i \in 1..Len(pending) : pending[i] \in Nat \ {0} /\ pending[i] <= Top
            BY <2>1 DEF ListOK
        <3>3. DOMAIN list = 1..Len(list) /\ DOMAIN pending = 1..Len(pending)
            BY <2>1 DEF ListOK
        <3>4. QED BY <2>2, <3>1, <3>2, <3>3 DEF Range
    <2>8. 0 <= oldEnd /\ oldEnd <= youngEnd /\ Top <= youngEnd /\ youngEnd <= Capacity
        BY <2>1, <2>2, HeapAssumption DEF JobOK
    <2>9. {full, wasFull, overflow} \subseteq BOOLEAN /\ need \in 0..1 /\ round \in 0..3
        BY <2>1 DEF JobOK
    <2>10. QED BY <2>4, <2>5, <2>6, <2>7, <2>8, <2>9 DEF TypeOK
<1>2. QED BY AlwaysInv, <1>1, PTL

\* The sets of cells that the properties speak of, in the words of the invariant.
LEMMA InOtherWords ==
    ASSUME Inv
    PROVE  /\ Range(list) = ToSet(list) /\ Range(pending) = ToSet(pending)
           /\ Closure({root}) = FromRoot
           /\ Closure({root} \union 1..AreaStart) = FromOld
           /\ Closure({root} \union 1..AreaStart \union Range(pending)) = FromAll
<1>1. Shape /\ ListOK /\ JobOK
    BY DEF Inv
<1>2. Range(list) = ToSet(list) /\ Range(pending) = ToSet(pending)
    BY DEF Range, ToSet
<1>3. {root} \in SUBSET Cells /\ 1..AreaStart \in SUBSET Cells
    BY <1>1, HeapFacts DEF Cells
<1>4. ToSet(pending) \in SUBSET Cells
    <2>1. \A i \in 1..Len(pending) : pending[i] \in Cells
        BY <1>1, HeapFacts DEF ListOK, Cells
    <2>2. \A y \in ToSet(pending) : \E i \in 1..Len(pending) : pending[i] = y
        BY <1>1, ListElements DEF ListOK
    <2>3. QED BY <2>1, <2>2
<1>5. QED BY <1>1, <1>2, <1>3, <1>4, ClosureIsReached DEF FromRoot, FromOld, FromAll, Old

\* MarkingExact: the marking before a compaction is exact, over the remembered
\* set and through every overflow of the marking stack.
THEOREM MarkingAlwaysExact == Spec => []MarkingExact
<1>1. ASSUME Inv, phase = "compact" PROVE MarkedNow = Area \intersect FromAll
    <2>1. Shape /\ ListOK /\ JobOK /\ MarkOK
        BY <1>1 DEF Inv
    <2>2. phase \in Started /\ phase \in Followed
        BY <1>1 DEF Started, Followed, Collecting
    <2>3. MarkedNow \in SUBSET Area /\ MarkedNow \subseteq FromAll
        BY <2>1, <2>2 DEF MarkOK, MarkedNow, Marked, Area
    <2>4. Closed(MarkedNow \union Old) /\ MarkedNow \union Old \in SUBSET Cells
        BY <2>1, <2>2, <2>3, ClosedWithOld DEF MarkOK
    <2>5. {root} \union Old \union ToSet(pending) \subseteq MarkedNow \union Old
        <3>1. root \in Area \/ root \in Old
            BY <2>1, HeapFacts DEF Area, Old, Cells
        <3>2. QED BY <2>1, <2>2, <3>1 DEF MarkOK
    <2>6. FromAll \subseteq MarkedNow \union Old
        <3>1. {root} \union Old \union ToSet(pending) \in SUBSET Cells
            BY <2>4, <2>5
        <3>2. QED BY <2>1, <2>4, <2>5, <3>1, ReachedFacts DEF FromAll
    <2>7. Old \intersect Area = {}
        BY <2>1, HeapFacts DEF Old, Area
    <2>8. QED BY <2>3, <2>6, <2>7
<1>2. ASSUME Inv PROVE MarkingExact
    BY <1>1, <1>2, InOtherWords DEF MarkingExact, MarkedNow
<1>3. QED BY AlwaysInv, <1>2, PTL

\* FinalizersFound: those pending are the ones that nothing else keeps alive,
\* however the list and the generations lie.
THEOREM FinalizersAlwaysFound == Spec => []FinalizersFound
<1>1. ASSUME Inv PROVE FinalizersFound
    <2>1. SUFFICES ASSUME phase = "compact"
                   PROVE  /\ ToSet(pending) \intersect FromOld = {}
                          /\ ToSet(list) \intersect Area \subseteq FromOld
        BY <1>1, InOtherWords DEF FinalizersFound
    <2>2. phase \in Found
        BY <2>1 DEF Found
    <2>3. QED BY <1>1, <2>2 DEF Inv, MarkOK
<1>2. QED BY AlwaysInv, <1>1, PTL

\* MemoryServed: when OutOfMemoryError is thrown, everything left in the heap is
\* in the program's reach, and there is no room for one object more.
THEOREM MemoryAlwaysServed == Spec => []MemoryServed
<1>1. ASSUME Inv PROVE MemoryServed
    <2>1. Shape /\ JobOK /\ FullOK /\ Top \in Nat
        BY <1>1, HeapFacts DEF Inv
    <2>2. ASSUME phase = "out_of_memory" PROVE Cardinality(Closure({root})) + need > Capacity
        <3>1. Top = Capacity /\ need = 1
            BY <2>1, <2>2 DEF JobOK
        <3>2. FromRoot = Cells
            <4>1. {root} \in SUBSET Cells
                BY <2>1, HeapFacts
            <4>2. QED BY <2>1, <2>2, <4>1, ReachedFacts DEF FullOK, FromRoot
        <3>3. Cardinality(Cells) = Top
            BY <2>1, FS_Interval DEF Cells
        <3>4. Cardinality(Closure({root})) = Top
            BY <1>1, <3>2, <3>3, InOtherWords
        <3>5. QED BY <2>1, <3>1, <3>4
    <2>3. ASSUME phase = "allocate" PROVE Top + 1 <= youngEnd
        BY <2>1, <2>3 DEF JobOK
    <2>4. QED BY <2>2, <2>3 DEF MemoryServed
<1>2. QED BY AlwaysInv, <1>1, PTL

Objs == Cells \ {root}

JavaOK ==
    /\ \A c \in Cells : \A f \in 1..Len(mem[c].ref) : mem[c].ref[f] # root
    /\ \A i \in DOMAIN table : table[i] # root
    /\ \A c \in ToSet(list) \union ToSet(pending) : IsWeak(c)
    /\ IsInjective(pending) /\ ToSet(list) \intersect ToSet(pending) = {}
    /\ phase \in {"compact", "finalize"} => \A i \in DOMAIN table : table[i] \notin ToSet(pending)
    /\ phase = "finalize" => ToSet(pending) \intersect FromRoot = {}

\* What the Java program sees of a cell.
View ==
    /\ \A a \in Objs : /\ mem[a].obj \in Objects /\ mem[a].obj \in Exists /\ At(mem[a].obj) = a
                       /\ Id(a) = mem[a].obj /\ Id(a) # NoObject
                       /\ Len(mem[a].ref) = FieldCount[mem[a].obj]
    /\ \A o \in Exists : At(o) \in Objs /\ mem[At(o)].obj = o /\ o \in Objects
    /\ 0 \notin Objs /\ Id(0) = NoObject
    /\ \A a \in Cells : \A f \in 1..Len(mem[a].ref) : mem[a].ref[f] \in Objs \union {0}
    /\ \A a \in Cells : RefersTo(a) \in Objs \union {0}
    /\ root \in Cells /\ Len(mem[root].ref) = LocalCount
    /\ ToSet(list) \union ToSet(pending) \subseteq Objs
    /\ unfinalized = {mem[a].obj : a \in ToSet(list) \union ToSet(pending)}

\* The invariant gives what the program sees.
LEMMA Viewed ==
    ASSUME Inv, JavaOK
    PROVE  View
<1>1. Shape /\ WeakOK /\ ListOK /\ JobOK
    BY DEF Inv
<1>2. Top \in Nat /\ root \in Cells /\ mem[root].obj = Stack /\ \A a \in Cells : a # 0
    BY <1>1, HeapFacts DEF Shape, Cells
<1>3. ASSUME NEW a \in Objs
      PROVE  /\ mem[a].obj \in Objects /\ mem[a].obj \in Exists /\ At(mem[a].obj) = a
             /\ Id(a) = mem[a].obj /\ Id(a) # NoObject
             /\ Len(mem[a].ref) = FieldCount[mem[a].obj]
    <2>1. a \in Cells /\ a # root /\ a # 0
        BY <1>2 DEF Objs
    <2>2. mem[a].obj # Stack /\ mem[a].obj \in Objects
        BY <1>1, <1>2, <2>1, CellFacts DEF Shape
    <2>3. At(mem[a].obj) = a
        BY <1>1, <2>1 DEF At, Shape, Cells
    <2>4. NoObject \notin Objects
        BY HeapAssumption
    <2>5. Len(mem[a].ref) = FieldCount[mem[a].obj]
        BY <1>1, <2>1, <2>2 DEF Shape, Size
    <2>6. QED BY <2>1, <2>2, <2>3, <2>4, <2>5 DEF Id, Exists, Cells
<1>4. ASSUME NEW o \in Exists PROVE At(o) \in Objs /\ mem[At(o)].obj = o /\ o \in Objects
    <2>1. PICK a \in Cells : mem[a].obj = o
        BY DEF Exists, Cells
    <2>2. a \in Objs
        BY <1>2, <2>1 DEF Exists, Objs
    <2>3. QED BY <1>3, <2>1, <2>2
<1>5. 0 \notin Objs /\ Id(0) = NoObject
    BY <1>2 DEF Objs, Id
<1>6. \A a \in Cells : \A f \in 1..Len(mem[a].ref) : mem[a].ref[f] \in Objs \union {0}
    <2> SUFFICES ASSUME NEW a \in Cells, NEW f \in 1..Len(mem[a].ref)
                 PROVE  mem[a].ref[f] \in Objs \union {0}
        OBVIOUS
    <2>1. mem[a].ref[f] \in 0..Top
        BY <1>1, CellFacts
    <2>2. QED BY <1>2, <2>1 DEF JavaOK, Objs, Cells
<1>7. \A a \in Cells : RefersTo(a) \in Objs \union {0}
    <2> SUFFICES ASSUME NEW a \in Cells, mem[a].index > 0, table[mem[a].index] > 0
                 PROVE  table[mem[a].index] \in Objs
        BY DEF RefersTo
    <2>1. mem[a].index \in DOMAIN table
        BY <1>1, EntryFacts
    <2>2. table[mem[a].index] \in Int /\ table[mem[a].index] <= Top
        BY <1>1, <2>1 DEF WeakOK
    <2>3. QED BY <1>2, <2>1, <2>2 DEF JavaOK, Objs, Cells
<1>8. Len(mem[root].ref) = LocalCount
    BY <1>1, <1>2 DEF Shape, Size
<1>9. ToSet(list) \union ToSet(pending) \subseteq Objs
    <2> SUFFICES ASSUME NEW a \in ToSet(list) \union ToSet(pending) PROVE a \in Objs
        OBVIOUS
    <2>1. /\ \A x \in ToSet(list) : \E i \in 1..Len(list) : list[i] = x
          /\ \A x \in ToSet(pending) : \E i \in 1..Len(pending) : pending[i] = x
        BY <1>1, ListElements DEF ListOK
    <2>2. /\ \A i \in 1..Len(list) : list[i] \in Nat \ {0} /\ list[i] <= Top
          /\ \A i \in 1..Len(pending) : pending[i] \in Nat \ {0} /\ pending[i] <= Top
        BY <1>1 DEF ListOK
    <2>3. a \in Cells
        BY <1>2, <2>1, <2>2 DEF Cells
    <2>4. mem[a].obj # mem[root].obj
        BY <1>2, Parameters DEF JavaOK, IsWeak
    <2>5. QED BY <2>3, <2>4 DEF Objs
<1>10. unfinalized = {mem[a].obj : a \in ToSet(list) \union ToSet(pending)}
    BY DEF unfinalized, Range, ToSet
<1>11. QED BY <1>2, <1>3, <1>4, <1>5, <1>6, <1>7, <1>8, <1>9, <1>10 DEF View

\* Nothing changes for the program while the heap and the weak references stay.
LEMMA ViewUnchanged ==
    ASSUME UNCHANGED <<mem, root, table>>,
           ToSet(list') \union ToSet(pending') = ToSet(list) \union ToSet(pending)
    PROVE  UNCHANGED JavaHeap!vars
<1>1. Exists' = Exists /\ (\A o : At(o)' = At(o)) /\ (\A a : Id(a)' = Id(a))
    BY DEF Exists, At, Id, Top
<1>2. \A w : RefersTo(w)' = RefersTo(w)
    BY DEF RefersTo
<1>3. fields' = fields
    BY <1>1 DEF fields
<1>4. locals' = locals
    BY <1>1 DEF locals
<1>5. referent' = referent
    BY <1>1, <1>2 DEF referent
<1>6. unfinalized' = unfinalized
    BY DEF unfinalized, Range, ToSet
<1>7. QED BY <1>3, <1>4, <1>5, <1>6 DEF JavaHeap!vars

\* What the program can reach.
LEMMA ReachableCells ==
    ASSUME Inv, JavaOK, NEW o \in JavaHeap!Reachable
    PROVE  o \in Exists /\ At(o) \in FromRoot
<1>1. Shape /\ JobOK /\ View
    BY Viewed DEF Inv
<1> DEFINE X == {mem[a].obj : a \in FromRoot \intersect Objs}
<1>2. root \in FromRoot /\ Closed(FromRoot) /\ FromRoot \subseteq Cells
    <2>1. {root} \in SUBSET Cells
        BY <1>1, HeapFacts
    <2>2. QED BY <1>1, <2>1, ReachedFacts DEF FromRoot
<1>3. X \in SUBSET Exists
    BY <1>1 DEF View
<1>4. \A a \in FromRoot : \A f \in 1..Len(mem[a].ref) : Id(mem[a].ref[f]) \in X \union {NoObject}
    <2> SUFFICES ASSUME NEW a \in FromRoot, NEW f \in 1..Len(mem[a].ref), mem[a].ref[f] # 0
                 PROVE  Id(mem[a].ref[f]) \in X
        BY <1>1 DEF View
    <2>1. mem[a].ref[f] \in Refs(a) /\ a \in Cells
        BY <1>1, <1>2, CellFacts
    <2>2. mem[a].ref[f] \in FromRoot \intersect Objs
        BY <1>1, <1>2, <2>1 DEF View, Closed
    <2>3. QED BY <1>1, <2>2 DEF View
<1>5. JavaHeap!Held \subseteq X
    <2> SUFFICES ASSUME NEW l \in 1..LocalCount, locals[l] # NoObject PROVE locals[l] \in X
        BY DEF JavaHeap!Held, JavaHeap!Range, locals
    <2>1. locals[l] = Id(mem[root].ref[l]) /\ l \in 1..Len(mem[root].ref)
        BY <1>1 DEF locals, View
    <2>2. QED BY <1>2, <1>4, <2>1
<1>6. ASSUME NEW p \in X PROVE JavaHeap!Range(fields[p]) \subseteq X \union {NoObject}
    <2>1. PICK a \in FromRoot \intersect Objs : p = mem[a].obj
        OBVIOUS
    <2>2. p \in Exists /\ At(p) = a /\ Len(mem[a].ref) = FieldCount[p]
        BY <1>1, <2>1 DEF View
    <2>3. fields[p] = [f \in 1..Len(mem[a].ref) |-> Id(mem[a].ref[f])]
        BY <2>2 DEF fields
    <2> HIDE DEF X
    <2>4. QED BY <1>4, <2>3 DEF JavaHeap!Range
<1>7. DOMAIN fields = Exists
    BY DEF fields
<1>8. o \in X
    <2> HIDE DEF X
    <2>1. QED BY <1>3, <1>5, <1>6, <1>7 DEF JavaHeap!Reachable, JavaHeap!Exists
<1>9. PICK a \in FromRoot \intersect Objs : o = mem[a].obj
    BY <1>8
<1>10. QED BY <1>1, <1>9 DEF View

\* A step that leaves the heap, the weak references and the lists.
LEMMA HeapStays ==
    ASSUME JavaOK, UNCHANGED <<mem, root, table, list, pending>>, phase' \notin {"compact", "finalize"}
    PROVE  JavaOK'
BY DEF JavaOK, IsWeak, Cells, Top

\* A store.
LEMMA FieldJava ==
    ASSUME JavaOK, NEW c \in Cells, NEW f, NEW v, v # root,
           FieldChanged(c, f, v), UNCHANGED <<root, table, list, pending>>,
           phase' \notin {"compact", "finalize"},
           ToSet(list) \union ToSet(pending) \subseteq Cells
    PROVE  JavaOK'
<1>1. /\ Cells' = Cells
      /\ \A a \in Cells : mem'[a].obj = mem[a].obj /\ Len(mem'[a].ref) = Len(mem[a].ref)
      /\ \A a \in Cells : \A g \in 1..Len(mem[a].ref) :
            mem'[a].ref[g] = IF a = c /\ g = f THEN v ELSE mem[a].ref[g]
    BY DEF FieldChanged
<1>2. \A a \in Cells : \A g \in 1..Len(mem'[a].ref) : mem'[a].ref[g] # root
    BY <1>1 DEF JavaOK
<1>3. \A a \in Cells : IsWeak(a)' <=> IsWeak(a)
    BY <1>1 DEF IsWeak
<1>4. QED BY <1>1, <1>2, <1>3 DEF JavaOK

\* An index.
LEMMA IndexJava ==
    ASSUME JavaOK, NEW w, NEW i, IndexChanged(w, i), UNCHANGED <<root, list, pending>>,
           \A j \in DOMAIN table' : table'[j] # root,
           phase' \notin {"compact", "finalize"},
           ToSet(list) \union ToSet(pending) \subseteq Cells
    PROVE  JavaOK'
<1>1. /\ Cells' = Cells
      /\ \A a \in Cells : mem'[a].obj = mem[a].obj /\ mem'[a].ref = mem[a].ref
    BY DEF IndexChanged
<1>2. \A a \in Cells : IsWeak(a)' <=> IsWeak(a)
    BY <1>1 DEF IsWeak
<1>3. QED BY <1>1, <1>2 DEF JavaOK

\* What the program holds is none of the stack.
LEMMA HeldCells ==
    ASSUME Inv, JavaOK
    PROVE  /\ Locals \subseteq Objs /\ InHand \subseteq Locals
           /\ ToSet(list) \union ToSet(pending) \subseteq Cells
           /\ Objs \subseteq Cells /\ root \notin Objs /\ root # 0 /\ root \in Cells
<1>1. View /\ Shape /\ JobOK
    BY Viewed DEF Inv
<1>2. root # 0
    BY <1>1, HeapFacts DEF Cells
<1>3. QED BY <1>1, <1>2 DEF View, Locals, InHand, Objs

\* A store into an object.
LEMMA PutFieldJava ==
    ASSUME Inv, JavaOK, NEW a \in InHand, NEW v \in InHand \union {0}, NEW f \in 1..Len(mem[a].ref),
           PutField(a, f, v)
    PROVE  FieldChanged(a, f, v) /\ JavaOK'
<1>1. Shape /\ JobOK
    BY DEF Inv
<1>2. a \in Cells /\ v \in 0..Top /\ v # root
    <2>1. Top \in Nat
        BY <1>1, HeapFacts
    <2>2. QED BY <2>1, HeldCells DEF Cells
<1>3. /\ mem' = [mem EXCEPT ![a].ref[f] = v] /\ root' = root /\ phase' = "java"
      /\ UNCHANGED <<root, table, list, pending>>
    BY DEF PutField
<1>4. FieldChanged(a, f, v)
    BY <1>1, <1>2, <1>3, FieldSet
<1>5. QED BY <1>2, <1>3, <1>4, HeldCells, FieldJava

\* A store into a variable.
LEMMA SetLocalJava ==
    ASSUME Inv, JavaOK, NEW l \in 1..LocalCount, NEW v \in Objs \union {0}, SetLocal(l, v),
           UNCHANGED <<root, table, list, pending, phase>>, phase = "java"
    PROVE  FieldChanged(root, l, v) /\ JavaOK'
<1>1. Shape /\ JobOK
    BY DEF Inv
<1>2. root \in Cells /\ l \in 1..Len(mem[root].ref)
    BY <1>1, HeapFacts, InHandFacts
<1>3. mem' = [mem EXCEPT ![root].ref[l] = v]
    BY DEF SetLocal
<1>4. v \in 0..Top /\ v # root
    <2>1. Top \in Nat
        BY <1>1, HeapFacts
    <2>2. QED BY <2>1, HeldCells DEF Cells
<1>5. FieldChanged(root, l, v)
    BY <1>1, <1>2, <1>3, <1>4, FieldSet
<1>6. QED BY <1>2, <1>4, <1>5, HeldCells, FieldJava

\* What the variables get is none of the stack.
LEMMA GetJava ==
    ASSUME Inv, JavaOK
    PROVE  /\ \A a \in InHand : \A f \in 1..Len(mem[a].ref) : mem[a].ref[f] \in Objs \union {0}
           /\ \A w \in InHand : IsWeak(w) =>
                 /\ (IF mem[w].index < 0 THEN 0 ELSE table[mem[w].index]) = RefersTo(w)
                 /\ RefersTo(w) \in Objs \union {0}
<1>1. View /\ Shape /\ JobOK /\ WeakOK
    BY Viewed DEF Inv
<1>2. InHand \subseteq Cells
    BY <1>1, InHandFacts
<1>3. ASSUME NEW w \in InHand, IsWeak(w)
      PROVE  (IF mem[w].index < 0 THEN 0 ELSE table[mem[w].index]) = RefersTo(w)
    <2>1. mem[w].index # 0 /\ mem[w].index \in Int /\ w \in Cells
        BY <1>1, <1>2, <1>3, InHandFacts, EntryFacts
    <2>2. CASE mem[w].index < 0
        BY <2>1, <2>2 DEF RefersTo
    <2>3. CASE mem[w].index > 0
        <3>1. table[mem[w].index] \in 0..Top /\ Top \in Nat
            BY <1>1, <2>1, <2>3, EntryFacts, HeapFacts
        <3>2. QED BY <2>1, <2>3, <3>1 DEF RefersTo
    <2>4. QED BY <2>1, <2>2, <2>3
<1>4. QED BY <1>1, <1>2, <1>3 DEF View

\* WeakReference.clear.
LEMMA ClearWeakJava ==
    ASSUME Inv, JavaOK, NEW w \in InHand, ClearWeak(w)
    PROVE  JavaOK'
<1>1. Shape /\ JobOK /\ WeakOK
    BY DEF Inv
<1>2. w \in Cells /\ mem[w].index # 0 /\ GiveUp(w) /\ root' = root /\ phase' = "java"
      /\ UNCHANGED <<root, list, pending>>
    BY <1>1, InHandFacts DEF ClearWeak
<1>3. IndexChanged(w, -1)
    BY <1>1, <1>2, GiveUpKeeps
<1>4. \A j \in DOMAIN table' : table'[j] # root
    <2>1. -1 # root
        <3>1. root \in Cells
            BY HeldCells
        <3>2. QED BY <3>1 DEF Cells
    <2>2. table' = table \/ table' = [table EXCEPT ![mem[w].index] = -1]
        BY <1>2 DEF GiveUp
    <2>3. \A j \in DOMAIN table : table[j] # root
        BY DEF JavaOK
    <2>4. QED BY <2>1, <2>2, <2>3
<1>5. QED BY <1>2, <1>3, <1>4, HeldCells, IndexJava

\* The constructor of a WeakReference.
LEMMA ConstructWeakJava ==
    ASSUME Inv, JavaOK, NEW w \in Locals, NEW v \in InHand \union {0}, ConstructWeak(w, v)
    PROVE  JavaOK'
<1>1. UNCHANGED <<root, list, pending>> /\ phase' = "java"
    BY DEF ConstructWeak
<1>2. PICK k \in Int : Constructed(w, v, k)
    BY ConstructWeakTakes
<1>3. IndexChanged(w, k)
    BY <1>2 DEF Constructed
<1>4. \A j \in DOMAIN table' : table'[j] # root
    <2>1. v # root
        BY HeldCells
    <2>2. table' = table \/ table' = [table EXCEPT ![k] = v]
        BY <1>2 DEF Constructed
    <2>3. \A j \in DOMAIN table : table[j] # root
        BY DEF JavaOK
    <2>4. QED BY <2>1, <2>2, <2>3
<1>5. QED BY <1>1, <1>3, <1>4, HeldCells, IndexJava

\* The list of those with finalizers after an allocation.
LEMMA AllocateLists ==
    ASSUME Shape, JobOK, ListOK, NEW l \in 1..LocalCount, NEW o \in Objects, Allocate(o, l)
    PROVE  /\ ToSet(list') = ToSet(list) \union (IF o \in Weaks THEN {Top + 1} ELSE {})
           /\ UNCHANGED <<root, table, pending>> /\ pending = <<>> /\ ToSet(pending) = {}
           /\ phase' = "java" /\ \A a \in Cells : mem[a].obj # o
<1>1. /\ UNCHANGED <<root, table, pending>> /\ pending = <<>> /\ phase' = "java"
      /\ \A a \in Cells : mem[a].obj # o
    BY DEF Allocate, ListOK, Cells
<1>2. ToSet(pending) = {}
    BY <1>1 DEF ToSet
<1>3. CASE o \in Weaks
    <2> DEFINE h == <<Top + 1>>
    <2>1. h \in Seq(Numbers) /\ ToSet(h) = {Top + 1}
        <3>1. Top \in Nat
            BY HeapFacts
        <3>2. Top + 1 \in Numbers
            BY <3>1 DEF Numbers
        <3>3. QED BY <3>2 DEF ToSet
    <2>2. list \in Seq(Numbers) /\ list' = h \o list
        BY <1>3 DEF ListOK, Numbers, Allocate
    <2> HIDE DEF h
    <2>3. ToSet(list') = ToSet(h) \union ToSet(list)
        BY <2>1, <2>2, ListConcat
    <2>4. QED BY <1>1, <1>2, <1>3, <2>1, <2>3
<1>4. CASE o \notin Weaks
    <2>1. list' = list
        BY <1>4 DEF Allocate
    <2>2. QED BY <1>1, <1>2, <1>4, <2>1
<1>5. QED BY <1>3, <1>4

\* A new object.
LEMMA AllocateJava ==
    ASSUME Inv, JavaOK, NEW l \in 1..LocalCount, NEW o \in Objects, Allocate(o, l)
    PROVE  JavaOK'
<1>1. Shape /\ JobOK /\ ListOK
    BY DEF Inv
<1>2. /\ ToSet(list') = ToSet(list) \union (IF o \in Weaks THEN {Top + 1} ELSE {})
      /\ UNCHANGED <<root, table, pending>> /\ pending = <<>> /\ ToSet(pending) = {}
      /\ phase' = "java"
    BY <1>1, AllocateLists
<1>3. /\ Cells' = Cells \union {Top + 1} /\ Top + 1 \notin Cells
      /\ mem'[Top + 1].obj = o /\ Len(mem'[Top + 1].ref) = Size(o)
      /\ \A f \in 1..Size(o) : mem'[Top + 1].ref[f] = 0
      /\ \A a \in Cells : mem'[a].obj = mem[a].obj /\ Len(mem'[a].ref) = Len(mem[a].ref)
      /\ \A a \in Cells : \A f \in 1..Len(mem[a].ref) :
            mem'[a].ref[f] = IF a = root /\ f = l THEN Top + 1 ELSE mem[a].ref[f]
    BY <1>1, AllocateAdds DEF Allocated
<1>4. root # 0 /\ root # Top + 1 /\ ToSet(list) \subseteq Cells
    BY <1>3, HeldCells
<1>5. \A c \in Cells' : \A f \in 1..Len(mem'[c].ref) : mem'[c].ref[f] # root
    BY <1>3, <1>4 DEF JavaOK
<1>6. \A c \in ToSet(list') : IsWeak(c)'
    <2>1. \A c \in Cells : IsWeak(c)' <=> IsWeak(c)
        BY <1>3 DEF IsWeak
    <2>2. o \in Weaks => mem'[Top + 1].obj \in Weaks
        BY <1>3
    <2>3. QED BY <1>2, <1>4, <2>1, <2>2 DEF JavaOK, IsWeak
<1>7. QED BY <1>2, <1>5, <1>6 DEF JavaOK

\* The finalizers are discovered: none is lost and none found twice.
LEMMA DiscoverFinalizersJava ==
    ASSUME Inv, JavaOK, DiscoverFinalizers
    PROVE  JavaOK' /\ ToSet(list') \union ToSet(pending') = ToSet(list) \union ToSet(pending)
<1>1. Shape /\ WeakOK /\ ListOK /\ JobOK
    BY DEF Inv
<1> DEFINE p == FoldLeft(Sort, [live |-> <<>>, dead |-> <<>>], SubSeq(list, 1, SearchEnd))
           l == p.live \o SubSeq(list, SearchEnd + 1, Len(list))
           d == p.dead
<1>2. /\ phase = "finalizers" /\ list' = l /\ pending' = d
      /\ phase' \in {"rescan_finalizers", "weak"}
      /\ mem' = mem /\ root' = root /\ table' = table
    BY DEF DiscoverFinalizers, Marks, SearchEnd
<1>3. pending = <<>> /\ ToSet(pending) = {}
    BY <1>1, <1>2 DEF ListOK, ToSet
<1>4. /\ IsInjective(d)
      /\ ToSet(l) \union ToSet(d) = ToSet(list)
      /\ \A x \in ToSet(l) \intersect Area : <<x, 0>> \in bits
      /\ \A x \in ToSet(d) : x \in Area /\ <<x, 0>> \notin bits
    <2> HIDE DEF p
    <2>1. p = FoldLeft(Sort, [live |-> <<>>, dead |-> <<>>], SubSeq(list, 1, SearchEnd))
        BY DEF p
    <2>2. QED BY <1>1, <1>3, <2>1, SortedLists
<1> HIDE DEF l, d, p
<1>5. ToSet(l) \intersect ToSet(d) = {}
    BY <1>4
<1>6. \A c \in ToSet(l) \union ToSet(d) : IsWeak(c)
    BY <1>4 DEF JavaOK
<1>7. Cells' = Cells /\ \A c : IsWeak(c)' <=> IsWeak(c)
    BY <1>2 DEF Cells, Top, IsWeak
<1>8. JavaOK'
    BY <1>2, <1>4, <1>5, <1>6, <1>7 DEF JavaOK
<1>9. QED BY <1>2, <1>3, <1>4, <1>8

\* What the collector does to the weak references: those to objects that are out
\* of reach, and that are going to be finalized, are dead.
LEMMA ClearedReferences ==
    ASSUME Inv, ClearWeakReferences
    PROVE  /\ UNCHANGED <<mem, root, list, pending>> /\ phase' = "compact" /\ DOMAIN table' = DOMAIN table
           /\ \A i \in DOMAIN table :
                 /\ \/ table'[i] = table[i]
                    \/ table'[i] = 0 /\ table[i] \notin FromRoot
                 /\ table'[i] \notin ToSet(pending)
<1>1. Shape /\ WeakOK /\ ListOK /\ JobOK /\ BitsOK /\ MarkOK
    BY DEF Inv
<1> DEFINE taken == [Marking EXCEPT !.bits = @ \ {<<a, 0>> : a \in Range(pending)}]
           P == ToSet(pending)
<1>2. /\ phase = "weak" /\ phase' = "compact"
      /\ table' = [i \in DOMAIN table |->
                      IF table[i] > 0 /\ Unmarked(taken, table[i]) THEN 0 ELSE table[i]]
      /\ UNCHANGED <<mem, root, list, pending>>
    BY DEF ClearWeakReferences, Marks
<1>3. taken.bits = bits \ {<<a, 0>> : a \in P}
    BY DEF Marking, Range, ToSet
<1> HIDE DEF taken
<1>4. \A a : Unmarked(taken, a) <=> InArea(a) /\ (<<a, 0>> \notin bits \/ a \in P)
    BY <1>3 DEF Unmarked
<1>5. P \subseteq MarkedNow /\ MarkedNow \subseteq Area /\ P \intersect FromOld = {}
    <2>1. MarkedNow \subseteq Area
        BY DEF MarkedNow, Marked, Area
    <2>2. QED BY <1>1, <1>2, <2>1 DEF MarkOK, Started, Found, Collecting
<1>6. /\ FromRoot \subseteq MarkedNow \union Old /\ FromRoot \subseteq FromOld
    <2>1. \A x \in Old : Refs(x) \intersect Area \subseteq MarkedNow
        BY <1>1, <1>2 DEF MarkOK, Started, Collecting
    <2>2. \A x \in MarkedNow : Refs(x) \intersect Area \subseteq MarkedNow
        BY <1>1, <1>2 DEF MarkOK, Followed
    <2> DEFINE K == MarkedNow \union Old
    <2>3. K \in SUBSET Cells /\ Closed(K)
        BY <1>1, <1>5, <2>1, <2>2, ClosedWithOld
    <2>4. root \in K
        <3>1. root \in Area => root \in MarkedNow
            BY <1>1, <1>2 DEF MarkOK, Started, Collecting
        <3>2. root \in Cells /\ Top \in Nat /\ AreaStart \in Nat
            BY <1>1, HeapFacts
        <3>3. QED BY <3>1, <3>2 DEF Cells, Area, Old
    <2> HIDE DEF K
    <2>5. FromRoot \subseteq K
        BY <2>3, <2>4 DEF FromRoot, Reached
    <2>6. FromRoot \subseteq FromOld
        BY ReachedGrows DEF FromRoot, FromOld
    <2>7. QED BY <2>5, <2>6 DEF K
<1>7. \A i \in DOMAIN table : table[i] \in Int /\ table[i] <= Top
    BY <1>1 DEF WeakOK
<1>8. Top \in Nat /\ AreaStart \in Nat /\ \A a \in 0..Top : InArea(a) <=> a \in Area
    BY <1>1, HeapFacts
<1>9. ASSUME NEW i \in DOMAIN table, table[i] > 0, Unmarked(taken, table[i])
      PROVE  table[i] \notin FromRoot
    <2>1. table[i] \in Area /\ (<<table[i], 0>> \notin bits \/ table[i] \in P)
        BY <1>4, <1>7, <1>8, <1>9
    <2>2. table[i] \notin MarkedNow \/ table[i] \in P
        BY <2>1 DEF MarkedNow, Marked
    <2>3. table[i] \notin Old
        BY <1>8, <2>1 DEF Area, Old
    <2>4. QED BY <1>5, <1>6, <2>2, <2>3
<1>10. ASSUME NEW i \in DOMAIN table, table[i] \in P
       PROVE  table[i] > 0 /\ Unmarked(taken, table[i])
    <2>1. table[i] \in Area
        BY <1>5, <1>10
    <2>2. table[i] \in 0..Top /\ table[i] > 0
        BY <1>8, <2>1 DEF Area
    <2>3. QED BY <1>4, <1>8, <1>10, <2>1, <2>2
<1>11. 0 \notin P
    BY <1>5, <1>8 DEF Area
<1> HIDE DEF P
<1>12. ASSUME NEW i \in DOMAIN table
       PROVE  /\ \/ table'[i] = table[i]
                 \/ table'[i] = 0 /\ table[i] \notin FromRoot
              /\ table'[i] \notin P
    BY <1>2, <1>9, <1>10, <1>11
<1>13. QED BY <1>2, <1>12 DEF P

\* No weak reference to an object that is to be finalized is left.
LEMMA ClearWeakReferencesJava ==
    ASSUME Inv, JavaOK, ClearWeakReferences
    PROVE  JavaOK'
<1>1. /\ mem' = mem /\ root' = root /\ list' = list /\ pending' = pending
      /\ phase' = "compact" /\ DOMAIN table' = DOMAIN table
      /\ \A i \in DOMAIN table : /\ table'[i] = table[i] \/ table'[i] = 0
                                 /\ table'[i] \notin ToSet(pending)
    BY ClearedReferences
<1>2. root # 0
    BY HeldCells
<1>3. Cells' = Cells /\ \A c : IsWeak(c)' <=> IsWeak(c)
    BY <1>1 DEF Cells, Top, IsWeak
<1>4. \A i \in DOMAIN table' : table'[i] # root
    BY <1>1, <1>2 DEF JavaOK
<1>5. QED BY <1>1, <1>3, <1>4 DEF JavaOK

\* What can be reached from the stack, when no reference changes.
LEMMA FromRootStays ==
    ASSUME Cells' = Cells, root' = root, \A a \in Cells : mem'[a].ref = mem[a].ref
    PROVE  FromRoot' = FromRoot
<1>1. \A a \in Cells : Refs(a)' = Refs(a)
    BY DEF Refs
<1>2. \A C \in SUBSET Cells : Closed(C)' <=> Closed(C)
    BY <1>1 DEF Closed
<1>3. QED BY <1>2 DEF FromRoot, Reached

\* The finalizer that runs.
LEMMA FinalizerFacts ==
    ASSUME Inv, JavaOK, RunFinalizer
    PROVE  /\ Head(pending) \in Objs /\ IsWeak(Head(pending))
           /\ Head(pending) \notin FromRoot
           /\ \A i \in DOMAIN table : table[i] # Head(pending)
           /\ ToSet(pending) = {Head(pending)} \union ToSet(pending')
           /\ Head(pending) \notin ToSet(pending') \union ToSet(list)
           /\ IsInjective(pending')
<1>1. Shape /\ WeakOK /\ ListOK /\ JobOK
    BY DEF Inv
<1>2. phase = "finalize" /\ pending # <<>> /\ pending' = Tail(pending) /\ list' = list
    BY DEF RunFinalizer
<1> DEFINE N == Nat \ {0}
<1>3. pending \in Seq(N) /\ IsInjective(pending)
    BY <1>1 DEF ListOK, JavaOK
<1> HIDE DEF N
<1>4. /\ ToSet(pending) = {Head(pending)} \union ToSet(Tail(pending))
      /\ IsInjective(Tail(pending)) /\ Head(pending) \notin ToSet(Tail(pending))
    BY <1>2, <1>3, ListTail
<1>5. Head(pending) \in ToSet(pending)
    BY <1>4
<1>6. View
    BY Viewed
<1>7. QED BY <1>2, <1>4, <1>5, <1>6 DEF View, JavaOK

\* One finalizer runs.
LEMMA RunFinalizerJava ==
    ASSUME Inv, JavaOK, RunFinalizer
    PROVE  JavaOK'
<1>1. Shape /\ WeakOK /\ ListOK /\ JobOK
    BY DEF Inv
<1> DEFINE w == Head(pending)
<1>2. /\ phase = "finalize" /\ root' = root /\ list' = list
      /\ IF mem[w].index = 0
         THEN phase' = "fault" /\ mem' = mem /\ table' = table
         ELSE GiveUp(w) /\ phase' = "finalize"
    BY DEF RunFinalizer
<1>3. /\ w \in Objs
      /\ ToSet(pending) = {w} \union ToSet(pending')
      /\ IsInjective(pending')
    BY FinalizerFacts
<1> HIDE DEF w
<1>4. w \in Cells /\ root # -1 /\ -1 \notin Cells
    BY <1>3, HeldCells DEF Cells
<1>5. /\ \A i \in DOMAIN table : table[i] # root /\ table[i] \notin ToSet(pending)
      /\ \A c \in ToSet(list) \union ToSet(pending) : IsWeak(c)
      /\ ToSet(list) \intersect ToSet(pending) = {}
      /\ ToSet(pending) \intersect FromRoot = {}
      /\ \A c \in Cells : \A f \in 1..Len(mem[c].ref) : mem[c].ref[f] # root
    BY <1>2 DEF JavaOK
<1>6. CASE mem[w].index = 0
    <2>1. phase' = "fault" /\ mem' = mem /\ table' = table
        BY <1>2, <1>6
    <2>2. Cells' = Cells /\ \A c : IsWeak(c)' <=> IsWeak(c)
        BY <2>1 DEF Cells, Top, IsWeak
    <2>3. QED BY <1>2, <1>3, <1>5, <2>1, <2>2 DEF JavaOK
<1>7. CASE mem[w].index # 0
    <2>1. GiveUp(w) /\ phase' = "finalize"
        BY <1>2, <1>7
    <2>2. IndexChanged(w, -1)
        BY <1>1, <1>2, <1>4, <1>7, <2>1, GiveUpKeeps
    <2>3. /\ Cells' = Cells
          /\ \A a \in Cells : mem'[a].obj = mem[a].obj /\ mem'[a].ref = mem[a].ref
        BY <2>2 DEF IndexChanged
    <2>4. FromRoot' = FromRoot
        BY <1>2, <2>3, FromRootStays
    <2>5. \A c \in Cells : IsWeak(c)' <=> IsWeak(c)
        BY <2>3 DEF IsWeak
    <2>6. \A i \in DOMAIN table' : table'[i] # root /\ table'[i] \notin ToSet(pending')
        <3>1. table' = table \/ table' = [table EXCEPT ![mem[w].index] = -1]
            BY <2>1 DEF GiveUp
        <3>2. -1 \notin ToSet(pending)
            BY <1>4, HeldCells
        <3>3. QED BY <1>3, <1>4, <1>5, <3>1, <3>2
    <2>7. ToSet(list) \union ToSet(pending) \subseteq Cells
        BY HeldCells
    <2>8. \A c \in ToSet(list') \union ToSet(pending') : IsWeak(c)'
        BY <1>2, <1>3, <1>5, <2>5, <2>7
    <2>9. ToSet(list') \intersect ToSet(pending') = {} /\ ToSet(pending') \intersect FromRoot' = {}
        BY <1>2, <1>3, <1>5, <2>4
    <2>10. \A c \in Cells' : \A f \in 1..Len(mem'[c].ref) : mem'[c].ref[f] # root'
        BY <1>2, <1>5, <2>3
    <2>11. QED BY <1>2, <1>3, <2>6, <2>8, <2>9, <2>10 DEF JavaOK
<1>8. QED BY <1>6, <1>7

\* No two objects that are kept are put in one place.
LEMMA PlaceOneToOne ==
    ASSUME NEW M, Images(M)
    PROVE  \A a, b \in Kept(M) \union {0, -1} : Place(M, a) = Place(M, b) => a = b
<1>1. /\ \A a \in Kept(M) : Place(M, a) \in 1..NewTop(M) /\ Source(M, Place(M, a)) = a
      /\ Place(M, 0) = 0 /\ Place(M, -1) = -1 /\ NewTop(M) \in Nat
    BY DEF Images
<1>2. \A a \in Kept(M) : Place(M, a) # 0 /\ Place(M, a) # -1
    BY <1>1
<1>3. \A a, b \in Kept(M) : Place(M, a) = Place(M, b) => a = b
    BY <1>1
<1>4. QED BY <1>1, <1>2, <1>3

\* What is marked and what is old refers to nothing else.
LEMMA KeptClosed ==
    ASSUME Inv, phase \in Followed
    PROVE  /\ Kept(MarkedNow) \in SUBSET Cells /\ Closed(Kept(MarkedNow))
           /\ FromRoot \subseteq Kept(MarkedNow)
           /\ root \in Kept(MarkedNow)
<1>1. Shape /\ JobOK /\ MarkOK
    BY DEF Inv
<1>2. phase \in Started
    BY DEF Followed, Started, Collecting
<1>3. MarkedNow \in SUBSET Area
    BY DEF MarkedNow, Marked, Area
<1>4. \A x \in Old : Refs(x) \intersect Area \subseteq MarkedNow
    BY <1>1, <1>2 DEF MarkOK
<1>5. \A x \in MarkedNow : Refs(x) \intersect Area \subseteq MarkedNow
    BY <1>1 DEF MarkOK
<1> DEFINE K == Kept(MarkedNow)
<1>6. K \in SUBSET Cells /\ Closed(K)
    BY <1>1, <1>3, <1>4, <1>5, ClosedWithOld DEF Kept
<1>7. root \in K
    <2>1. root \in Area => root \in MarkedNow
        BY <1>1, <1>2 DEF MarkOK
    <2>2. root \in Cells /\ Top \in Nat /\ AreaStart \in Nat
        BY <1>1, HeapFacts
    <2>3. QED BY <2>1, <2>2 DEF Cells, Area, Old, Kept
<1> HIDE DEF K
<1>8. FromRoot \subseteq K
    BY <1>6, <1>7 DEF FromRoot, Reached
<1>9. QED BY <1>6, <1>7, <1>8 DEF K

\* Nothing more can be reached after the compaction than before.
LEMMA CompactReaches ==
    ASSUME Inv, Compact
    PROVE  FromRoot' \subseteq {Place(MarkedNow, a) : a \in FromRoot}
<1>1. Shape /\ JobOK /\ phase = "compact" /\ phase \in Followed
    BY DEF Inv, Compact, Followed
<1> DEFINE M == MarkedNow
           D == {Place(M, a) : a \in FromRoot}
<1>2. Images(M) /\ Compacted(M)
    BY <1>1, CompactImages, CompactMoves
<1>3. FromRoot \subseteq Kept(M) /\ root \in FromRoot /\ Closed(FromRoot) /\ FromRoot \subseteq Cells
    <2>1. {root} \in SUBSET Cells
        BY <1>1, HeapFacts
    <2>2. QED BY <1>1, <2>1, KeptClosed, ReachedFacts DEF FromRoot
<1> HIDE DEF M
<1>4. /\ \A a \in Kept(M) : Place(M, a) \in 1..NewTop(M) /\ Source(M, Place(M, a)) = a
      /\ Place(M, 0) = 0
    BY <1>2 DEF Images
<1>5. Cells' = 1..NewTop(M)
    BY <1>2 DEF Compacted, Cells
<1>6. D \in SUBSET Cells' /\ root' \in D
    <2>1. root' = Place(M, root)
        BY DEF Compact, M, MarkedNow
    <2>2. QED BY <1>3, <1>4, <1>5, <2>1
<1>7. ASSUME NEW d \in D, NEW y \in Refs(d)' PROVE y \in D
    <2>1. PICK a \in FromRoot : d = Place(M, a)
        OBVIOUS
    <2>2. a \in Kept(M) /\ d \in 1..NewTop(M) /\ Source(M, d) = a /\ a \in Cells
        BY <1>3, <1>4, <2>1
    <2>3. y # 0 /\ y \in ToSet(mem'[d].ref)
        BY DEF Refs
    <2>4. /\ Len(mem'[d].ref) = Len(mem[a].ref)
          /\ \A f \in 1..Len(mem[a].ref) : mem'[d].ref[f] = Place(M, mem[a].ref[f])
        BY <1>2, <2>2 DEF Compacted
    <2>5. mem'[d].ref \in Seq(Nat)
        <3>1. mem' \in Seq(Cell_) /\ d \in 1..Len(mem')
            BY <1>2, <2>2 DEF Compacted, Top
        <3>2. mem'[d] \in Cell_
            BY <3>1
        <3>3. QED BY <3>2 DEF Cell_
    <2>6. PICK f \in 1..Len(mem'[d].ref) : mem'[d].ref[f] = y
        BY <2>3, <2>5, ListElements
    <2>7. y = Place(M, mem[a].ref[f]) /\ f \in 1..Len(mem[a].ref)
        BY <2>4, <2>6
    <2>8. mem[a].ref[f] # 0
        BY <1>4, <2>3, <2>7
    <2>9. mem[a].ref[f] \in Refs(a)
        BY <1>1, <2>2, <2>7, <2>8, CellFacts
    <2>10. mem[a].ref[f] \in FromRoot
        BY <1>3, <2>1, <2>9 DEF Closed
    <2>11. QED BY <2>7, <2>10
<1> HIDE DEF D
<1>8. PICK E : E = D
    OBVIOUS
<1>9. Closed(E)'
    BY <1>7, <1>8 DEF Closed
<1>10. FromRoot' \subseteq E
    BY <1>6, <1>8, <1>9 DEF FromRoot, Reached
<1>11. QED BY <1>8, <1>10 DEF D, M

\* The entries of the array refer to what is kept.
LEMMA TableKept ==
    ASSUME Inv, phase = "compact"
    PROVE  \A i \in DOMAIN table : table[i] \in Kept(MarkedNow) \union {0, -1}
<1>1. Shape /\ WeakOK /\ JobOK /\ MarkOK
    BY DEF Inv
<1>2. \A i \in DOMAIN table : table[i] \in Area => table[i] \in MarkedNow
    BY <1>1 DEF MarkOK
<1>3. \A i \in DOMAIN table : table[i] \in Int /\ -1 <= table[i] /\ table[i] <= Top
    BY <1>1 DEF WeakOK
<1>4. Top \in Nat /\ AreaStart \in Nat
    BY <1>1, HeapFacts
<1>5. ASSUME NEW i \in DOMAIN table PROVE table[i] \in Kept(MarkedNow) \union {0, -1}
    <2>1. table[i] \in {0, -1} \/ table[i] \in Old \/ table[i] \in Area
        BY <1>3, <1>4 DEF Old, Area
    <2>2. QED BY <1>2, <2>1 DEF Kept
<1>6. QED BY <1>5

\* The heap is compacted: different cells stay different.
LEMMA CompactJava ==
    ASSUME Inv, JavaOK, Compact
    PROVE  JavaOK'
<1> DEFINE M == MarkedNow
           K == Kept(M)
           P(a) == Place(M, a)
           S(i) == Source(M, i)
           top == NewTop(M)
<1>1. /\ phase = "compact" /\ phase' = "finalize" /\ root' = P(root)
      /\ table' = [i \in DOMAIN table |-> P(table[i])]
      /\ Shape /\ ListOK /\ JobOK /\ MarkOK
    BY DEF Compact, Inv, MarkedNow
<1>2. /\ Images(M) /\ Compacted(M) /\ ListsMoved(M)
      /\ \A i \in DOMAIN table : table[i] \in K \union {0, -1}
      /\ FromRoot' \subseteq {P(a) : a \in FromRoot}
      /\ FromRoot \subseteq K
    BY <1>1, CompactImages, CompactMoves, CompactLists, TableKept, CompactReaches, KeptClosed DEF Followed
<1>3. \A a, b \in K \union {0, -1} : P(a) = P(b) => a = b
    <2> HIDE DEF M
    <2>1. QED BY <1>2, PlaceOneToOne
<1> HIDE DEF M
<1>4. /\ \A i \in 1..top : S(i) \in K
      /\ \A a \in K : P(a) \in 1..top /\ S(P(a)) = a
      /\ root \in K /\ \A a \in ToSet(list) \union ToSet(pending) : a \in K
      /\ K \subseteq Cells
    BY <1>2 DEF Images
<1>5. /\ Cells' = 1..top
      /\ \A i \in 1..top :
            /\ mem'[i].obj = mem[S(i)].obj
            /\ Len(mem'[i].ref) = Len(mem[S(i)].ref)
            /\ \A f \in 1..Len(mem[S(i)].ref) : /\ mem'[i].ref[f] = P(mem[S(i)].ref[f])
                                                 /\ mem[S(i)].ref[f] \in K \union {0}
    BY <1>2 DEF Compacted, Cells
<1>6. /\ ToSet(list') = {P(a) : a \in ToSet(list)}
      /\ ToSet(pending') = {P(a) : a \in ToSet(pending)}
      /\ Len(pending') = Len(pending)
      /\ \A i \in 1..Len(pending) : pending'[i] = P(pending[i]) /\ pending[i] \in K
      /\ pending' \in Seq(Nat \ {0})
    BY <1>2 DEF ListsMoved
<1> HIDE DEF K, P, S, top
<1>7. \A i \in Cells' : \A f \in 1..Len(mem'[i].ref) : mem'[i].ref[f] # root'
    <2> SUFFICES ASSUME NEW i \in 1..top, NEW f \in 1..Len(mem[S(i)].ref)
                 PROVE  P(mem[S(i)].ref[f]) # P(root)
        BY <1>1, <1>5
    <2>1. mem[S(i)].ref[f] # root
        BY <1>4 DEF JavaOK
    <2>2. QED BY <1>3, <1>4, <1>5, <2>1
<1>8. \A i \in DOMAIN table' : table'[i] # root'
    <2>1. \A i \in DOMAIN table : table[i] # root
        BY DEF JavaOK
    <2>2. QED BY <1>1, <1>2, <1>3, <1>4, <2>1
<1>9. \A c \in ToSet(list') \union ToSet(pending') : IsWeak(c)'
    <2> SUFFICES ASSUME NEW a \in ToSet(list) \union ToSet(pending)
                 PROVE  mem'[P(a)].obj \in Weaks
        BY <1>6 DEF IsWeak
    <2>1. a \in K /\ P(a) \in 1..top /\ S(P(a)) = a
        BY <1>4
    <2>2. mem'[P(a)].obj = mem[a].obj
        BY <1>5, <2>1
    <2>3. QED BY <2>2 DEF JavaOK, IsWeak
<1>10. IsInjective(pending')
    <2>1. pending \in Seq(Nat \ {0}) /\ IsInjective(pending)
        BY <1>1 DEF ListOK, JavaOK
    <2>2. DOMAIN pending' = 1..Len(pending) /\ DOMAIN pending = 1..Len(pending)
        BY <1>6, <2>1
    <2>3. \A i, j \in 1..Len(pending) : pending[i] = pending[j] => i = j
        BY <2>1, <2>2 DEF IsInjective
    <2>4. \A i, j \in 1..Len(pending) : pending'[i] = pending'[j] => i = j
        BY <1>3, <1>6, <2>3
    <2>5. QED BY <2>2, <2>4 DEF IsInjective
<1>11. ToSet(list') \intersect ToSet(pending') = {}
    <2>1. ToSet(list) \intersect ToSet(pending) = {}
        BY DEF JavaOK
    <2>2. QED BY <1>3, <1>4, <1>6, <2>1
<1>12. \A i \in DOMAIN table' : table'[i] \notin ToSet(pending')
    <2>1. \A i \in DOMAIN table : table[i] \notin ToSet(pending)
        BY <1>1 DEF JavaOK
    <2>2. QED BY <1>1, <1>2, <1>3, <1>4, <1>6, <2>1
<1>13. ToSet(pending') \intersect FromRoot' = {}
    <2>1. ToSet(pending) \intersect FromRoot = {}
        <3>1. ToSet(pending) \intersect FromOld = {}
            BY <1>1 DEF MarkOK, Found
        <3>2. FromRoot \subseteq FromOld
            BY ReachedGrows DEF FromRoot, FromOld
        <3>3. QED BY <3>1, <3>2
    <2>2. QED BY <1>2, <1>3, <1>4, <1>6, <2>1
<1>14. QED BY <1>7, <1>8, <1>9, <1>10, <1>11, <1>12, <1>13 DEF JavaOK

\* JavaOK at the start.
LEMMA InitJava == Init => JavaOK
<1> SUFFICES ASSUME Init PROVE JavaOK
    OBVIOUS
<1>1. Inv
    BY InitInv
<1>2. PICK o \in Objects \ Weaks :
          /\ mem = <<Cell(o), [obj |-> Stack, ref |-> [l \in 1..LocalCount |-> IF l = 1 THEN 1 ELSE 0],
                               index |-> 0]>>
          /\ root = 2 /\ list = <<>> /\ pending = <<>> /\ phase = "java"
          /\ table = [i \in 1..Cardinality(Weaks) |-> -1]
    BY DEF Init
<1>3. Cells = {1, 2}
    BY <1>2 DEF Cells, Top
<1>4. /\ mem[1].ref = [f \in 1..FieldCount[o] |-> 0]
      /\ mem[2].ref = [l \in 1..LocalCount |-> IF l = 1 THEN 1 ELSE 0]
    BY <1>2 DEF Cell
<1>5. DOMAIN mem[1].ref = 1..Len(mem[1].ref) /\ DOMAIN mem[2].ref = 1..Len(mem[2].ref)
    <2>1. Shape /\ JobOK /\ 1 \in Cells /\ 2 \in Cells
        BY <1>1, <1>3 DEF Inv
    <2>2. QED BY <2>1, CellFacts
<1>6. \A c \in Cells : \A f \in 1..Len(mem[c].ref) : mem[c].ref[f] # root
    <2>1. ASSUME NEW f \in DOMAIN mem[1].ref PROVE mem[1].ref[f] = 0
        BY <1>4
    <2>2. ASSUME NEW f \in DOMAIN mem[2].ref PROVE mem[2].ref[f] \in {0, 1}
        <3> DEFINE r == mem[2].ref
        <3>1. r = [l \in 1..LocalCount |-> IF l = 1 THEN 1 ELSE 0]
            BY <1>4
        <3> HIDE DEF r
        <3>2. \A g \in DOMAIN r : r[g] \in {0, 1}
            BY <3>1
        <3>3. QED BY <3>2 DEF r
    <2>3. root = 2
        BY <1>2
    <2>4. QED BY <1>3, <1>5, <2>1, <2>2, <2>3
<1>7. \A i \in DOMAIN table : table[i] # root
    BY <1>2
<1>8. ToSet(list) = {} /\ ToSet(pending) = {} /\ IsInjective(pending)
    BY <1>2 DEF ToSet, IsInjective
<1>9. QED BY <1>2, <1>6, <1>7, <1>8 DEF JavaOK

\* A variable is cleared, or gets what the program has.
LEMMA GetJavaKeeps ==
    ASSUME Inv, JavaOK, NEW l \in 1..LocalCount,
           \/ ClearLocal(l)
           \/ \E a \in InHand : \E f \in 1..Len(mem[a].ref) : GetField(l, a, f)
           \/ \E w \in InHand : GetWeak(l, w)
    PROVE  \E v \in Objs \union {0} : FieldChanged(root, l, v) /\ JavaOK'
<1>1. CASE ClearLocal(l)
    BY <1>1, SetLocalJava DEF ClearLocal
<1>2. CASE \E a \in InHand : \E f \in 1..Len(mem[a].ref) : GetField(l, a, f)
    BY <1>2, GetJava, SetLocalJava DEF GetField
<1>3. CASE \E w \in InHand : GetWeak(l, w)
    <2>1. PICK w \in InHand : GetWeak(l, w)
        BY <1>3
    <2>2. SetLocal(l, RefersTo(w)) /\ RefersTo(w) \in Objs \union {0}
        BY <2>1, GetJava DEF GetWeak
    <2>3. phase = "java" /\ UNCHANGED <<root, table, list, pending, phase>>
        BY <2>1 DEF GetWeak
    <2> HIDE DEF RefersTo
    <2>4. QED BY <2>2, <2>3, SetLocalJava
<1>4. QED BY <1>1, <1>2, <1>3

\* The steps that leave everything the program sees.
Quietly ==
    \/ SystemGc \/ AllocationFails \/ MarkFromRoots \/ Rescan \/ Enough \/ NotEnough
    \/ OutOfMemory \/ Thrown

\* They leave the heap, the weak references and the lists.
LEMMA QuietlyStays ==
    ASSUME Inv, Quietly
    PROVE  UNCHANGED <<mem, root, table, list, pending>> /\ phase' \notin {"compact", "finalize"}
<1>1. JobOK
    BY DEF Inv
<1>2. \A isFull, n, r : Collect(isFull, n, r) =>
          UNCHANGED <<mem, root, table, list, pending>> /\ phase' = "roots"
    BY DEF Collect, program
<1>3. CASE SystemGc \/ AllocationFails \/ NotEnough
    BY <1>2, <1>3 DEF SystemGc, AllocationFails, NotEnough
<1>4. CASE MarkFromRoots \/ Rescan
    BY <1>4 DEF MarkFromRoots, Rescan, Marks
<1>5. CASE Enough \/ OutOfMemory \/ Thrown
    BY <1>1, <1>5 DEF Enough, OutOfMemory, Thrown, program, JobOK
<1>6. QED BY <1>3, <1>4, <1>5 DEF Quietly

\* JavaOK is kept by every step.
LEMMA JavaStep ==
    ASSUME Inv, JavaOK, [Next]_vars
    PROVE  JavaOK'
<1>1. CASE Quietly
    BY <1>1, QuietlyStays, HeapStays
<1>2. CASE UNCHANGED vars
    <2>1. UNCHANGED <<mem, root, table, list, pending, phase>>
        BY <1>2 DEF vars, program
    <2>2. QED BY <2>1 DEF JavaOK, IsWeak, Cells, Top, FromRoot, Reached, Closed, Refs
<1>3. CASE Program /\ ~Quietly
    BY <1>3, AllocateJava, GetJavaKeeps, PutFieldJava, ConstructWeakJava, ClearWeakJava
       DEF Program, Quietly
<1>4. CASE Collector /\ ~Quietly
    BY <1>4, DiscoverFinalizersJava, ClearWeakReferencesJava, CompactJava, RunFinalizerJava
       DEF Collector, Quietly
<1>5. QED BY <1>1, <1>2, <1>3, <1>4 DEF Next

\* What the program sees, cell by cell.
ObjectsSeen ==
    /\ root \in Cells /\ root \notin Objs /\ 0 \notin Objs /\ Objs \subseteq Cells /\ Objs = Cells \ {root}
    /\ Exists = {mem[a].obj : a \in Objs} /\ NoObject \notin Exists
    /\ \A a \in Objs : /\ mem[a].obj \in Objects /\ Id(a) = mem[a].obj
                       /\ Len(mem[a].ref) = FieldCount[mem[a].obj]
    /\ Id(0) = NoObject
    /\ \A a, b \in Objs : mem[a].obj = mem[b].obj => a = b
    /\ \A a \in Cells : \A f \in 1..Len(mem[a].ref) : mem[a].ref[f] \in Objs \union {0}
    /\ \A a \in Cells : RefersTo(a) \in Objs \union {0}
    /\ ToSet(list) \union ToSet(pending) \subseteq Objs
    /\ Len(mem[root].ref) = LocalCount
FieldsSeen ==
    /\ fields = [o \in Exists |-> [f \in 1..FieldCount[o] |-> fields[o][f]]]
    /\ \A a \in Objs : \A o : mem[a].obj = o =>
          \A f \in 1..FieldCount[o] : \A x : mem[a].ref[f] = x => fields[o][f] = Id(x)
LocalsSeen ==
    /\ locals = [l \in 1..LocalCount |-> locals[l]]
    /\ \A l \in 1..LocalCount : \A x : mem[root].ref[l] = x => locals[l] = Id(x)
ReferentsSeen ==
    /\ referent = [w \in Exists \intersect Weaks |-> referent[w]]
    /\ \A a \in Objs : \A w \in Weaks : mem[a].obj = w =>
          \A x : RefersTo(a) = x => referent[w] = Id(x)
FinalizersSeen ==
    unfinalized = {mem[a].obj : a \in ToSet(list) \union ToSet(pending)}
Seen == ObjectsSeen /\ FieldsSeen /\ LocalsSeen /\ ReferentsSeen /\ FinalizersSeen

\* The invariant gives what the program sees, in these words.
LEMMA IsSeen ==
    ASSUME Inv, JavaOK
    PROVE  Seen
<1>1. View /\ Shape
    BY Viewed DEF Inv
<1>2. root \in Cells /\ root \notin Objs /\ 0 \notin Objs /\ Objs \subseteq Cells /\ Objs = Cells \ {root}
    BY <1>1 DEF View, Objs
<1>3. Exists = {mem[a].obj : a \in Objs} /\ NoObject \notin Exists
    <2>1. \A o \in Exists : \E a \in Objs : o = mem[a].obj
        BY <1>1 DEF View
    <2>2. NoObject \notin Exists
        BY <1>1, HeapAssumption DEF View
    <2>3. QED BY <1>1, <2>1, <2>2 DEF View
<1>4. \A a \in Objs : /\ mem[a].obj \in Objects /\ Id(a) = mem[a].obj
                      /\ Len(mem[a].ref) = FieldCount[mem[a].obj]
                      /\ At(mem[a].obj) = a /\ mem[a].obj \in Exists
    BY <1>1 DEF View
<1>5. \A a, b \in Objs : mem[a].obj = mem[b].obj => a = b
    BY <1>1, <1>2 DEF Shape
<1>6. FieldsSeen
    BY <1>4 DEF fields, FieldsSeen
<1>7. LocalsSeen
    BY DEF locals, LocalsSeen
<1>8. ReferentsSeen
    BY <1>4 DEF referent, ReferentsSeen
<1>9. FinalizersSeen
    BY <1>1 DEF View, FinalizersSeen
<1>10. /\ \A a \in Cells : \A f \in 1..Len(mem[a].ref) : mem[a].ref[f] \in Objs \union {0}
       /\ \A a \in Cells : RefersTo(a) \in Objs \union {0}
       /\ ToSet(list) \union ToSet(pending) \subseteq Objs
       /\ Len(mem[root].ref) = LocalCount /\ Id(0) = NoObject
    BY <1>1 DEF View
<1>11. ObjectsSeen
    BY <1>2, <1>3, <1>4, <1>5, <1>10 DEF ObjectsSeen
<1>12. QED BY <1>6, <1>7, <1>8, <1>9, <1>11 DEF Seen

\* So it does in the next state.
LEMMA IsSeenNext ==
    ASSUME Inv', JavaOK'
    PROVE  Seen'
BY IsSeen, PTL

\* The objects in hand.
LEMMA HeldObjects ==
    ASSUME Inv, JavaOK
    PROVE  /\ JavaHeap!Held = {mem[a].obj : a \in Locals}
           /\ \A a \in InHand : Id(a) \in JavaHeap!Held
           /\ \A a \in InHand \union {0} : /\ Id(a) \in JavaHeap!Held \union {NoObject}
                                          /\ Id(a) \in JavaHeap!Range(locals) \union {NoObject}
<1>1. Seen
    BY IsSeen
<1>2. ASSUME NEW o \in JavaHeap!Held PROVE \E a \in Locals : o = mem[a].obj
    <2>1. PICK l \in 1..LocalCount : locals[l] = o /\ o # NoObject
        BY <1>1 DEF Seen, LocalsSeen, JavaHeap!Held, JavaHeap!Range
    <2> DEFINE x == mem[root].ref[l]
    <2>2. o = Id(x)
        BY <1>1, <2>1 DEF Seen, LocalsSeen
    <2>3. x \in Objs \union {0} /\ x # 0
        BY <1>1, <2>1, <2>2 DEF Seen, ObjectsSeen
    <2>4. x \in Locals
        BY <2>3 DEF Locals
    <2>5. QED BY <1>1, <2>2, <2>3, <2>4 DEF Seen, ObjectsSeen
<1>3. ASSUME NEW a \in Locals PROVE mem[a].obj \in JavaHeap!Held /\ Id(a) = mem[a].obj
    <2>1. PICK l \in 1..LocalCount : mem[root].ref[l] = a /\ a # 0
        BY DEF Locals
    <2>2. a \in Objs
        BY HeldCells
    <2>3. locals[l] = Id(a)
        BY <1>1, <2>1 DEF Seen, LocalsSeen
    <2>4. Id(a) = mem[a].obj /\ mem[a].obj # NoObject
        BY <1>1, <2>2 DEF Seen, ObjectsSeen
    <2>5. locals[l] \in JavaHeap!Range(locals)
        BY <1>1 DEF Seen, LocalsSeen, JavaHeap!Range
    <2>6. QED BY <2>3, <2>4, <2>5 DEF JavaHeap!Held
<1>4. JavaHeap!Held = {mem[a].obj : a \in Locals}
    BY <1>2, <1>3
<1>5. InHand \subseteq Locals /\ Id(0) = NoObject
    BY <1>1, HeldCells DEF Seen, ObjectsSeen
<1>6. JavaHeap!Held \subseteq JavaHeap!Range(locals)
    BY DEF JavaHeap!Held
<1>7. QED BY <1>3, <1>4, <1>5, <1>6

\* After a store the same objects are there, and the same weak references.
FieldSeen ==
    /\ Exists' = Exists /\ Objs' = Objs /\ Cells' = Cells
    /\ \A a \in Objs \union {0} : Id(a)' = Id(a)
    /\ \A a \in Cells : mem'[a].obj = mem[a].obj /\ Len(mem'[a].ref) = Len(mem[a].ref)
    /\ referent' = referent /\ unfinalized' = unfinalized

\* Weak references that refer to the same cells refer to the same objects.
LEMMA SameReferents ==
    ASSUME Seen, ReferentsSeen', Exists' = Exists, Objs' = Objs,
           \A a \in Objs : mem'[a].obj = mem[a].obj,
           \A a \in Objs \union {0} : Id(a)' = Id(a),
           \A a \in Objs : RefersTo(a)' = RefersTo(a)
    PROVE  referent' = referent
<1>1. ObjectsSeen /\ ReferentsSeen
    BY DEF Seen
<1>2. ASSUME NEW w \in Exists \intersect Weaks PROVE referent'[w] = referent[w]
    <2>1. PICK a \in Objs : mem[a].obj = w
        BY <1>1 DEF ObjectsSeen
    <2>2. PICK x : x = RefersTo(a)
        OBVIOUS
    <2>3. x \in Objs \union {0}
        BY <1>1, <2>1, <2>2 DEF ObjectsSeen
    <2>4. referent[w] = Id(x)
        BY <1>1, <2>1, <2>2 DEF ReferentsSeen
    <2>5. RefersTo(a)' = x /\ mem'[a].obj = w /\ a \in Objs'
        BY <2>1, <2>2
    <2>6. referent'[w] = Id(x)'
        BY <2>5 DEF ReferentsSeen
    <2>7. QED BY <2>3, <2>4, <2>6
<1>3. QED BY <1>1, <1>2 DEF ReferentsSeen

\* A store leaves them.
LEMMA FieldIsSeen ==
    ASSUME Seen, Seen', NEW c, NEW f, NEW v,
           FieldChanged(c, f, v), UNCHANGED <<root, table, list, pending>>
    PROVE  FieldSeen
<1>1. /\ Cells' = Cells
      /\ \A a \in Cells : /\ mem'[a].obj = mem[a].obj /\ mem'[a].index = mem[a].index
                          /\ Len(mem'[a].ref) = Len(mem[a].ref)
    BY DEF FieldChanged
<1>2. Objs' = Objs /\ Objs \subseteq Cells
    BY <1>1 DEF Objs
<1>3. ObjectsSeen /\ ObjectsSeen'
    BY DEF Seen
<1>4. Exists' = Exists
    BY <1>1, <1>2, <1>3 DEF ObjectsSeen
<1>5. \A a \in Objs \union {0} : Id(a)' = Id(a)
    BY <1>1, <1>2, <1>3 DEF ObjectsSeen
<1>6. \A a \in Cells : RefersTo(a)' = RefersTo(a)
    BY <1>1 DEF RefersTo
<1>7. referent' = referent
    BY <1>1, <1>2, <1>3, <1>4, <1>5, <1>6, SameReferents DEF Seen
<1>8. unfinalized' = unfinalized
    <2>1. ToSet(list) \union ToSet(pending) \subseteq Cells
        BY <1>2, <1>3 DEF ObjectsSeen
    <2> DEFINE L == ToSet(list) \union ToSet(pending)
    <2>2. /\ unfinalized = {mem[a].obj : a \in L}
          /\ unfinalized' = {mem'[a].obj : a \in L}
        BY DEF Seen, FinalizersSeen
    <2>3. \A a \in L : mem'[a].obj = mem[a].obj
        BY <1>1, <2>1
    <2> HIDE DEF L
    <2>4. QED BY <2>2, <2>3
<1>9. QED BY <1>1, <1>2, <1>4, <1>5, <1>7, <1>8 DEF FieldSeen

\* The fields after a store into one of them.
PutOne(E, C, F, G, o, f, v) ==
    /\ F = [p \in E |-> [g \in 1..C[p] |-> F[p][g]]]
    /\ G = [p \in E |-> [g \in 1..C[p] |-> G[p][g]]]
    /\ o \in E /\ f \in 1..C[o]
    /\ \A p \in E : \A g \in 1..C[p] : G[p][g] = IF p = o /\ g = f THEN v ELSE F[p][g]
Changed(F, o, f, v) == [F EXCEPT ![o][f] = v]

\* Such fields are those of a store.
LEMMA FieldsPut ==
    ASSUME NEW E, NEW C, NEW F, NEW G, NEW o, NEW f, NEW v, PutOne(E, C, F, G, o, f, v)
    PROVE  G = Changed(F, o, f, v)
<1> USE DEF PutOne
<1> DEFINE H == [F EXCEPT ![o][f] = v]
<1>1. H = [F EXCEPT ![o] = [F[o] EXCEPT ![f] = v]]
    OBVIOUS
<1>2. DOMAIN F = E /\ DOMAIN G = E /\ \A p \in E : DOMAIN F[p] = 1..C[p] /\ DOMAIN G[p] = 1..C[p]
    OBVIOUS
<1>3. ASSUME NEW p \in E PROVE G[p] = H[p]
    <2>1. CASE p # o
        <3>1. H[p] = F[p]
            BY <1>1, <2>1
        <3>2. G[p] = [g \in 1..C[p] |-> G[p][g]] /\ F[p] = [g \in 1..C[p] |-> F[p][g]]
            OBVIOUS
        <3>3. \A g \in 1..C[p] : G[p][g] = F[p][g]
            BY <2>1
        <3> HIDE DEF H
        <3>4. G[p] = F[p]
            BY <3>2, <3>3
        <3>5. QED BY <3>1, <3>4
    <2>2. CASE p = o
        <3> DEFINE K == [F[o] EXCEPT ![f] = v]
                   I == [g \in 1..C[o] |-> IF g = f THEN v ELSE F[o][g]]
        <3>1. H[o] = K
            BY <1>1, <1>2
        <3>2. K = I
            BY <1>2
        <3>3. G[o] = I
            <4>1. G[o] = [g \in 1..C[o] |-> G[o][g]]
                OBVIOUS
            <4>2. \A g \in 1..C[o] : G[o][g] = I[g]
                OBVIOUS
            <4>3. QED BY <4>1, <4>2
        <3> HIDE DEF H, K, I
        <3>4. QED BY <2>2, <3>1, <3>2, <3>3
    <2>3. QED BY <2>1, <2>2
<1>4. DOMAIN H = E
    BY <1>2
<1> HIDE DEF H
<1>5. H = [p \in E |-> H[p]]
    <2>1. H = [F EXCEPT ![o][f] = v]
        BY DEF H
    <2>2. QED BY <1>2, <2>1
<1>6. G = [p \in E |-> G[p]]
    OBVIOUS
<1>7. G = H
    BY <1>3, <1>5, <1>6
<1>8. QED BY <1>7 DEF H, Changed

\* The fields and the variables after a store.
LEMMA FieldsAfter ==
    ASSUME Seen, Seen', FieldSeen, NEW c \in Cells, NEW f, NEW v \in Objs \union {0},
           FieldChanged(c, f, v), root' = root
    PROVE  /\ \A p \in Exists : \A g \in 1..FieldCount[p] :
                 fields'[p][g] = IF c \in Objs /\ p = mem[c].obj /\ g = f THEN Id(v) ELSE fields[p][g]
           /\ \A l \in 1..LocalCount : locals'[l] = IF c = root /\ l = f THEN Id(v) ELSE locals[l]
<1>1. /\ ObjectsSeen /\ ObjectsSeen' /\ FieldsSeen /\ FieldsSeen' /\ LocalsSeen /\ LocalsSeen'
    BY DEF Seen
<1>2. /\ Exists' = Exists /\ Objs' = Objs
      /\ \A a \in Objs \union {0} : Id(a)' = Id(a)
      /\ \A a \in Cells : mem'[a].obj = mem[a].obj
    BY DEF FieldSeen
<1>3. /\ \A a \in Cells : \A g \in 1..Len(mem[a].ref) :
            mem'[a].ref[g] = IF a = c /\ g = f THEN v ELSE mem[a].ref[g]
    BY DEF FieldChanged
<1>4. ASSUME NEW p \in Exists, NEW g \in 1..FieldCount[p]
      PROVE  fields'[p][g] = IF c \in Objs /\ p = mem[c].obj /\ g = f THEN Id(v) ELSE fields[p][g]
    <2>1. PICK a \in Objs : mem[a].obj = p
        BY <1>1 DEF ObjectsSeen
    <2>2. a \in Cells /\ g \in 1..Len(mem[a].ref) /\ (c \in Objs /\ p = mem[c].obj <=> a = c)
        BY <1>1, <2>1 DEF ObjectsSeen
    <2>3. PICK x : x = mem[a].ref[g]
        OBVIOUS
    <2>4. PICK y : y = mem'[a].ref[g]
        OBVIOUS
    <2>5. x \in Objs \union {0} /\ y = IF a = c /\ g = f THEN v ELSE x
        BY <1>1, <1>3, <2>2, <2>3, <2>4 DEF ObjectsSeen
    <2>6. fields[p][g] = Id(x)
        BY <1>1, <2>1, <2>3 DEF FieldsSeen
    <2>7. mem'[a].obj = p /\ a \in Objs'
        BY <1>2, <2>1, <2>2
    <2>8. fields'[p][g] = Id(y)'
        BY <1>1, <2>4, <2>7 DEF FieldsSeen
    <2>9. Id(y)' = Id(y)
        BY <1>2, <2>5
    <2>10. QED BY <2>2, <2>5, <2>6, <2>8, <2>9
<1>5. ASSUME NEW l \in 1..LocalCount
      PROVE  locals'[l] = IF c = root /\ l = f THEN Id(v) ELSE locals[l]
    <2>1. root \in Cells /\ l \in 1..Len(mem[root].ref)
        BY <1>1 DEF ObjectsSeen
    <2>2. PICK x : x = mem[root].ref[l]
        OBVIOUS
    <2>3. PICK y : y = mem'[root].ref[l]
        OBVIOUS
    <2>4. x \in Objs \union {0} /\ y = IF root = c /\ l = f THEN v ELSE x
        BY <1>1, <1>3, <2>1, <2>2, <2>3 DEF ObjectsSeen
    <2>5. locals[l] = Id(x)
        BY <1>1, <2>2 DEF LocalsSeen
    <2>6. locals'[l] = Id(y)'
        BY <1>1, <2>3 DEF LocalsSeen
    <2>7. Id(y)' = Id(y)
        BY <1>2, <2>4
    <2>8. QED BY <2>4, <2>5, <2>6, <2>7
<1>6. QED BY <1>4, <1>5

\* A store into an object.
LEMMA PutRefines ==
    ASSUME Inv, JavaOK, Seen', NEW a \in InHand, NEW v \in InHand \union {0}, NEW f \in 1..Len(mem[a].ref),
           PutField(a, f, v)
    PROVE  JavaHeap!Next
<1>1. FieldChanged(a, f, v) /\ UNCHANGED <<root, table, list, pending>>
    BY PutFieldJava DEF PutField
<1>2. Seen /\ a \in Objs /\ a \in Cells /\ v \in Objs \union {0} /\ a # root
    BY IsSeen, HeldCells
<1>3. FieldSeen
    BY <1>1, <1>2, FieldIsSeen
<1>4. /\ \A p \in Exists : \A g \in 1..FieldCount[p] :
            fields'[p][g] = IF a \in Objs /\ p = mem[a].obj /\ g = f THEN Id(v) ELSE fields[p][g]
      /\ \A l \in 1..LocalCount : locals'[l] = IF a = root /\ l = f THEN Id(v) ELSE locals[l]
    BY <1>1, <1>2, <1>3, FieldsAfter
<1> DEFINE o == mem[a].obj
           w == Id(v)
<1>5. /\ o \in JavaHeap!Held /\ o = Id(a)
      /\ w \in JavaHeap!Held \union {NoObject} /\ w \in JavaHeap!Range(locals) \union {NoObject}
    <2>1. Id(a) = o
        BY <1>2 DEF Seen, ObjectsSeen
    <2>2. QED BY <2>1, HeldObjects
<1>6. o \in Exists /\ f \in 1..FieldCount[o]
    BY <1>2 DEF Seen, ObjectsSeen
<1>7. Exists' = Exists /\ UNCHANGED <<referent, unfinalized>>
    BY <1>3 DEF FieldSeen
<1>8. locals' = locals
    <2>1. \A l \in 1..LocalCount : locals'[l] = locals[l]
        BY <1>2, <1>4
    <2>2. LocalsSeen /\ LocalsSeen'
        BY <1>2 DEF Seen
    <2>3. QED BY <2>1, <2>2 DEF LocalsSeen
<1> HIDE DEF o, w
<1>9. fields' = [fields EXCEPT ![o][f] = w]
    <2>1. \A p \in Exists : \A g \in 1..FieldCount[p] :
              fields'[p][g] = IF p = o /\ g = f THEN w ELSE fields[p][g]
        BY <1>2, <1>4 DEF o, w
    <2>2. /\ fields = [p \in Exists |-> [g \in 1..FieldCount[p] |-> fields[p][g]]]
          /\ fields' = [p \in Exists |-> [g \in 1..FieldCount[p] |-> fields'[p][g]]]
        <3>1. FieldsSeen /\ FieldsSeen'
            BY <1>2 DEF Seen
        <3>2. QED BY <1>7, <3>1 DEF FieldsSeen
    <2>3. PICK E, F, G : E = Exists /\ F = fields /\ G = fields'
        OBVIOUS
    <2>4. PICK p, x : p = o /\ x = w
        OBVIOUS
    <2>5. PutOne(E, FieldCount, F, G, p, f, x)
        BY <1>6, <2>1, <2>2, <2>3, <2>4 DEF PutOne
    <2>6. G = Changed(F, p, f, x)
        BY <2>5, FieldsPut
    <2>7. QED BY <2>3, <2>4, <2>6 DEF Changed
<1>10. JavaHeap!Put(o, f, w)
    BY <1>5, <1>7, <1>8, <1>9 DEF JavaHeap!Put
<1>11. QED BY <1>5, <1>6, <1>10 DEF JavaHeap!Next

\* What a variable can get.
Offered == {NoObject} \union (UNION {JavaHeap!Range(fields[o]) : o \in JavaHeap!Held})
                      \union {referent[w] : w \in JavaHeap!Held \intersect Weaks}

\* A variable gets a value.
LEMMA LocalSet ==
    ASSUME Inv, JavaOK, Seen', NEW l \in 1..LocalCount, NEW v \in Objs \union {0},
           FieldChanged(root, l, v), UNCHANGED <<root, table, list, pending>>,
           Id(v) \in Offered
    PROVE  JavaHeap!Next
<1>1. Seen /\ root \in Cells /\ root \notin Objs
    BY IsSeen, HeldCells
<1>2. FieldSeen
    BY <1>1, FieldIsSeen
<1>3. /\ \A p \in Exists : \A g \in 1..FieldCount[p] :
            fields'[p][g] = IF root \in Objs /\ p = mem[root].obj /\ g = l THEN Id(v) ELSE fields[p][g]
      /\ \A k \in 1..LocalCount : locals'[k] = IF root = root /\ k = l THEN Id(v) ELSE locals[k]
    BY <1>1, <1>2, FieldsAfter
<1>4. Exists' = Exists /\ UNCHANGED <<referent, unfinalized>>
    BY <1>2 DEF FieldSeen
<1>5. fields' = fields
    <2>1. \A p \in Exists : \A g \in 1..FieldCount[p] : fields'[p][g] = fields[p][g]
        BY <1>1, <1>3
    <2>2. FieldsSeen /\ FieldsSeen'
        BY <1>1 DEF Seen
    <2> DEFINE F == [p \in Exists |-> [g \in 1..FieldCount[p] |-> fields[p][g]]]
               G == [p \in Exists |-> [g \in 1..FieldCount[p] |-> fields'[p][g]]]
    <2>3. F = G
        BY <2>1
    <2>4. fields = F /\ fields' = G
        BY <1>4, <2>2 DEF FieldsSeen
    <2>5. QED BY <2>3, <2>4
<1>6. locals' = [locals EXCEPT ![l] = Id(v)]
    <2>1. LocalsSeen /\ LocalsSeen'
        BY <1>1 DEF Seen
    <2>2. locals = [k \in 1..LocalCount |-> locals[k]] /\ locals' = [k \in 1..LocalCount |-> locals'[k]]
        BY <2>1 DEF LocalsSeen
    <2>3. \A k \in 1..LocalCount : locals'[k] = IF k = l THEN Id(v) ELSE locals[k]
        BY <1>3
    <2>4. QED BY <2>2, <2>3
<1>7. Id(v) \in Exists \union {NoObject} /\ DOMAIN fields = Exists
    BY <1>1 DEF Seen, ObjectsSeen, FieldsSeen
<1> DEFINE w == Id(v)
<1> HIDE DEF w
<1>8. JavaHeap!Get(l, w)
    BY <1>4, <1>5, <1>6 DEF JavaHeap!Get, Offered, w
<1>9. w \in JavaHeap!Exists \union {NoObject}
    BY <1>7 DEF JavaHeap!Exists, w
<1>10. QED BY <1>8, <1>9 DEF JavaHeap!Next

\* The variables get what the program may have.
LEMMA GetRefines ==
    ASSUME Inv, JavaOK, Seen', NEW l \in 1..LocalCount,
           \/ ClearLocal(l)
           \/ \E a \in InHand : \E f \in 1..Len(mem[a].ref) : GetField(l, a, f)
           \/ \E w \in InHand : GetWeak(l, w)
    PROVE  JavaHeap!Next
<1>1. Seen /\ InHand \subseteq Objs
    BY IsSeen, HeldCells
<1>2. ASSUME NEW v \in Objs \union {0}, SetLocal(l, v), phase = "java",
             UNCHANGED <<root, table, list, pending, phase>>, Id(v) \in Offered
      PROVE  JavaHeap!Next
    <2>1. FieldChanged(root, l, v)
        BY <1>2, SetLocalJava
    <2>2. QED BY <1>2, <2>1, LocalSet
<1>3. CASE ClearLocal(l)
    <2>1. SetLocal(l, 0) /\ phase = "java" /\ UNCHANGED <<root, table, list, pending, phase>>
        BY <1>3 DEF ClearLocal
    <2>2. Id(0) \in Offered
        BY <1>1 DEF Seen, ObjectsSeen, Offered
    <2>3. QED BY <1>2, <2>1, <2>2
<1>4. ASSUME NEW a \in InHand, NEW f \in 1..Len(mem[a].ref), GetField(l, a, f)
      PROVE  JavaHeap!Next
    <2>1. PICK v : v = mem[a].ref[f]
        OBVIOUS
    <2>2. SetLocal(l, v) /\ phase = "java" /\ UNCHANGED <<root, table, list, pending, phase>>
        BY <1>4, <2>1 DEF GetField
    <2>3. v \in Objs \union {0}
        BY <2>1, GetJava
    <2>4. PICK o : o = mem[a].obj
        OBVIOUS
    <2>5. o \in JavaHeap!Held
        BY <2>4, HeldObjects, HeldCells
    <2>6. o \in Exists /\ f \in 1..FieldCount[o] /\ a \in Objs
        BY <1>1, <2>4 DEF Seen, ObjectsSeen
    <2>7. fields[o][f] = Id(v) /\ DOMAIN fields[o] = 1..FieldCount[o]
        <3>1. FieldsSeen
            BY <1>1 DEF Seen
        <3>2. fields[o][f] = Id(v)
            BY <2>1, <2>4, <2>6, <3>1 DEF FieldsSeen
        <3>3. DOMAIN fields[o] = 1..FieldCount[o]
            BY <2>6 DEF fields
        <3>4. QED BY <3>2, <3>3
    <2>8. Id(v) \in JavaHeap!Range(fields[o])
        BY <2>6, <2>7 DEF JavaHeap!Range
    <2>9. Id(v) \in Offered
        BY <2>5, <2>8 DEF Offered
    <2>10. QED BY <1>2, <2>2, <2>3, <2>9
<1>5. ASSUME NEW w \in InHand, GetWeak(l, w)
      PROVE  JavaHeap!Next
    <2>1. PICK v : v = RefersTo(w)
        OBVIOUS
    <2>2. /\ v = IF mem[w].index < 0 THEN 0 ELSE table[mem[w].index]
          /\ v \in Objs \union {0} /\ IsWeak(w)
        BY <1>5, <2>1, GetJava DEF GetWeak
    <2>3. SetLocal(l, v) /\ phase = "java" /\ UNCHANGED <<root, table, list, pending, phase>>
        BY <1>5, <2>2 DEF GetWeak
    <2>4. PICK o : o = mem[w].obj
        OBVIOUS
    <2>5. o \in JavaHeap!Held
        BY <2>4, HeldObjects, HeldCells
    <2>6. o \in Weaks /\ w \in Objs
        BY <1>1, <2>2, <2>4 DEF IsWeak
    <2>7. referent[o] = Id(v)
        BY <1>1, <2>1, <2>4, <2>6 DEF Seen, ReferentsSeen
    <2>8. Id(v) \in Offered
        BY <2>5, <2>6, <2>7 DEF Offered
    <2>9. QED BY <1>2, <2>2, <2>3, <2>8
<1>6. QED BY <1>3, <1>4, <1>5

\* The fields and the variables when no reference in the heap changes.
LEMMA SameReferences ==
    ASSUME Seen, Seen', root' = root, Cells' = Cells,
           \A a \in Cells : mem'[a].obj = mem[a].obj /\ mem'[a].ref = mem[a].ref
    PROVE  /\ Objs' = Objs /\ Exists' = Exists /\ \A a \in Objs \union {0} : Id(a)' = Id(a)
           /\ UNCHANGED <<fields, locals>>
<1>1. ObjectsSeen /\ ObjectsSeen' /\ FieldsSeen /\ FieldsSeen' /\ LocalsSeen /\ LocalsSeen'
    BY DEF Seen
<1>2. Objs' = Objs /\ Objs \subseteq Cells
    BY <1>1 DEF Objs
<1>3. Exists' = Exists
    BY <1>1, <1>2 DEF ObjectsSeen
<1>4. \A a \in Objs \union {0} : Id(a)' = Id(a)
    BY <1>1, <1>2 DEF ObjectsSeen
<1>5. fields' = fields
    <2>1. ASSUME NEW p \in Exists, NEW g \in 1..FieldCount[p] PROVE fields'[p][g] = fields[p][g]
        <3>1. PICK a \in Objs : mem[a].obj = p
            BY <1>1 DEF ObjectsSeen
        <3>2. PICK x : x = mem[a].ref[g]
            OBVIOUS
        <3>3. x \in Objs \union {0} /\ mem'[a].ref[g] = x /\ mem'[a].obj = p /\ a \in Objs'
            BY <1>1, <1>2, <3>1, <3>2 DEF ObjectsSeen
        <3>4. fields[p][g] = Id(x)
            BY <1>1, <3>1, <3>2 DEF FieldsSeen
        <3>5. fields'[p][g] = Id(x)'
            BY <1>1, <3>3 DEF FieldsSeen
        <3>6. QED BY <1>4, <3>3, <3>4, <3>5
    <2> DEFINE F == [p \in Exists |-> [g \in 1..FieldCount[p] |-> fields[p][g]]]
               G == [p \in Exists |-> [g \in 1..FieldCount[p] |-> fields'[p][g]]]
    <2>2. F = G
        BY <2>1
    <2>3. fields = F /\ fields' = G
        BY <1>1, <1>3 DEF FieldsSeen
    <2>4. QED BY <2>2, <2>3
<1>6. locals' = locals
    <2>1. ASSUME NEW l \in 1..LocalCount PROVE locals'[l] = locals[l]
        <3>1. PICK x : x = mem[root].ref[l]
            OBVIOUS
        <3>2. x \in Objs \union {0} /\ mem'[root].ref[l] = x
            BY <1>1, <3>1 DEF ObjectsSeen
        <3>3. locals[l] = Id(x)
            BY <1>1, <3>1 DEF LocalsSeen
        <3>4. locals'[l] = Id(x)'
            BY <1>1, <3>2 DEF LocalsSeen
        <3>5. QED BY <1>4, <3>2, <3>3, <3>4
    <2>2. QED BY <1>1, <2>1 DEF LocalsSeen
<1>7. QED BY <1>2, <1>3, <1>4, <1>5, <1>6

\* A weak reference refers to another cell.
LEMMA IndexIsSeen ==
    ASSUME Seen, Seen', NEW w \in Objs, NEW i, NEW v \in Objs \union {0}, IsWeak(w),
           IndexChanged(w, i), root' = root,
           \A a \in Objs : RefersTo(a)' = IF a = w THEN v ELSE RefersTo(a)
    PROVE  /\ UNCHANGED <<fields, locals>> /\ Exists' = Exists /\ mem[w].obj \in DOMAIN referent
           /\ \A a \in Objs \union {0} : Id(a)' = Id(a)
           /\ referent' = [referent EXCEPT ![mem[w].obj] = Id(v)]
<1>1. /\ Cells' = Cells
      /\ \A a \in Cells : mem'[a].obj = mem[a].obj /\ mem'[a].ref = mem[a].ref
    BY DEF IndexChanged
<1>2. /\ Objs' = Objs /\ Exists' = Exists /\ \A a \in Objs \union {0} : Id(a)' = Id(a)
      /\ UNCHANGED <<fields, locals>>
    BY <1>1, SameReferences
<1>3. ObjectsSeen /\ ReferentsSeen /\ ReferentsSeen'
    BY DEF Seen
<1>4. PICK o, x : o = mem[w].obj /\ x = Id(v)
    OBVIOUS
<1>5. o \in Exists \intersect Weaks
    BY <1>3, <1>4 DEF ObjectsSeen, IsWeak
<1>6. ASSUME NEW p \in Exists \intersect Weaks
      PROVE  referent'[p] = IF p = o THEN x ELSE referent[p]
    <2>1. PICK a \in Objs : mem[a].obj = p
        BY <1>3 DEF ObjectsSeen
    <2>2. p = o <=> a = w
        BY <1>3, <1>4, <2>1 DEF ObjectsSeen
    <2>3. PICK y, z : y = RefersTo(a) /\ z = IF a = w THEN v ELSE y
        OBVIOUS
    <2>4. z \in Objs \union {0} /\ RefersTo(a)' = z
        BY <1>3, <2>1, <2>3 DEF ObjectsSeen
    <2>5. referent[p] = Id(y)
        BY <1>3, <2>1, <2>3 DEF ReferentsSeen
    <2>6. mem'[a].obj = p /\ a \in Objs'
        BY <1>1, <1>2, <1>3, <2>1 DEF ObjectsSeen
    <2>7. referent'[p] = Id(z)'
        BY <2>4, <2>6 , <1>3 DEF ReferentsSeen
    <2>8. QED BY <1>2, <1>4, <2>2, <2>3, <2>4, <2>5, <2>7
<1>7. referent = [p \in Exists \intersect Weaks |-> referent[p]]
    BY <1>3 DEF ReferentsSeen
<1>8. referent' = [p \in Exists \intersect Weaks |-> referent'[p]]
    BY <1>2, <1>3 DEF ReferentsSeen
<1>9. referent' = [referent EXCEPT ![o] = x]
    BY <1>5, <1>6, <1>7, <1>8
<1>10. o \in DOMAIN referent
    BY <1>5, <1>7
<1>11. QED BY <1>2, <1>4, <1>9, <1>10

\* What the weak references refer to once an entry is given back.
LEMMA GiveUpRefers ==
    ASSUME Inv, NEW w \in Cells, mem[w].index # 0, GiveUp(w), root' = root
    PROVE  /\ IndexChanged(w, -1)
           /\ \A a \in Cells : RefersTo(a)' = IF a = w THEN 0 ELSE RefersTo(a)
<1>1. Shape /\ WeakOK /\ JobOK
    BY DEF Inv
<1>2. IndexChanged(w, -1)
    BY <1>1, GiveUpKeeps
<1>3. \A a \in Cells : mem'[a].index = IF a = w THEN -1 ELSE mem[a].index
    BY <1>2 DEF IndexChanged
<1>4. \A a, b \in Cells : mem[a].index > 0 /\ mem[a].index = mem[b].index => a = b
    BY <1>1 DEF WeakOK
<1>5. table' = table \/ table' = [table EXCEPT ![mem[w].index] = -1]
    BY DEF GiveUp
<1>6. ASSUME NEW a \in Cells PROVE RefersTo(a)' = IF a = w THEN 0 ELSE RefersTo(a)
    <2>1. CASE a = w
        BY <1>3, <2>1 DEF RefersTo
    <2>2. CASE a # w
        <3>1. mem'[a].index = mem[a].index
            BY <1>3, <2>2
        <3>2. mem[a].index > 0 => mem[a].index # mem[w].index /\ mem[a].index \in DOMAIN table
            BY <1>1, <1>4, <2>2, EntryFacts
        <3>3. mem[a].index > 0 => table'[mem[a].index] = table[mem[a].index]
            BY <1>5, <3>2
        <3>4. QED BY <2>2, <3>1, <3>3 DEF RefersTo
    <2>3. QED BY <2>1, <2>2
<1>7. QED BY <1>2, <1>6

\* What they refer to once one is constructed.
LEMMA ConstructedRefers ==
    ASSUME Inv, NEW w \in Cells, NEW v \in Nat, NEW k \in Int, Constructed(w, v, k)
    PROVE  /\ IndexChanged(w, k)
           /\ \A a \in Cells : RefersTo(a)' = IF a = w THEN v ELSE RefersTo(a)
<1>1. Shape /\ WeakOK /\ JobOK
    BY DEF Inv
<1>2. /\ IndexChanged(w, k)
      /\ v = 0 => k = -1 /\ table' = table
      /\ v # 0 => /\ k \in DOMAIN table /\ k > 0 /\ table[k] = -1
                  /\ table' = [table EXCEPT ![k] = v]
    BY DEF Constructed
<1>3. \A a \in Cells : mem'[a].index = IF a = w THEN k ELSE mem[a].index
    BY <1>2 DEF IndexChanged
<1>4. ASSUME NEW a \in Cells PROVE RefersTo(a)' = IF a = w THEN v ELSE RefersTo(a)
    <2>1. CASE a = w /\ v = 0
        BY <1>2, <1>3, <2>1 DEF RefersTo
    <2>2. CASE a = w /\ v # 0
        <3>1. mem'[a].index = k /\ table'[k] = v /\ v > 0 /\ k > 0
            BY <1>2, <1>3, <2>2
        <3>2. QED BY <2>2, <3>1 DEF RefersTo
    <2>3. CASE a # w
        <3>1. mem'[a].index = mem[a].index
            BY <1>3, <2>3
        <3>2. mem[a].index > 0 => mem[a].index \in DOMAIN table /\ table[mem[a].index] >= 0
            BY <1>1, EntryFacts DEF WeakOK
        <3>3. mem[a].index > 0 => table'[mem[a].index] = table[mem[a].index]
            BY <1>2, <3>2
        <3>4. QED BY <2>3, <3>1, <3>3 DEF RefersTo
    <2>4. QED BY <2>1, <2>2, <2>3
<1>5. QED BY <1>2, <1>4

\* A WeakReference in hand, or one under construction, gets a referent or none.
LEMMA ReferRefines ==
    ASSUME Inv, JavaOK, Seen', NEW w \in Locals, NEW v \in InHand \union {0}, NEW i, IsWeak(w),
           IndexChanged(w, i), UNCHANGED <<root, list, pending>>,
           \A a \in Cells : RefersTo(a)' = IF a = w THEN v ELSE RefersTo(a)
    PROVE  JavaHeap!Next
<1>1. Seen /\ w \in Objs /\ v \in Objs \union {0} /\ Objs \subseteq Cells
    BY IsSeen, HeldCells
<1>2. PICK o, x : o = mem[w].obj /\ x = Id(v)
    OBVIOUS
<1>3. /\ UNCHANGED <<fields, locals>>
      /\ referent' = [referent EXCEPT ![o] = x]
    BY <1>1, <1>2, IndexIsSeen
<1>4. /\ o \in JavaHeap!Held \intersect Weaks
      /\ x \in JavaHeap!Held \union {NoObject} /\ x \in JavaHeap!Range(locals) \union {NoObject}
    <2>1. JavaHeap!Held = {mem[a].obj : a \in Locals}
        BY HeldObjects
    <2>2. o \in JavaHeap!Held
        BY <1>2, <2>1
    <2>3. x \in JavaHeap!Held \union {NoObject} /\ x \in JavaHeap!Range(locals) \union {NoObject}
        BY <1>2, HeldObjects
    <2>4. QED BY <1>2, <2>2, <2>3 DEF IsWeak
<1>5. unfinalized' = unfinalized
    <2> DEFINE L == ToSet(list) \union ToSet(pending)
    <2>1. L \subseteq Cells
        BY HeldCells
    <2>2. \A a \in L : mem'[a].obj = mem[a].obj
        BY <2>1 DEF IndexChanged
    <2>3. unfinalized = {mem[a].obj : a \in L} /\ unfinalized' = {mem'[a].obj : a \in L}
        BY <1>1 DEF Seen, FinalizersSeen
    <2> HIDE DEF L
    <2>4. QED BY <2>2, <2>3
<1>6. JavaHeap!Refer(o, x)
    BY <1>3, <1>4, <1>5 DEF JavaHeap!Refer
<1>7. QED BY <1>4, <1>6 DEF JavaHeap!Next

\* The constructor of WeakReference is a Refer.
LEMMA ConstructRefines ==
    ASSUME Inv, JavaOK, Seen', NEW w \in Locals, NEW v \in InHand \union {0}, ConstructWeak(w, v)
    PROVE  JavaHeap!Next
<1>1. PICK k \in Int : Constructed(w, v, k)
    BY ConstructWeakTakes
<1>2. w \in Cells /\ v \in Nat
    BY HeldCells DEF Cells
<1>3. UNCHANGED <<root, list, pending>> /\ IsWeak(w)
    BY DEF ConstructWeak, Unconstructed
<1>4. /\ IndexChanged(w, k)
      /\ \A a \in Cells : RefersTo(a)' = IF a = w THEN v ELSE RefersTo(a)
    BY <1>1, <1>2, ConstructedRefers
<1>5. QED BY <1>3, <1>4, ReferRefines

\* WeakReference.clear is a Refer to none.
LEMMA ClearRefines ==
    ASSUME Inv, JavaOK, Seen', NEW w \in InHand, ClearWeak(w)
    PROVE  JavaHeap!Next
<1>1. /\ UNCHANGED <<root, list, pending>> /\ IsWeak(w) /\ GiveUp(w)
      /\ w \in Locals /\ w \in Cells /\ mem[w].index # 0
    <2>1. Shape /\ JobOK
        BY DEF Inv
    <2>2. QED BY <2>1, InHandFacts, HeldCells DEF ClearWeak
<1>2. /\ IndexChanged(w, -1)
      /\ \A a \in Cells : RefersTo(a)' = IF a = w THEN 0 ELSE RefersTo(a)
    BY <1>1, GiveUpRefers
<1>3. 0 \in InHand \union {0}
    OBVIOUS
<1>4. QED BY <1>1, <1>2, <1>3, ReferRefines

\* The finalizer of the first pending WeakReference.
LEMMA FinalizeRefines ==
    ASSUME Inv, JavaOK, Seen', RunFinalizer
    PROVE  JavaHeap!Next
<1>1. Seen /\ Shape /\ WeakOK /\ JobOK
    BY IsSeen DEF Inv
<1>2. PICK h : h = Head(pending)
    OBVIOUS
<1>3. /\ h \in Objs /\ IsWeak(h) /\ h \notin FromRoot
      /\ \A i \in DOMAIN table : table[i] # h
      /\ ToSet(pending) = {h} \union ToSet(pending')
      /\ h \notin ToSet(pending') \union ToSet(list)
    BY <1>2, FinalizerFacts
<1>4. root' = root /\ list' = list /\ h \in Cells
    BY <1>3, HeldCells DEF RunFinalizer
<1>5. \E i : /\ IndexChanged(h, i)
             /\ \A a \in Cells : RefersTo(a)' = IF a = h THEN 0 ELSE RefersTo(a)
    <2>1. CASE mem[h].index = 0
        <3>1. mem' = mem /\ table' = table
            BY <1>2, <2>1 DEF RunFinalizer
        <3>2. IndexChanged(h, 0)
            <4>1. Shape'
                BY <1>1, <1>4, <3>1 DEF Shape, Cells, Top
            <4>2. QED BY <2>1, <3>1, <4>1 DEF IndexChanged, Cells, Top
        <3>3. RefersTo(h) = 0 /\ \A a \in Cells : RefersTo(a)' = RefersTo(a)
            BY <2>1, <3>1 DEF RefersTo
        <3>4. QED BY <3>2, <3>3
    <2>2. CASE mem[h].index # 0
        <3>1. GiveUp(h)
            BY <1>2, <2>2 DEF RunFinalizer
        <3>2. QED BY <1>4, <2>2, <3>1, GiveUpRefers
    <2>3. QED BY <2>1, <2>2
<1>6. PICK i : /\ IndexChanged(h, i)
               /\ \A a \in Cells : RefersTo(a)' = IF a = h THEN 0 ELSE RefersTo(a)
    BY <1>5
<1>7. PICK o : o = mem[h].obj
    OBVIOUS
<1>8. /\ UNCHANGED <<fields, locals>>
      /\ referent' = [referent EXCEPT ![o] = NoObject]
    <2>1. \A a \in Objs : RefersTo(a)' = IF a = h THEN 0 ELSE RefersTo(a)
        BY <1>6, HeldCells
    <2>2. referent' = [referent EXCEPT ![mem[h].obj] = Id(0)] /\ UNCHANGED <<fields, locals>>
        BY <1>1, <1>3, <1>4, <1>6, <2>1, IndexIsSeen
    <2>3. Id(0) = NoObject
        BY <1>1 DEF Seen, ObjectsSeen
    <2>4. QED BY <1>7, <2>2, <2>3
<1>9. ObjectsSeen /\ ReferentsSeen /\ FinalizersSeen /\ FinalizersSeen'
    BY <1>1 DEF Seen
<1>10. o \notin JavaHeap!Reachable
    <2>1. At(o) = h
        BY <1>3, <1>7, Viewed DEF View
    <2>2. QED BY <1>3, <2>1, ReachableCells
<1>11. \A w \in DOMAIN referent : referent[w] # o
    <2> SUFFICES ASSUME NEW w \in Exists \intersect Weaks PROVE referent[w] # o
        BY <1>9 DEF ReferentsSeen
    <2>1. PICK a \in Objs : mem[a].obj = w
        BY <1>9 DEF ObjectsSeen
    <2>2. PICK x : x = RefersTo(a)
        OBVIOUS
    <2>3. referent[w] = Id(x)
        BY <1>9, <2>1, <2>2 DEF ReferentsSeen
    <2>4. x \in Objs \union {0} /\ a \in Cells
        BY <1>9, <2>1, <2>2 DEF ObjectsSeen
    <2>5. x # h
        <3>1. mem[a].index > 0 => mem[a].index \in DOMAIN table
            BY <1>1, <2>4, EntryFacts
        <3>2. h # 0
            BY <1>3, <1>9 DEF ObjectsSeen
        <3>3. QED BY <1>3, <2>2, <3>1, <3>2 DEF RefersTo
    <2>6. QED BY <1>3, <1>7, <1>9, <2>3, <2>4, <2>5 DEF ObjectsSeen
<1>12. o \in unfinalized /\ unfinalized' = unfinalized \ {o}
    <2> DEFINE L == ToSet(list) \union ToSet(pending)
               N == ToSet(list') \union ToSet(pending')
    <2>1. L \subseteq Objs /\ L = N \union {h} /\ h \notin N
        BY <1>3, <1>4, <1>9 DEF ObjectsSeen
    <2>2. unfinalized = {mem[a].obj : a \in L} /\ unfinalized' = {mem'[a].obj : a \in N}
        BY <1>9 DEF FinalizersSeen
    <2> HIDE DEF L, N
    <2>3. \A a \in N : mem'[a].obj = mem[a].obj /\ mem[a].obj # o
        BY <1>3, <1>6, <1>7, <1>9, <2>1 DEF IndexChanged, ObjectsSeen
    <2>4. QED BY <1>7, <2>1, <2>2, <2>3
<1>13. JavaHeap!Finalize(o)
    BY <1>8, <1>10, <1>11, <1>12 DEF JavaHeap!Finalize
<1>14. QED BY <1>12, <1>13 DEF JavaHeap!Next

\* A new object: nothing refers to it but the variable that gets it.
LEMMA NewRefines ==
    ASSUME Inv, JavaOK, Seen', NEW l \in 1..LocalCount, NEW o \in Objects, Allocate(o, l)
    PROVE  JavaHeap!Next
<1>1. Seen /\ Shape /\ WeakOK /\ ListOK /\ JobOK
    BY IsSeen DEF Inv
<1>2. PICK t : t = Top + 1
    OBVIOUS
<1>3. /\ Cells' = Cells \union {t} /\ t \notin Cells
      /\ mem'[t].obj = o /\ mem'[t].index = 0 /\ Len(mem'[t].ref) = Size(o)
      /\ \A f \in 1..Size(o) : mem'[t].ref[f] = 0
      /\ \A a \in Cells : /\ mem'[a].obj = mem[a].obj /\ mem'[a].index = mem[a].index
                           /\ Len(mem'[a].ref) = Len(mem[a].ref)
      /\ \A a \in Cells : \A f \in 1..Len(mem[a].ref) :
            mem'[a].ref[f] = IF a = root /\ f = l THEN t ELSE mem[a].ref[f]
    BY <1>1, <1>2, AllocateAdds DEF Allocated
<1>4. /\ ToSet(list') = ToSet(list) \union (IF o \in Weaks THEN {t} ELSE {})
      /\ UNCHANGED <<root, table, pending>> /\ \A a \in Cells : mem[a].obj # o
    BY <1>1, <1>2, AllocateLists
<1>5. ObjectsSeen /\ ObjectsSeen'
    BY <1>1 DEF Seen
<1>6. Objs' = Objs \union {t} /\ t \notin Objs /\ t # root /\ Objs \subseteq Cells
    BY <1>3, <1>4, <1>5 DEF ObjectsSeen
<1>7. o \notin Exists /\ Exists' = Exists \union {o}
    BY <1>3, <1>4, <1>5, <1>6 DEF ObjectsSeen
<1>8. /\ \A a \in Objs \union {0} : Id(a)' = Id(a)
      /\ Id(t)' = o
    BY <1>3, <1>5, <1>6 DEF ObjectsSeen
<1>9. fields' = [p \in Exists \union {o} |-> IF p = o THEN JavaHeap!Blank(o) ELSE fields[p]]
    <2>1. FieldsSeen /\ FieldsSeen'
        BY <1>1 DEF Seen
    <2>2. ASSUME NEW p \in Exists PROVE fields'[p] = fields[p]
        <3>1. PICK a \in Objs : mem[a].obj = p
            BY <1>5 DEF ObjectsSeen
        <3>2. a \in Cells /\ a # root /\ mem'[a].obj = p /\ a \in Objs' /\ Len(mem[a].ref) = FieldCount[p]
            BY <1>3, <1>5, <1>6, <3>1 DEF ObjectsSeen
        <3>3. ASSUME NEW g \in 1..FieldCount[p] PROVE fields'[p][g] = fields[p][g]
            <4>1. PICK x : x = mem[a].ref[g]
                OBVIOUS
            <4>2. x \in Objs \union {0} /\ mem'[a].ref[g] = x
                BY <1>3, <1>5, <3>2, <4>1 DEF ObjectsSeen
            <4>3. fields[p][g] = Id(x)
                BY <2>1, <3>1, <4>1 DEF FieldsSeen
            <4>4. fields'[p][g] = Id(x)'
                BY <2>1, <3>2, <4>2 DEF FieldsSeen
            <4>5. QED BY <1>8, <4>2, <4>3, <4>4
        <3>4. /\ fields[p] = [g \in 1..FieldCount[p] |-> fields[p][g]]
              /\ fields'[p] = [g \in 1..FieldCount[p] |-> fields'[p][g]]
            BY <1>7, <2>1 DEF FieldsSeen
        <3>5. QED BY <3>3, <3>4
    <2>3. fields'[o] = JavaHeap!Blank(o)
        <3>1. ASSUME NEW g \in 1..FieldCount[o] PROVE fields'[o][g] = NoObject
            <4>1. mem'[t].ref[g] = 0 /\ t \in Objs' /\ mem'[t].obj = o
                BY <1>3, <1>5, <1>6 DEF ObjectsSeen
            <4>2. fields'[o][g] = Id(0)'
                BY <2>1, <4>1 DEF FieldsSeen
            <4>3. QED BY <1>5, <4>2 DEF ObjectsSeen
        <3>2. fields'[o] = [g \in 1..FieldCount[o] |-> fields'[o][g]]
            BY <1>7, <2>1 DEF FieldsSeen
        <3>3. QED BY <3>1, <3>2 DEF JavaHeap!Blank
    <2>4. fields' = [p \in Exists \union {o} |-> fields'[p]]
        BY <1>7, <2>1 DEF FieldsSeen
    <2>5. QED BY <1>7, <2>2, <2>3, <2>4
<1>10. locals' = [locals EXCEPT ![l] = o]
    <2>1. LocalsSeen /\ LocalsSeen'
        BY <1>1 DEF Seen
    <2>2. ASSUME NEW k \in 1..LocalCount PROVE locals'[k] = IF k = l THEN o ELSE locals[k]
        <3>1. PICK x, y : x = mem[root].ref[k] /\ y = IF k = l THEN t ELSE x
            OBVIOUS
        <3>2. x \in Objs \union {0} /\ mem'[root].ref[k] = y
            BY <1>3, <1>5, <3>1 DEF ObjectsSeen
        <3>3. locals[k] = Id(x)
            BY <2>1, <3>1 DEF LocalsSeen
        <3>4. locals'[k] = Id(y)'
            BY <1>4, <2>1, <3>2 DEF LocalsSeen
        <3>5. QED BY <1>8, <3>1, <3>2, <3>3, <3>4
    <2>3. locals = [k \in 1..LocalCount |-> locals[k]] /\ locals' = [k \in 1..LocalCount |-> locals'[k]]
        BY <2>1 DEF LocalsSeen
    <2>4. QED BY <2>2, <2>3
<1>11. referent' = [w \in DOMAIN referent \union ({o} \intersect Weaks) |->
                       IF w = o THEN NoObject ELSE referent[w]]
    <2>1. ReferentsSeen /\ ReferentsSeen'
        BY <1>1 DEF Seen
    <2>2. ASSUME NEW w \in Exists \intersect Weaks PROVE referent'[w] = referent[w]
        <3>1. PICK a \in Objs : mem[a].obj = w
            BY <1>5 DEF ObjectsSeen
        <3>2. PICK x : x = RefersTo(a)
            OBVIOUS
        <3>3. x \in Objs \union {0} /\ a \in Cells
            BY <1>5, <3>1, <3>2 DEF ObjectsSeen
        <3>4. RefersTo(a)' = x /\ mem'[a].obj = w /\ a \in Objs'
            BY <1>3, <1>4, <1>6, <3>1, <3>2, <3>3 DEF RefersTo
        <3>5. referent[w] = Id(x)
            BY <2>1, <3>1, <3>2 DEF ReferentsSeen
        <3>6. referent'[w] = Id(x)'
            BY <2>1, <3>4 DEF ReferentsSeen
        <3>7. QED BY <1>8, <3>3, <3>5, <3>6
    <2>3. ASSUME o \in Weaks PROVE referent'[o] = NoObject
        <3>1. RefersTo(t)' = 0 /\ t \in Objs' /\ mem'[t].obj = o
            BY <1>3, <1>6 DEF RefersTo
        <3>2. referent'[o] = Id(0)'
            BY <2>1, <2>3, <3>1 DEF ReferentsSeen
        <3>3. QED BY <1>5, <3>2 DEF ObjectsSeen
    <2> DEFINE E == Exists \intersect Weaks
               N == {o} \intersect Weaks
    <2>4. DOMAIN referent = E
        BY <2>1 DEF ReferentsSeen
    <2>5. referent' = [w \in E \union N |-> referent'[w]]
        <3>1. Exists' \intersect Weaks = E \union N
            BY <1>7
        <3>2. QED BY <2>1, <3>1 DEF ReferentsSeen
    <2>6. \A w \in E \union N : referent'[w] = IF w = o THEN NoObject ELSE referent[w]
        BY <1>7, <2>2, <2>3
    <2> HIDE DEF E
    <2>7. QED BY <2>4, <2>5, <2>6
<1>12. unfinalized' = unfinalized \union ({o} \intersect Weaks)
    <2> DEFINE L == ToSet(list) \union ToSet(pending)
               N == ToSet(list') \union ToSet(pending')
    <2>1. unfinalized = {mem[a].obj : a \in L} /\ unfinalized' = {mem'[a].obj : a \in N}
        BY <1>1 DEF Seen, FinalizersSeen
    <2>2. L \subseteq Cells /\ N = L \union (IF o \in Weaks THEN {t} ELSE {})
        BY <1>4, HeldCells
    <2> HIDE DEF L, N
    <2>3. QED BY <1>3, <2>1, <2>2
<1>13. DOMAIN fields = Exists
    BY DEF fields
<1>14. JavaHeap!New(o, l)
    BY <1>7, <1>9, <1>10, <1>11, <1>12, <1>13 DEF JavaHeap!New, JavaHeap!Exists
<1>15. QED BY <1>14 DEF JavaHeap!Next

\* The weak references to what is out of reach are cleared.
LEMMA ClearedRefines ==
    ASSUME Inv, JavaOK, Seen', ClearWeakReferences
    PROVE  JavaHeap!Next
<1>1. Seen /\ Shape /\ WeakOK /\ JobOK
    BY IsSeen DEF Inv
<1>2. /\ mem' = mem /\ root' = root /\ list' = list /\ pending' = pending
      /\ \A i \in DOMAIN table : \/ table'[i] = table[i]
                                 \/ table'[i] = 0 /\ table[i] \notin FromRoot
    BY ClearedReferences
<1>3. Cells' = Cells
    BY <1>2 DEF Cells, Top
<1>4. ObjectsSeen /\ ReferentsSeen /\ ReferentsSeen' /\ FinalizersSeen /\ FinalizersSeen'
    BY <1>1 DEF Seen
<1>5. /\ Objs' = Objs /\ Exists' = Exists /\ \A a \in Objs \union {0} : Id(a)' = Id(a)
      /\ UNCHANGED <<fields, locals>>
    BY <1>1, <1>2, <1>3, SameReferences
<1>6. unfinalized' = unfinalized
    BY <1>2, <1>4 DEF FinalizersSeen
<1>7. ASSUME NEW a \in Objs
      PROVE  \/ RefersTo(a)' = RefersTo(a)
             \/ RefersTo(a)' = 0 /\ RefersTo(a) \notin FromRoot
    <2>1. a \in Cells
        BY <1>4 DEF ObjectsSeen
    <2>2. mem[a].index > 0 => mem[a].index \in DOMAIN table
        BY <1>1, <2>1, EntryFacts
    <2>3. QED BY <1>2, <2>2 DEF RefersTo
<1>8. ASSUME NEW w \in Exists \intersect Weaks
      PROVE  \/ referent'[w] = referent[w]
             \/ referent'[w] = NoObject /\ referent[w] \notin JavaHeap!Reachable
    <2>1. PICK a \in Objs : mem[a].obj = w
        BY <1>4 DEF ObjectsSeen
    <2>2. PICK x, y : x = RefersTo(a) /\ y = IF RefersTo(a)' = x THEN x ELSE 0
        OBVIOUS
    <2>3. x \in Objs \union {0} /\ RefersTo(a)' = y /\ y \in {x, 0}
        BY <1>4, <1>7, <2>1, <2>2 DEF ObjectsSeen
    <2>4. referent[w] = Id(x)
        BY <1>4, <2>1, <2>2 DEF ReferentsSeen
    <2>5. a \in Objs' /\ mem'[a].obj = w
        BY <1>2, <1>5, <2>1
    <2>6. referent'[w] = Id(y)'
        BY <1>4, <2>3, <2>5 DEF ReferentsSeen
    <2>7. referent'[w] = Id(y)
        BY <1>5, <2>3, <2>6
    <2>8. CASE y = x
        BY <2>4, <2>7, <2>8
    <2>9. CASE y # x
        <3>1. y = 0 /\ x \notin FromRoot /\ x \in Objs
            BY <1>7, <2>1, <2>2, <2>3, <2>9
        <3>2. referent'[w] = NoObject
            BY <1>4, <2>7, <3>1 DEF ObjectsSeen
        <3>3. PICK o : o = Id(x)
            OBVIOUS
        <3>4. At(o) = x
            BY <3>1, <3>3, Viewed DEF View
        <3>5. o \notin JavaHeap!Reachable
            BY <3>1, <3>4, ReachableCells
        <3>6. QED BY <2>4, <3>2, <3>3, <3>5
    <2>10. QED BY <2>8, <2>9
<1>9. DOMAIN referent = Exists \intersect Weaks /\ DOMAIN referent' = Exists \intersect Weaks
    BY <1>4, <1>5 DEF ReferentsSeen
<1>10. JavaHeap!Clear
    BY <1>5, <1>6, <1>8, <1>9 DEF JavaHeap!Clear
<1>11. QED BY <1>10 DEF JavaHeap!Next

\* Where the compaction leaves what the program sees.
Slid(P, S, K) ==
    /\ K \subseteq Cells /\ root \in K /\ FromRoot \subseteq K
    /\ root' = P[root] /\ DOMAIN table' = DOMAIN table
    /\ \A a \in K : P[a] \in Cells' /\ S[P[a]] = a
    /\ P[0] = 0 /\ P[-1] = -1
    /\ \A i \in Cells' :
          /\ S[i] \in K /\ P[S[i]] = i
          /\ mem'[i].obj = mem[S[i]].obj /\ mem'[i].index = mem[S[i]].index
          /\ Len(mem'[i].ref) = Len(mem[S[i]].ref)
          /\ \A f \in 1..Len(mem[S[i]].ref) : /\ mem[S[i]].ref[f] \in K \union {0}
                                              /\ mem'[i].ref[f] = P[mem[S[i]].ref[f]]
    /\ \A i \in DOMAIN table : table[i] \in K \union {0, -1} /\ table'[i] = P[table[i]]
    /\ ToSet(list) \union ToSet(pending) \subseteq K
    /\ ToSet(list') = {P[a] : a \in ToSet(list)}
    /\ ToSet(pending') = {P[a] : a \in ToSet(pending)}

\* The compaction is such a move.
LEMMA CompactSlides ==
    ASSUME Inv, Compact
    PROVE  \E P, S, K : Slid(P, S, K)
<1> DEFINE M == MarkedNow
           K == Kept(M)
           P == [a \in K \union {0, -1} |-> Place(M, a)]
           S == [i \in 1..NewTop(M) |-> Source(M, i)]
<1>1. /\ phase = "compact" /\ root' = Place(M, root)
      /\ table' = [i \in DOMAIN table |-> Place(M, table[i])]
    BY DEF Compact, MarkedNow
<1>2. /\ Images(M) /\ Compacted(M) /\ ListsMoved(M)
      /\ \A i \in DOMAIN table : table[i] \in K \union {0, -1}
      /\ FromRoot \subseteq K
    BY <1>1, CompactImages, CompactMoves, CompactLists, TableKept, KeptClosed DEF Followed
<1> HIDE DEF M
<1>3. /\ K \subseteq Cells /\ root \in K
      /\ \A i \in 1..NewTop(M) : S[i] = Source(M, i) /\ S[i] \in K /\ P[S[i]] = i
      /\ \A a \in K : P[a] = Place(M, a) /\ P[a] \in 1..NewTop(M) /\ S[P[a]] = a
      /\ P[0] = 0 /\ P[-1] = -1 /\ Place(M, 0) = 0 /\ Place(M, -1) = -1
      /\ ToSet(list) \union ToSet(pending) \subseteq K
    BY <1>2 DEF Images
<1>4. /\ Cells' = 1..NewTop(M)
      /\ \A i \in 1..NewTop(M) :
            /\ mem'[i].obj = mem[Source(M, i)].obj /\ mem'[i].index = mem[Source(M, i)].index
            /\ Len(mem'[i].ref) = Len(mem[Source(M, i)].ref)
            /\ \A f \in 1..Len(mem[Source(M, i)].ref) :
                  /\ mem[Source(M, i)].ref[f] \in K \union {0}
                  /\ mem'[i].ref[f] = Place(M, mem[Source(M, i)].ref[f])
    BY <1>2 DEF Compacted, Cells
<1>5. /\ ToSet(list') = {Place(M, a) : a \in ToSet(list)}
      /\ ToSet(pending') = {Place(M, a) : a \in ToSet(pending)}
    BY <1>2 DEF ListsMoved
<1> HIDE DEF K, P, S
<1>6. /\ ToSet(list') = {P[a] : a \in ToSet(list)}
      /\ ToSet(pending') = {P[a] : a \in ToSet(pending)}
    BY <1>3, <1>5
<1>7. \A i \in DOMAIN table : table'[i] = P[table[i]]
    BY <1>1, <1>2, <1>3
<1>8. \A i \in 1..NewTop(M) : \A f \in 1..Len(mem[S[i]].ref) :
          /\ mem[S[i]].ref[f] \in K \union {0}
          /\ mem'[i].ref[f] = P[mem[S[i]].ref[f]]
    BY <1>3, <1>4
<1>9. \A i \in 1..NewTop(M) :
          /\ mem'[i].obj = mem[S[i]].obj /\ mem'[i].index = mem[S[i]].index
          /\ Len(mem'[i].ref) = Len(mem[S[i]].ref)
    BY <1>3, <1>4
<1>10. root' = P[root] /\ DOMAIN table' = DOMAIN table
    BY <1>1, <1>3
<1>11. Slid(P, S, K)
    BY <1>2, <1>3, <1>4, <1>6, <1>7, <1>8, <1>9, <1>10 DEF Slid
<1>12. QED BY <1>11

\* What is left, cell by cell, has the same names and refers to the same.
SlidSeen(P, S) ==
    /\ \A i \in Objs' : S[i] \in Objs /\ mem'[i].obj = mem[S[i]].obj
    /\ \A i \in Objs' : \A f \in 1..Len(mem[S[i]].ref) :
          \A x : x = mem[S[i]].ref[f] => \A y : y = mem'[i].ref[f] => Id(y)' = Id(x)
    /\ \A l \in 1..LocalCount :
          \A x : x = mem[root].ref[l] => \A y : y = mem'[root'].ref[l] => Id(y)' = Id(x)
    /\ \A i \in Objs' :
          \A x : x = RefersTo(S[i]) => \A y : y = RefersTo(i)' => Id(y)' = Id(x)
    /\ \A o \in JavaHeap!Reachable : o \in Exists'
    /\ unfinalized' = unfinalized /\ unfinalized \subseteq Exists'

\* Such a move leaves what it keeps as the program sees it.
LEMMA SlidIsSeen ==
    ASSUME Inv, JavaOK, Seen', NEW P, NEW S, NEW K, Slid(P, S, K)
    PROVE  SlidSeen(P, S)
<1>1. Seen /\ Shape /\ WeakOK /\ JobOK
    BY IsSeen DEF Inv
<1>2. ObjectsSeen /\ ObjectsSeen'
    BY <1>1 DEF Seen
<1>3. /\ K \subseteq Cells /\ root \in K /\ FromRoot \subseteq K /\ root' = P[root]
      /\ \A a \in K : P[a] \in Cells' /\ S[P[a]] = a
      /\ P[0] = 0 /\ P[-1] = -1
      /\ ToSet(list) \union ToSet(pending) \subseteq K
      /\ ToSet(list') = {P[a] : a \in ToSet(list)}
      /\ ToSet(pending') = {P[a] : a \in ToSet(pending)}
    BY DEF Slid
<1>4. \A i \in Cells' :
          /\ S[i] \in K /\ P[S[i]] = i
          /\ mem'[i].obj = mem[S[i]].obj /\ mem'[i].index = mem[S[i]].index
          /\ Len(mem'[i].ref) = Len(mem[S[i]].ref)
    BY DEF Slid
<1>5. \A i \in Cells' : \A f \in 1..Len(mem[S[i]].ref) :
          /\ mem[S[i]].ref[f] \in K \union {0}
          /\ mem'[i].ref[f] = P[mem[S[i]].ref[f]]
    BY DEF Slid
<1>6. Objs' = Cells' \ {root'} /\ Objs = Cells \ {root} /\ 0 \notin Objs' /\ 0 \notin Objs
    BY <1>2 DEF ObjectsSeen
<1>7. \A i \in Objs' : i \in Cells' /\ S[i] \in Objs /\ S[i] \in K
    BY <1>3, <1>4, <1>6
<1>8. \A a \in K : a \in Objs => P[a] \in Objs'
    BY <1>3, <1>6
<1>9. ASSUME NEW x \in Objs \union {0}, x \in K \union {0}, NEW y, y = P[x]
      PROVE  Id(y)' = Id(x) /\ y \in Objs' \union {0} /\ (x \in Objs => mem'[y].obj = mem[x].obj)
    <2>1. CASE x = 0
        BY <1>2, <1>3, <1>6, <1>9, <2>1 DEF ObjectsSeen
    <2>2. CASE x \in Objs
        <3>1. x \in K /\ y \in Objs' /\ S[y] = x /\ y \in Cells'
            BY <1>3, <1>6, <1>8, <1>9, <2>2
        <3>2. mem'[y].obj = mem[x].obj
            BY <1>4, <3>1
        <3>3. Id(x) = mem[x].obj /\ Id(y)' = mem'[y].obj
            BY <1>2, <2>2, <3>1 DEF ObjectsSeen
        <3>4. QED BY <3>1, <3>2, <3>3
    <2>3. QED BY <2>1, <2>2
<1>10. \A i \in Objs' : S[i] \in Objs /\ mem'[i].obj = mem[S[i]].obj
    BY <1>4, <1>7
<1>11. ASSUME NEW i \in Objs', NEW f \in 1..Len(mem[S[i]].ref), NEW x, x = mem[S[i]].ref[f],
              NEW y, y = mem'[i].ref[f]
       PROVE  Id(y)' = Id(x)
    <2>1. S[i] \in Cells /\ i \in Cells'
        BY <1>6, <1>7
    <2>2. x \in Objs \union {0} /\ x \in K \union {0} /\ y = P[x]
        BY <1>2, <1>5, <1>11, <2>1 DEF ObjectsSeen
    <2>3. QED BY <1>9, <2>2
<1>12. ASSUME NEW l \in 1..LocalCount, NEW x, x = mem[root].ref[l], NEW y, y = mem'[root'].ref[l]
       PROVE  Id(y)' = Id(x)
    <2>1. S[root'] = root /\ root' \in Cells' /\ root \in Cells /\ l \in 1..Len(mem[root].ref)
        BY <1>2, <1>3 DEF ObjectsSeen
    <2>2. x \in Objs \union {0} /\ x \in K \union {0} /\ y = P[x]
        BY <1>2, <1>5, <1>12, <2>1 DEF ObjectsSeen
    <2>3. QED BY <1>9, <2>2
<1>13. ASSUME NEW i \in Objs', NEW x, x = RefersTo(S[i]), NEW y, y = RefersTo(i)'
       PROVE  Id(y)' = Id(x)
    <2>1. S[i] \in Cells /\ i \in Cells'
        BY <1>6, <1>7
    <2>2. x \in Objs \union {0}
        BY <1>2, <1>13, <2>1 DEF ObjectsSeen
    <2>3. PICK j : j = mem[S[i]].index
        OBVIOUS
    <2>4. mem'[i].index = j /\ (j > 0 => j \in DOMAIN table)
        BY <1>1, <1>4, <2>1, <2>3, EntryFacts
    <2>5. j > 0 => table[j] \in K \union {0, -1} /\ table'[j] = P[table[j]]
        BY <2>4 DEF Slid
    <2>6. \A a \in K : a \in Nat /\ a > 0 /\ P[a] \in Nat /\ P[a] > 0
        <3>1. \A a \in Cells : a \in Nat /\ a > 0
            BY DEF Cells
        <3>2. \A a \in Cells' : a \in Nat /\ a > 0
            BY DEF Cells
        <3>3. QED BY <1>3, <3>1, <3>2
    <2>7. CASE j > 0 /\ table[j] > 0
        <3>1. table[j] \in K
            BY <2>5, <2>7
        <3>2. table'[j] > 0 /\ table'[j] = P[table[j]]
            BY <2>5, <2>6, <2>7, <3>1
        <3>3. x = table[j] /\ y = table'[j]
            BY <1>13, <2>3, <2>4, <2>7, <3>2 DEF RefersTo
        <3>4. y = P[x] /\ x \in K \union {0}
            BY <3>1, <3>2, <3>3
        <3>5. QED BY <1>9, <2>2, <3>4
    <2>8. CASE ~(j > 0 /\ table[j] > 0)
        <3>1. j > 0 => ~(table'[j] > 0)
            <4>1. j > 0 => table[j] \in {0, -1}
                BY <2>5, <2>6, <2>8
            <4>2. QED BY <1>3, <2>5, <4>1
        <3>2. x = 0 /\ y = 0
            BY <1>13, <2>3, <2>4, <2>8, <3>1 DEF RefersTo
        <3>3. QED BY <1>2, <3>2 DEF ObjectsSeen
    <2>9. QED BY <2>7, <2>8
<1>14. \A x \in Objs : x \in K => mem[x].obj \in Exists'
    BY <1>2, <1>3, <1>8, <1>9 DEF ObjectsSeen
<1>15. ASSUME NEW o \in JavaHeap!Reachable PROVE o \in Exists'
    <2>1. o \in Exists /\ At(o) \in FromRoot
        BY ReachableCells
    <2>2. PICK a : a = At(o)
        OBVIOUS
    <2>3. a \in Objs /\ mem[a].obj = o
        BY <2>1, <2>2, Viewed DEF View
    <2>4. QED BY <1>3, <1>14, <2>1, <2>2, <2>3
<1>16. unfinalized' = unfinalized /\ unfinalized \subseteq Exists'
    <2> DEFINE L == ToSet(list) \union ToSet(pending)
               N == ToSet(list') \union ToSet(pending')
    <2>1. unfinalized = {mem[a].obj : a \in L} /\ unfinalized' = {mem'[a].obj : a \in N}
        BY <1>1 DEF Seen, FinalizersSeen
    <2>2. L \subseteq Objs /\ L \subseteq K /\ N = {P[a] : a \in L}
        BY <1>2, <1>3 DEF ObjectsSeen
    <2> HIDE DEF L, N
    <2>3. \A a \in L : mem'[P[a]].obj = mem[a].obj /\ mem[a].obj \in Exists'
        BY <1>9, <1>14, <2>2
    <2>4. QED BY <2>1, <2>2, <2>3
<1>17. QED BY <1>10, <1>11, <1>12, <1>13, <1>15, <1>16 DEF SlidSeen

\* The compaction takes what the program cannot reach, and leaves the rest as it was.
LEMMA ReclaimRefines ==
    ASSUME Inv, JavaOK, Seen', Compact
    PROVE  JavaHeap!Next
<1>1. PICK P, S, K : Slid(P, S, K)
    BY CompactSlides
<1>2. SlidSeen(P, S)
    BY <1>1, SlidIsSeen
<1>3. /\ \A i \in Objs' : S[i] \in Objs /\ mem'[i].obj = mem[S[i]].obj
      /\ \A o \in JavaHeap!Reachable : o \in Exists'
      /\ unfinalized' = unfinalized /\ unfinalized \subseteq Exists'
    BY <1>2 DEF SlidSeen
<1>4. /\ Seen /\ ObjectsSeen /\ ObjectsSeen' /\ FieldsSeen /\ FieldsSeen'
      /\ LocalsSeen /\ LocalsSeen' /\ ReferentsSeen /\ ReferentsSeen'
    BY IsSeen DEF Seen
<1>5. Exists' \subseteq Exists
    BY <1>3, <1>4 DEF ObjectsSeen
<1>6. \A o \in Exists' : \E i \in Objs' : mem'[i].obj = o
    BY <1>4 DEF ObjectsSeen
<1>7. ASSUME NEW o \in Exists' PROVE fields'[o] = fields[o]
    <2>1. PICK i \in Objs' : mem'[i].obj = o
        BY <1>6
    <2>2. PICK a : a = S[i]
        OBVIOUS
    <2>3. a \in Objs /\ mem[a].obj = o /\ Len(mem[a].ref) = FieldCount[o] /\ a \in Cells
        BY <1>3, <1>4, <2>1, <2>2 DEF ObjectsSeen
    <2>4. ASSUME NEW g \in 1..FieldCount[o] PROVE fields'[o][g] = fields[o][g]
        <3>1. PICK x, y : x = mem[a].ref[g] /\ y = mem'[i].ref[g]
            OBVIOUS
        <3>2. Id(y)' = Id(x)
            BY <1>2, <2>2, <2>3, <3>1 DEF SlidSeen
        <3>3. fields[o][g] = Id(x)
            <4>1. FieldsSeen
                BY <1>4
            <4>2. \A f \in 1..FieldCount[o] : \A z : mem[a].ref[f] = z => fields[o][f] = Id(z)
                <5>1. a \in Objs /\ mem[a].obj = o
                    BY <2>3
                <5>2. QED BY <4>1, <5>1 DEF FieldsSeen
            <4>3. mem[a].ref[g] = x
                BY <3>1
            <4>4. QED BY <4>2, <4>3
        <3>4. fields'[o][g] = Id(y)'
            BY <1>4, <2>1, <3>1 DEF FieldsSeen
        <3>5. QED BY <3>2, <3>3, <3>4
    <2>5. /\ fields[o] = [g \in 1..FieldCount[o] |-> fields[o][g]]
          /\ fields'[o] = [g \in 1..FieldCount[o] |-> fields'[o][g]]
        BY <1>4, <1>5 DEF FieldsSeen
    <2>6. QED BY <2>4, <2>5
<1>8. DOMAIN fields = Exists /\ DOMAIN fields' = Exists'
    BY <1>4 DEF FieldsSeen
<1>9. fields' = JavaHeap!Restrict(fields, Exists')
    <2>1. fields' = [o \in Exists' |-> fields'[o]]
        BY <1>4, <1>8 DEF FieldsSeen
    <2>2. DOMAIN fields \intersect Exists' = Exists'
        BY <1>5, <1>8
    <2>3. QED BY <1>7, <2>1, <2>2 DEF JavaHeap!Restrict
<1>10. ASSUME NEW w \in Weaks \intersect Exists' PROVE referent'[w] = referent[w]
    <2>1. PICK i \in Objs' : mem'[i].obj = w
        BY <1>6
    <2>2. PICK a : a = S[i]
        OBVIOUS
    <2>3. a \in Objs /\ mem[a].obj = w
        BY <1>3, <2>1, <2>2
    <2>4. PICK x, y : x = RefersTo(a) /\ y = RefersTo(i)'
        OBVIOUS
    <2>5. Id(y)' = Id(x)
        BY <1>2, <2>1, <2>2, <2>4 DEF SlidSeen
    <2>6. referent[w] = Id(x)
        BY <1>4, <2>3, <2>4 DEF ReferentsSeen
    <2>7. referent'[w] = Id(y)'
        BY <1>4, <2>1, <2>4 DEF ReferentsSeen
    <2>8. QED BY <2>5, <2>6, <2>7
<1>11. referent' = JavaHeap!Restrict(referent, Weaks \intersect Exists')
    <2>1. referent' = [w \in Weaks \intersect Exists' |-> referent'[w]]
        <3>1. Exists' \intersect Weaks = Weaks \intersect Exists'
            OBVIOUS
        <3>2. QED BY <1>4, <3>1 DEF ReferentsSeen
    <2>2. DOMAIN referent \intersect (Weaks \intersect Exists') = Weaks \intersect Exists'
        BY <1>4, <1>5 DEF ReferentsSeen
    <2>3. QED BY <1>10, <2>1, <2>2 DEF JavaHeap!Restrict
<1>12. locals' = locals
    <2>1. ASSUME NEW l \in 1..LocalCount PROVE locals'[l] = locals[l]
        <3>1. PICK x, y : x = mem[root].ref[l] /\ y = mem'[root'].ref[l]
            OBVIOUS
        <3>2. Id(y)' = Id(x)
            BY <1>2, <3>1 DEF SlidSeen
        <3>3. locals[l] = Id(x)
            BY <1>4, <3>1 DEF LocalsSeen
        <3>4. locals'[l] = Id(y)'
            BY <1>4, <3>1 DEF LocalsSeen
        <3>5. QED BY <3>2, <3>3, <3>4
    <2>2. QED BY <1>4, <2>1 DEF LocalsSeen
<1>13. \A x \in Objs' \union {0} : Id(x)' \in Exists' \union {NoObject}
    BY <1>4 DEF ObjectsSeen
<1>14. ASSUME NEW o \in Exists' PROVE JavaHeap!Range(fields'[o]) \subseteq Exists' \union {NoObject}
    <2>1. PICK i \in Objs' : mem'[i].obj = o
        BY <1>6
    <2>2. ASSUME NEW g \in 1..FieldCount[o] PROVE fields'[o][g] \in Exists' \union {NoObject}
        <3>1. PICK y : y = mem'[i].ref[g]
            OBVIOUS
        <3>2. y \in Objs' \union {0}
            BY <1>4, <2>1, <3>1 DEF ObjectsSeen
        <3>3. fields'[o][g] = Id(y)'
            BY <1>4, <2>1, <3>1 DEF FieldsSeen
        <3>4. QED BY <1>13, <3>2, <3>3
    <2>3. DOMAIN fields'[o] = 1..FieldCount[o]
        <3>1. fields'[o] = [g \in 1..FieldCount[o] |-> fields'[o][g]]
            BY <1>4 DEF FieldsSeen
        <3>2. QED BY <3>1
    <2>4. QED BY <2>2, <2>3 DEF JavaHeap!Range
<1>15. JavaHeap!Range(referent') \subseteq Exists' \union {NoObject}
    <2>1. ASSUME NEW w \in Exists' \intersect Weaks PROVE referent'[w] \in Exists' \union {NoObject}
        <3>1. PICK i \in Objs' : mem'[i].obj = w
            BY <1>6
        <3>2. PICK y : y = RefersTo(i)'
            OBVIOUS
        <3>3. y \in Objs' \union {0}
            BY <1>4, <3>1, <3>2 DEF ObjectsSeen
        <3>4. referent'[w] = Id(y)'
            BY <1>4, <3>1, <3>2 DEF ReferentsSeen
        <3>5. QED BY <1>13, <3>3, <3>4
    <2>2. DOMAIN referent' = Exists' \intersect Weaks
        BY <1>4 DEF ReferentsSeen
    <2>3. QED BY <2>1, <2>2 DEF JavaHeap!Range
<1>16. JavaHeap!Exists = Exists /\ JavaHeap!Exists' = Exists'
    BY <1>8 DEF JavaHeap!Exists
<1>17. JavaHeap!Reclaim
    <2> DEFINE E == JavaHeap!Exists
    <2>1. E' \subseteq E /\ fields' = JavaHeap!Restrict(fields, E')
          /\ referent' = JavaHeap!Restrict(referent, Weaks \intersect E')
        BY <1>5, <1>9, <1>11, <1>16
    <2>2. JavaHeap!Reachable \union unfinalized \subseteq E'
        BY <1>3, <1>16
    <2>3. (UNION {JavaHeap!Range(fields'[o]) : o \in E'}) \union JavaHeap!Range(referent')
              \subseteq E' \union {NoObject}
        BY <1>14, <1>15, <1>16
    <2>4. UNCHANGED <<locals, unfinalized>>
        BY <1>3, <1>12
    <2>5. QED BY <2>1, <2>2, <2>3, <2>4 DEF JavaHeap!Reclaim
<1>18. QED BY <1>17 DEF JavaHeap!Next

\* Every step is one that the program may see, or shows it nothing.
LEMMA StepRefines ==
    ASSUME Inv, JavaOK, Inv', JavaOK', [Next]_vars
    PROVE  [JavaHeap!Next]_JavaHeap!vars
<1>1. Seen'
    BY IsSeenNext
<1>2. CASE Quietly \/ UNCHANGED vars
    <2>1. UNCHANGED <<mem, root, table, list, pending>>
        BY <1>2, QuietlyStays DEF vars, program
    <2>2. QED BY <2>1, ViewUnchanged
<1>3. CASE Program /\ ~Quietly
    BY <1>1, <1>3, NewRefines, GetRefines, PutRefines, ConstructRefines, ClearRefines
       DEF Program, Quietly
<1>4. CASE DiscoverFinalizers
    <2>1. UNCHANGED <<mem, root, table>>
        BY <1>4 DEF DiscoverFinalizers, Marks
    <2>2. QED BY <1>4, <2>1, DiscoverFinalizersJava, ViewUnchanged
<1>5. CASE Collector /\ ~Quietly /\ ~DiscoverFinalizers
    BY <1>1, <1>5, ClearedRefines, ReclaimRefines, FinalizeRefines DEF Collector, Quietly
<1>6. QED BY <1>2, <1>3, <1>4, <1>5 DEF Next

\* The heap at the start is one that a program starts with.
LEMMA InitRefines == Init => JavaHeap!Init
<1> SUFFICES ASSUME Init PROVE JavaHeap!Init
    OBVIOUS
<1>1. Inv /\ JavaOK
    BY InitInv, InitJava
<1>2. PICK o \in Objects \ Weaks :
          /\ mem = <<Cell(o), [obj |-> Stack, ref |-> [l \in 1..LocalCount |-> IF l = 1 THEN 1 ELSE 0],
                               index |-> 0]>>
          /\ root = 2 /\ list = <<>> /\ pending = <<>>
    BY DEF Init
<1>3. Seen
    BY <1>1, IsSeen
<1>4. ObjectsSeen /\ FieldsSeen /\ LocalsSeen /\ ReferentsSeen /\ FinalizersSeen
    BY <1>3 DEF Seen
<1>5. /\ Cells = {1, 2} /\ mem[1].obj = o
      /\ mem[1].ref = [f \in 1..FieldCount[o] |-> 0]
      /\ mem[2].ref = [l \in 1..LocalCount |-> IF l = 1 THEN 1 ELSE 0]
    <2> DEFINE s == [obj |-> Stack, ref |-> [l \in 1..LocalCount |-> IF l = 1 THEN 1 ELSE 0], index |-> 0]
    <2>1. mem = <<Cell(o), s>>
        BY <1>2
    <2>2. s.ref = [l \in 1..LocalCount |-> IF l = 1 THEN 1 ELSE 0]
        OBVIOUS
    <2> HIDE DEF s
    <2>3. Cells = {1, 2} /\ mem[1] = Cell(o) /\ mem[2] = s
        BY <2>1 DEF Cells, Top
    <2>4. QED BY <2>2, <2>3 DEF Cell
<1>6. Objs = {1} /\ Exists = {o} /\ Id(0) = NoObject /\ Id(1) = o
    <2>1. Objs = {1}
        BY <1>2, <1>5 DEF Objs
    <2>2. QED BY <1>4, <1>5, <2>1 DEF ObjectsSeen
<1>7. fields = [p \in {o} |-> JavaHeap!Blank(o)]
    <2>1. ASSUME NEW g \in 1..FieldCount[o] PROVE fields[o][g] = NoObject
        <3>1. mem[1].ref[g] = 0
            BY <1>5, <2>1
        <3>2. FieldsSeen /\ 1 \in Objs /\ mem[1].obj = o
            BY <1>4, <1>5, <1>6
        <3>3. fields[o][g] = Id(0)
            BY <3>1, <3>2 DEF FieldsSeen
        <3>4. QED BY <1>6, <3>3
    <2>2. fields[o] = [g \in 1..FieldCount[o] |-> fields[o][g]] /\ fields = [p \in {o} |-> fields[p]]
        BY <1>4, <1>6 DEF FieldsSeen
    <2>3. fields[o] = JavaHeap!Blank(o)
        BY <2>1, <2>2 DEF JavaHeap!Blank
    <2>4. QED BY <2>2, <2>3
<1>8. locals = [l \in 1..LocalCount |-> IF l = 1 THEN o ELSE NoObject]
    <2>1. ASSUME NEW l \in 1..LocalCount PROVE locals[l] = IF l = 1 THEN o ELSE NoObject
        <3>1. mem[root].ref[l] = IF l = 1 THEN 1 ELSE 0
            BY <1>2, <1>5
        <3>2. locals[l] = Id(IF l = 1 THEN 1 ELSE 0)
            BY <1>4, <3>1 DEF LocalsSeen
        <3>3. QED BY <1>6, <3>2
    <2>2. QED BY <1>4, <2>1 DEF LocalsSeen
<1>9. referent = [w \in {} |-> NoObject]
    <2>1. Exists \intersect Weaks = {}
        BY <1>6
    <2>2. QED BY <1>4, <2>1 DEF ReferentsSeen
<1>10. unfinalized = {}
    BY <1>2, <1>4 DEF FinalizersSeen, ToSet
<1>11. QED BY <1>7, <1>8, <1>9, <1>10 DEF JavaHeap!Init

\* ImplementsJavaObjects: whatever the collector marks, clears, moves and forgets,
\* a program sees objects that stay as it made them while it can reach them, weak
\* references that are cleared only when it cannot, and finalizers that run once.
THEOREM HeapRefined == Spec => ImplementsJavaObjects
<1>1. Inv /\ JavaOK /\ [Next]_vars => JavaOK'
    BY JavaStep
<1>2. Inv /\ JavaOK /\ Inv' /\ JavaOK' /\ [Next]_vars => [JavaHeap!Next]_JavaHeap!vars
    BY StepRefines
<1>3. Spec => []Inv
    BY AlwaysInv
<1>4. QED BY InitRefines, InitJava, <1>1, <1>2, <1>3, PTL DEF Spec, ImplementsJavaObjects, JavaHeap!Spec

-----------------------------------------------------------------------------
(* The end of a collection.                                                *)

\* The collections after the first are full.
Rounds ==
    /\ round >= 2 /\ phase \in Collecting => full
    /\ round >= 2 /\ phase = "finalize" => wasFull

\* Every step keeps that.
LEMMA RoundsStep ==
    ASSUME Inv, Rounds, [Next]_vars
    PROVE  Rounds'
<1>1. JobOK
    BY DEF Inv
<1>2. CASE UNCHANGED vars
    BY <1>2 DEF vars, space, job, Rounds
<1>3. CASE SystemGc \/ AllocationFails
    <2>1. round' = 1
        BY <1>3 DEF SystemGc, AllocationFails, Collect
    <2>2. QED BY <2>1 DEF Rounds
<1>4. CASE Program /\ ~SystemGc /\ ~AllocationFails
    <2>1. phase' = "java"
        BY <1>4 DEF Program, Allocate, ClearLocal, GetField, GetWeak, PutField, ConstructWeak, ClearWeak
    <2>2. QED BY <2>1 DEF Rounds, Collecting
<1>5. CASE MarkFromRoots \/ Rescan \/ DiscoverFinalizers \/ ClearWeakReferences
    <2>1. \A s, p, q : Marks(s, p, q) => UNCHANGED <<full, round>> /\ phase' \in {p, q}
        BY DEF Marks, space, job
    <2>2. /\ UNCHANGED <<full, round>> /\ phase \in Collecting
          /\ phase' \in {"rescan_roots", "finalizers", "rescan_finalizers", "weak", "compact"}
        BY <1>5, <2>1
           DEF MarkFromRoots, Rescan, DiscoverFinalizers, ClearWeakReferences, Collecting
    <2>3. QED BY <2>2 DEF Rounds, Collecting
<1>6. CASE Compact
    BY <1>6 DEF Compact, Rounds, Collecting
<1>7. CASE RunFinalizer
    BY <1>7 DEF RunFinalizer, space, job, Rounds, Collecting
<1>8. CASE Enough \/ OutOfMemory \/ Thrown
    <2>1. phase' \in {"java", "allocate", "out_of_memory"}
        BY <1>1, <1>8 DEF Enough, OutOfMemory, Thrown, JobOK
    <2>2. QED BY <2>1 DEF Rounds, Collecting
<1>9. CASE NotEnough
    <2>1. full' = TRUE /\ phase' = "roots"
        BY <1>9 DEF NotEnough, Collect
    <2>2. QED BY <2>1 DEF Rounds
<1>10. QED BY <1>2, <1>3, <1>4, <1>5, <1>6, <1>7, <1>8, <1>9 DEF Next, Collector

\* How far a phase is from the end of its collection.
Stage ==
    [p \in Collecting \union {"finalize", "out_of_memory"} |->
        CASE p = "out_of_memory" -> 1 [] p = "finalize" -> 2 [] p = "compact" -> 3
          [] p = "weak" -> 4 [] p = "rescan_finalizers" -> 5 [] p = "finalizers" -> 6
          [] p = "rescan_roots" -> 7 [] p = "roots" -> 8]

\* The measure's digits: Steps, what is left of the phase, stays below Most.
Most == 2 * Capacity + 2
Steps == IF phase = "finalize" THEN Len(pending)
         ELSE 2 * Cardinality(Area \ MarkedNow) + (IF overflow THEN 1 ELSE 0)

\* Working is what the collector does until it hands back.
Working == phase \in Collecting \union {"finalize", "out_of_memory"}

\* Left as a number of three digits: collections, phases and steps to come.
LeftOver ==
    /\ Left = ((3 - round) * 9 + Stage[phase]) * Most + Steps
    /\ Stage[phase] \in 1..8

\* Left is made of these.
LEMMA LeftIs ==
    ASSUME Working
    PROVE  LeftOver
<1> USE DEF LeftOver, Working
<1> DEFINE stages == <<"out_of_memory", "finalize", "compact", "weak",
                       "rescan_finalizers", "finalizers", "rescan_roots", "roots">>
           stage == CHOOSE i \in DOMAIN stages : stages[i] = phase
<1>1. Stage[phase] \in 1..8 /\ stages[Stage[phase]] = phase
    BY DEF Stage, Collecting
<1>2. DOMAIN stages = 1..8 /\ Len(stages) = 8
    OBVIOUS
<1>3. \A i \in 1..8 : stages[i] = phase => i = Stage[phase]
    BY <1>1
<1>4. stage = Stage[phase]
    <2> HIDE DEF stages
    <2>1. QED BY <1>1, <1>2, <1>3
<1> HIDE DEF stages
<1>5. Len(stages) + 1 = 9
    BY <1>2
<1>6. Left = ((3 - round) * (Len(stages) + 1) + stage) * Most + Steps
    BY DEF Left, Most, Steps, MarkedNow, stages
<1> HIDE DEF stage
<1>7. QED BY <1>1, <1>4, <1>5, <1>6

\* A number with digits is less when a higher digit is.
LEMMA LessFirst ==
    ASSUME NEW m \in Nat, NEW a \in Nat, NEW b \in Nat, NEW s \in Nat, NEW t \in Nat, a < b, s < m
    PROVE  a * m + s < b * m + t
<1>1. (a + 1) * m = a * m + m
    OBVIOUS
<1>2. PICK d \in Nat : b = a + 1 + d
    <2>1. b - a - 1 \in Nat /\ b = a + 1 + (b - a - 1)
        OBVIOUS
    <2>2. QED BY <2>1
<1>3. b * m = (a + 1) * m + d * m /\ d * m \in Nat /\ a * m \in Nat
    BY <1>2
<1> DEFINE x == a * m
           y == d * m
           z == b * m
<1>4. z = x + m + y /\ x \in Nat /\ y \in Nat
    BY <1>1, <1>3
<1> HIDE DEF x, y, z
<1>5. x + s < z + t
    BY <1>4
<1>6. QED BY <1>5 DEF x, z

\* The lowest digit is one.
Few == Steps \in Nat /\ Steps < Most /\ Most \in Nat

\* The area bounds the unmarked cells, and the pending finalizers, which are distinct.
LEMMA StepsBound ==
    ASSUME Inv, JavaOK
    PROVE  Few
<1>1. Shape /\ ListOK /\ JobOK
    BY DEF Inv
<1>2. Top \in Nat /\ Top <= Capacity /\ Capacity \in Nat /\ Area \subseteq 1..Top
    <2>1. Capacity \in Nat
        BY HeapAssumption
    <2>2. Top \in Nat /\ AreaStart \in Nat
        BY <1>1, HeapFacts
    <2>3. QED BY <1>1, <2>1, <2>2 DEF JobOK, Area
<1>3. IsFiniteSet(1..Top) /\ Cardinality(1..Top) = Top
    BY <1>2, FS_Interval
<1>4. Cardinality(Area \ MarkedNow) \in Nat /\ Cardinality(Area \ MarkedNow) <= Top
    <2>1. Area \ MarkedNow \subseteq 1..Top
        BY <1>2
    <2>2. QED BY <1>3, <2>1, FS_Subset, FS_CardinalityType
<1>5. Len(pending) \in Nat /\ Len(pending) <= Top
    <2>1. Len(pending) \in Nat /\ DOMAIN pending = 1..Len(pending)
        BY <1>1 DEF ListOK
    <2>2. \A i \in 1..Len(pending) : pending[i] \in 1..Top
        BY <1>1, <1>2 DEF ListOK
    <2>3. pending \in Injection(1..Len(pending), 1..Top)
        <3>1. \A i, j \in 1..Len(pending) : pending[i] = pending[j] => i = j
            BY <2>1 DEF JavaOK, IsInjective
        <3>2. pending \in [1..Len(pending) -> 1..Top]
            <4>1. pending = [i \in 1..Len(pending) |-> pending[i]]
                BY <1>1 DEF ListOK
            <4>2. QED BY <2>2, <4>1
        <3>3. QED BY <3>1, <3>2 DEF Injection, IsInjective
    <2>4. Cardinality(1..Len(pending)) <= Cardinality(1..Top)
        BY <1>3, <2>3, FS_Injection
    <2>5. Cardinality(1..Len(pending)) = Len(pending)
        <3>1. PICK n \in Nat : n = Len(pending)
            BY <2>1
        <3>2. Cardinality(1..n) = n
            BY FS_Interval
        <3>3. QED BY <3>1, <3>2
    <2>6. QED BY <1>3, <2>1, <2>4, <2>5
<1>6. Steps \in Nat /\ Steps <= 2 * Top + 1
    <2>1. PICK c, p \in Nat : c = Cardinality(Area \ MarkedNow) /\ p = Len(pending)
        BY <1>4, <1>5
    <2>2. Steps = IF phase = "finalize" THEN p ELSE 2 * c + (IF overflow THEN 1 ELSE 0)
        BY <2>1 DEF Steps
    <2>3. c <= Top /\ p <= Top
        BY <1>4, <1>5, <2>1
    <2>4. QED BY <1>2, <2>2, <2>3
<1>7. QED BY <1>2, <1>6 DEF Most, Few

\* Both in the next state.
LEMMA LeftIsNext ==
    ASSUME Working'
    PROVE  LeftOver'
BY LeftIs, PTL

\* So it is in the next state.
LEMMA StepsBoundNext ==
    ASSUME Inv', JavaOK'
    PROVE  Few'
BY StepsBound, PTL

\* A later collection, a later phase of it or fewer steps.
LEMMA LessLeft ==
    ASSUME Inv, JavaOK, Inv', JavaOK', Working, Working',
           \/ (round' > round)
           \/ (round' = round /\ Stage[phase'] < Stage[phase])
           \/ (round' = round /\ phase' = phase /\ Steps' < Steps)
    PROVE  Left' < Left
<1>1. round \in 0..3 /\ round' \in 0..3
    BY DEF Inv, JobOK
<1>2. Steps \in Nat /\ Steps' \in Nat /\ Steps' < Most /\ Most \in Nat
    <2>1. Most' = Most
        BY DEF Most
    <2>2. QED BY <2>1, StepsBound, StepsBoundNext DEF Few
<1>3. /\ Left = ((3 - round) * 9 + Stage[phase]) * Most + Steps
      /\ Left' = ((3 - round') * 9 + Stage[phase']) * Most + Steps'
      /\ Stage[phase] \in 1..8 /\ Stage[phase'] \in 1..8
    <2>1. Stage' = Stage /\ Most' = Most
        BY DEF Stage, Most
    <2>2. QED BY <2>1, LeftIs, LeftIsNext DEF LeftOver
<1>4. PICK r, i, s, q, j, t, m : /\ r = round /\ i = Stage[phase] /\ s = Steps
                                 /\ q = round' /\ j = Stage[phase'] /\ t = Steps' /\ m = Most
    OBVIOUS
<1>5. r \in 0..3 /\ q \in 0..3 /\ i \in 1..8 /\ j \in 1..8 /\ s \in Nat /\ t \in Nat /\ m \in Nat /\ t < m
    BY <1>1, <1>2, <1>3, <1>4
<1> DEFINE a == (3 - q) * 9 + j
           b == (3 - r) * 9 + i
<1>6. Left = b * m + s /\ Left' = a * m + t
    BY <1>3, <1>4
<1>7. CASE q > r \/ (q = r /\ j < i)
    <2>1. a \in Nat /\ b \in Nat /\ a < b
        BY <1>5, <1>7
    <2> HIDE DEF a, b
    <2>2. a * m + t < b * m + s
        BY <1>5, <2>1, LessFirst
    <2>3. QED BY <1>6, <2>2
<1>8. CASE q = r /\ j = i /\ t < s
    <2>1. a = b /\ b \in Nat
        BY <1>5, <1>8
    <2> HIDE DEF a, b
    <2>2. PICK x : x = b * m
        OBVIOUS
    <2>3. x \in Nat
        BY <1>5, <2>1, <2>2
    <2>4. x + t < x + s
        BY <1>5, <1>8, <2>3
    <2>5. QED BY <1>6, <2>1, <2>2, <2>4
<1>9. q > r \/ (q = r /\ j < i) \/ (q = r /\ j = i /\ t < s)
    BY <1>4
<1>10. QED BY <1>7, <1>8, <1>9

\* check_marking_stack_overflow: a rescan that overflows has marked more.
LEMMA RescanMarksMore ==
    ASSUME Inv, Rescan, overflow'
    PROVE  Area' = Area /\ MarkedNow \subseteq MarkedNow' /\ MarkedNow' # MarkedNow
<1>1. Shape /\ JobOK /\ BitsOK
    BY DEF Inv
<1> DEFINE s == [Marking EXCEPT !.overflow = FALSE]
           n == Top - AreaStart
           seq == [i \in 1..n |-> AreaStart + i]
           t == FoldLeft(MarkAgain, s, seq)
<1>2. bits' = t.bits /\ overflow' = t.overflow /\ mem' = mem /\ UNCHANGED space
    BY DEF Rescan, Marks
<1>3. s \in Quiet /\ s.bits = bits /\ s.overflow = FALSE
    <2>1. Marking \in Quiet /\ Marking.bits = bits
        BY <1>1, MarkingQuiet
    <2>2. QED BY <2>1 DEF Quiet, MState
<1>4. n \in Nat /\ seq \in [1..n -> Cells]
    <2>1. Top \in Nat /\ AreaStart \in Nat /\ AreaStart <= Top
        BY <1>1, HeapFacts
    <2>2. \A i \in 1..Top - AreaStart : AreaStart + i \in 1..Top
        BY <2>1
    <2>3. QED BY <2>1, <2>2 DEF Cells
<1>5. MarkedFrom(s, t, UNION {AgainRoots(seq[i]) : i \in 1..n})
    <2> HIDE DEF s, n, seq
    <2>1. QED BY <1>1, <1>3, <1>4, MarkAgainAll
<1> HIDE DEF s, t, n, seq
<1>6. s.bits \subseteq t.bits /\ (t # s => ~(Mk(t) \subseteq Mk(s)))
    BY <1>5 DEF MarkedFrom
<1>7. t # s
    BY <1>2, <1>3
<1>8. Top' = Top /\ AreaStart' = AreaStart /\ Area' = Area
    BY <1>2 DEF Top, AreaStart, Area, space
<1>9. Mk(s) = MarkedNow /\ Mk(t) = MarkedNow'
    BY <1>2, <1>3, <1>8 DEF Mk, MarkedNow, Marked
<1>10. Mk(s) \subseteq Mk(t)
    BY <1>6 DEF Mk, Marked
<1>11. QED BY <1>6, <1>7, <1>8, <1>9, <1>10

\* So it has less left to do.
LEMMA RescanEnds ==
    ASSUME Inv, JavaOK, Inv', JavaOK', Rescan, Working, Working'
    PROVE  Left' < Left
<1>1. /\ phase \in {"rescan_roots", "rescan_finalizers"}
      /\ phase' = IF overflow' THEN phase
                  ELSE IF phase = "rescan_roots" THEN "finalizers" ELSE "weak"
      /\ round' = round
    BY DEF Rescan, Marks, job
<1>2. CASE ~overflow'
    <2>1. Stage[phase'] < Stage[phase]
        BY <1>1, <1>2 DEF Stage, Collecting
    <2>2. QED BY <1>1, <2>1, LessLeft
<1>3. CASE overflow'
    <2>1. Area' = Area /\ MarkedNow \subseteq MarkedNow' /\ MarkedNow' # MarkedNow
        BY <1>3, RescanMarksMore
    <2>2. IsFiniteSet(Area) /\ MarkedNow' \subseteq Area
        <3>1. Top \in Nat /\ AreaStart \in Nat
            BY HeapFacts DEF Inv
        <3>2. IsFiniteSet(Area)
            BY <3>1, FS_Interval DEF Area
        <3>3. MarkedNow' \subseteq Area'
            BY DEF MarkedNow, Marked, Area
        <3>4. QED BY <2>1, <3>2, <3>3
    <2>3. PICK S, T : S = Area \ MarkedNow /\ T = Area \ MarkedNow'
        OBVIOUS
    <2>4. IsFiniteSet(S) /\ T \subseteq S /\ T # S
        BY <2>1, <2>2, <2>3, FS_Subset
    <2>5. Cardinality(T) < Cardinality(S) /\ Cardinality(T) \in Nat /\ Cardinality(S) \in Nat
        BY <2>4, FS_Subset, FS_CardinalityType
    <2>6. phase' = phase /\ phase # "finalize"
        BY <1>1, <1>3
    <2>7. /\ Steps = 2 * Cardinality(S) + (IF overflow THEN 1 ELSE 0)
          /\ Steps' = 2 * Cardinality(T) + 1
        BY <1>3, <2>1, <2>3, <2>6 DEF Steps
    <2>8. PICK c, d : c = Cardinality(S) /\ d = Cardinality(T)
        OBVIOUS
    <2>9. Steps' < Steps
        <3>1. c \in Nat /\ d \in Nat /\ d < c
            BY <2>5, <2>8
        <3>2. Steps' = 2 * d + 1
            BY <2>7, <2>8
        <3>3. CASE overflow
            <4>1. Steps = 2 * c + 1
                BY <2>7, <2>8, <3>3
            <4>2. QED BY <3>1, <3>2, <4>1
        <3>4. CASE ~overflow
            <4>1. Steps = 2 * c + 0
                BY <2>7, <2>8, <3>4
            <4>2. QED BY <3>1, <3>2, <4>1
        <3>5. QED BY <3>3, <3>4
    <2>10. QED BY <1>1, <2>6, <2>9, LessLeft
<1>4. QED BY <1>2, <1>3

\* One finalizer less has to run.
LEMMA FinalizersEnd ==
    ASSUME Inv, JavaOK, Inv', JavaOK', RunFinalizer, Working, Working'
    PROVE  Left' < Left
<1>1. /\ phase = "finalize" /\ pending # <<>> /\ pending' = Tail(pending) /\ round' = round
      /\ phase' \in {"fault", "finalize"}
    BY DEF RunFinalizer, job
<1>2. phase' = phase
    BY <1>1 DEF Working, Collecting
<1>3. pending \in Seq(Nat \ {0})
    BY DEF Inv, ListOK
<1>4. Len(pending') < Len(pending)
    BY <1>1, <1>3
<1>5. Steps = Len(pending) /\ Steps' = Len(pending')
    BY <1>1, <1>2 DEF Steps
<1>6. QED BY <1>1, <1>2, <1>4, <1>5, LessLeft

\* Every step of a collection has less left to do.
LEMMA StepAdvances ==
    ASSUME Inv, JavaOK, Rounds, Inv', JavaOK', Next,
           {phase, phase'} \intersect {"java", "allocate", "fault"} = {}
    PROVE  Left' < Left
<1>1. Working /\ Working'
    <2>1. phase \in Phases /\ phase' \in Phases
        BY DEF Inv, JobOK
    <2>2. QED BY <2>1 DEF Phases, Working, Collecting
<1>2. ASSUME round' = round, Stage[phase'] < Stage[phase] PROVE Left' < Left
    BY <1>1, <1>2, LessLeft
<1>3. CASE Program
    BY <1>3 DEF Program, SystemGc, AllocationFails, Allocate, ClearLocal, GetField, GetWeak, PutField,
                ConstructWeak, ClearWeak
<1>4. CASE MarkFromRoots \/ DiscoverFinalizers \/ ClearWeakReferences
    <2>1. \A s, p, q : Marks(s, p, q) => round' = round /\ phase' \in {p, q}
        BY DEF Marks, job
    <2>2. /\ round' = round
          /\ \/ phase = "roots" /\ phase' \in {"rescan_roots", "finalizers"}
             \/ phase = "finalizers" /\ phase' \in {"rescan_finalizers", "weak"}
             \/ phase = "weak" /\ phase' = "compact"
        BY <1>4, <2>1 DEF MarkFromRoots, DiscoverFinalizers, ClearWeakReferences
    <2>3. Stage[phase'] < Stage[phase]
        BY <2>2 DEF Stage, Collecting
    <2>4. QED BY <1>2, <2>2, <2>3
<1>5. CASE Rescan
    BY <1>1, <1>5, RescanEnds
<1>6. CASE Compact
    <2>1. round' = round /\ phase = "compact" /\ phase' = "finalize"
        BY <1>6 DEF Compact
    <2>2. Stage[phase'] < Stage[phase]
        BY <2>1 DEF Stage, Collecting
    <2>3. QED BY <1>2, <2>1, <2>2
<1>7. CASE RunFinalizer
    BY <1>1, <1>7, FinalizersEnd
<1>8. CASE Enough \/ Thrown
    BY <1>8 DEF Enough, Thrown, Inv, JobOK
<1>9. CASE NotEnough
    <2>1. /\ phase = "finalize" /\ round < 3
          /\ round' = IF wasFull THEN 3 ELSE 2
        BY <1>9 DEF NotEnough, Collect
    <2>2. round \in 0..3 /\ (round >= 2 => wasFull)
        BY <2>1 DEF Inv, JobOK, Rounds
    <2>3. round' > round
        BY <2>1, <2>2
    <2>4. QED BY <1>1, <2>3, LessLeft
<1>10. CASE OutOfMemory
    <2>1. round' = round /\ phase = "finalize" /\ phase' = "out_of_memory"
        BY <1>10 DEF OutOfMemory, job
    <2>2. Stage[phase'] < Stage[phase]
        BY <2>1 DEF Stage, Collecting
    <2>3. QED BY <1>2, <2>1, <2>2
<1>11. QED BY <1>3, <1>4, <1>5, <1>6, <1>7, <1>8, <1>9, <1>10 DEF Next, Collector

\* CollectionAdvances: the rescans after overflows of the marking stack end, the
\* finalizers end and the repeated collections end, in every collection.
THEOREM AlwaysAdvances == Spec => CollectionAdvances
<1>1. Init => Rounds
    BY DEF Init, Rounds, Collecting
<1>2. Inv /\ Rounds /\ [Next]_vars => Rounds'
    BY RoundsStep
<1>3. Inv /\ JavaOK /\ [Next]_vars => JavaOK'
    BY JavaStep
<1>4. Inv /\ JavaOK /\ Rounds /\ Inv' /\ JavaOK' /\ [Next]_vars
      => [{phase, phase'} \intersect {"java", "allocate", "fault"} = {} => Left' < Left]_vars
    BY StepAdvances
<1>5. QED BY AlwaysInv, InitJava, <1>1, <1>2, <1>3, <1>4, PTL DEF Spec, CollectionAdvances

=============================================================================
