---------------------------- MODULE RunQueueProofs ----------------------------
(***************************************************************************)
(* Theorems about module RunQueue, for every number of threads and         *)
(* priorities: the bit mask, the lists and the cached next thread agree,   *)
(* and the search for the next thread finds one by priority and quota.     *)
(***************************************************************************)
EXTENDS RunQueue, ListFacts, WellFoundedInduction

USE ThreadsAssumption, PrioritiesAssumption

-----------------------------------------------------------------------------
(* The lists of threads q when the priorities are pr.                       *)

WellPlaced(q, pr) ==
    /\ q \in [Priorities -> Seq(Threads)]
    /\ \A p \in Priorities :
         /\ IsInjective(q[p])
         /\ \A t \in ToSet(q[p]) : pr[t] = p

On(q) == UNION {ToSet(q[p]) : p \in Priorities}

NonEmpty(q) == {p \in Priorities : q[p] # <<>>}

LEMMA EmptyList == ToSet(<<>>) = {} /\ IsInjective(<<>>)
BY DEF ToSet, IsInjective

LEMMA PositionInList ==
    ASSUME NEW S, NEW s \in Seq(S), NEW x, x \in ToSet(s)
    PROVE  Position(s, x) \in 1..Len(s) /\ s[Position(s, x)] = x
<1>1. \E i \in DOMAIN s : s[i] = x
    BY DEF ToSet
<1>2. Position(s, x) \in DOMAIN s /\ s[Position(s, x)] = x
    BY <1>1 DEF Position
<1>3. QED BY <1>2

LEMMA OnElements ==
    ASSUME NEW q, NEW t
    PROVE  t \in On(q) <=> \E p \in Priorities : t \in ToSet(q[p])
BY DEF On

\* A thread on the lists is on that of its priority.
LEMMA OnOwnList ==
    ASSUME NEW q, NEW pr, WellPlaced(q, pr), NEW t \in On(q)
    PROVE  t \in Threads /\ pr[t] \in Priorities /\ t \in ToSet(q[pr[t]])
<1>1. PICK p \in Priorities : t \in ToSet(q[p])
    BY OnElements
<1>2. pr[t] = p /\ q[p] \in Seq(Threads)
    BY <1>1 DEF WellPlaced
<1>3. QED BY <1>1, <1>2, ListElements

LEMMA NothingOn ==
    ASSUME NEW q, NEW pr, WellPlaced(q, pr)
    PROVE  On(q) = {} <=> NonEmpty(q) = {}
<1>1. \A p \in Priorities : q[p] = <<>> <=> ToSet(q[p]) = {}
    BY ListElements DEF WellPlaced
<1>2. QED BY <1>1, OnElements DEF NonEmpty

LEMMA AddedFacts ==
    ASSUME NEW q, NEW pr, WellPlaced(q, pr),
           NEW t \in Threads, NEW p \in Priorities, t \notin On(q), pr[t] = p
    PROVE  /\ WellPlaced(Added(q, t, p), pr)
           /\ On(Added(q, t, p)) = On(q) \union {t}
           /\ NonEmpty(Added(q, t, p)) = NonEmpty(q) \union {p}
<1> DEFINE r == Added(q, t, p)
<1>1. q \in [Priorities -> Seq(Threads)] /\ q[p] \in Seq(Threads)
    BY DEF WellPlaced
<1>2. /\ DOMAIN r = Priorities
      /\ r[p] = Append(q[p], t)
      /\ \A i \in Priorities : i # p => r[i] = q[i]
    BY <1>1 DEF Added
<1>3. t \notin ToSet(q[p])
    BY OnElements
<1>4. /\ r[p] \in Seq(Threads)
      /\ ToSet(r[p]) = ToSet(q[p]) \union {t}
      /\ IsInjective(r[p])
    BY <1>1, <1>2, <1>3, ListAppend DEF WellPlaced
<1>5. r \in [Priorities -> Seq(Threads)]
    <2>1. \A i \in Priorities : r[i] \in Seq(Threads)
        BY <1>1, <1>2, <1>4
    <2>2. r = [i \in Priorities |-> r[i]]
        BY <1>1 DEF Added
    <2>3. QED BY <2>1, <2>2
<1> HIDE DEF r
<1>6. WellPlaced(r, pr)
    BY <1>2, <1>4, <1>5 DEF WellPlaced
<1>7. On(r) = On(q) \union {t}
    <2>1. \A i \in Priorities : ToSet(r[i]) = IF i = p THEN ToSet(q[i]) \union {t} ELSE ToSet(q[i])
        BY <1>2, <1>4
    <2>2. \A u : u \in On(r) <=> \E i \in Priorities : u \in ToSet(r[i])
        BY OnElements
    <2>3. \A u : u \in On(q) <=> \E i \in Priorities : u \in ToSet(q[i])
        BY OnElements
    <2>4. QED BY <2>1, <2>2, <2>3
<1>8. r[p] # <<>>
    BY <1>4, ListElements
<1>9. NonEmpty(r) = NonEmpty(q) \union {p}
    BY <1>2, <1>8 DEF NonEmpty
<1>10. QED BY <1>6, <1>7, <1>9 DEF r

LEMMA RemovedFacts ==
    ASSUME NEW q, NEW pr, WellPlaced(q, pr), NEW t \in On(q)
    PROVE  LET r == Removed(q, t, pr[t])
           IN  /\ WellPlaced(r, pr)
               /\ On(r) = On(q) \ {t}
               /\ NonEmpty(r) = NonEmpty(q) \ Drained(r, pr[t])
<1> DEFINE p == pr[t]
           r == Removed(q, t, p)
<1>1. t \in Threads /\ p \in Priorities /\ t \in ToSet(q[p])
    BY OnOwnList
<1>2. q \in [Priorities -> Seq(Threads)] /\ q[p] \in Seq(Threads) /\ IsInjective(q[p])
    BY <1>1 DEF WellPlaced
<1> HIDE DEF p
<1>3. Position(q[p], t) \in 1..Len(q[p]) /\ q[p][Position(q[p], t)] = t
    BY <1>1, <1>2, PositionInList
<1>4. /\ DOMAIN r = Priorities
      /\ r[p] = RemoveAt(q[p], Position(q[p], t))
      /\ \A i \in Priorities : i # p => r[i] = q[i]
    BY <1>1, <1>2 DEF Removed
<1>5. /\ r[p] \in Seq(Threads)
      /\ ToSet(r[p]) = ToSet(q[p]) \ {t}
      /\ IsInjective(r[p])
    <2>1. /\ RemoveAt(q[p], Position(q[p], t)) \in Seq(Threads)
          /\ ToSet(RemoveAt(q[p], Position(q[p], t))) = ToSet(q[p]) \ {q[p][Position(q[p], t)]}
          /\ IsInjective(RemoveAt(q[p], Position(q[p], t)))
        BY <1>2, <1>3, ListRemoveAt
    <2>2. QED BY <1>3, <1>4, <2>1
<1>6. r \in [Priorities -> Seq(Threads)]
    <2>1. \A i \in Priorities : r[i] \in Seq(Threads)
        BY <1>2, <1>4, <1>5
    <2>2. r = [i \in Priorities |-> r[i]]
        BY <1>2 DEF Removed
    <2>3. QED BY <2>1, <2>2
<1> HIDE DEF r
<1>7. WellPlaced(r, pr)
    BY <1>4, <1>5, <1>6 DEF WellPlaced
<1>8. \A i \in Priorities : i # p => t \notin ToSet(q[i])
    BY DEF WellPlaced, p
<1>9. On(r) = On(q) \ {t}
    <2>1. \A i \in Priorities : ToSet(r[i]) = ToSet(q[i]) \ {t}
        BY <1>4, <1>5, <1>8
    <2>2. QED BY <2>1, OnElements
<1>10. q[p] # <<>>
    BY <1>1, <1>2, ListElements
<1>11. NonEmpty(r) = NonEmpty(q) \ Drained(r, p)
    BY <1>1, <1>4, <1>10 DEF NonEmpty, Drained
<1>12. QED BY <1>7, <1>9, <1>11 DEF r, p

\* The priority of a thread that is on no list may change.
LEMMA PriorityChanges ==
    ASSUME NEW q, NEW pr \in [Threads -> Priorities], WellPlaced(q, pr),
           NEW t \in Threads, t \notin On(q), NEW p
    PROVE  WellPlaced(q, [pr EXCEPT ![t] = p])
<1>1. \A i \in Priorities : t \notin ToSet(q[i])
    BY OnElements
<1>2. \A i \in Priorities : \A u \in ToSet(q[i]) : u \in Threads
    BY ListElements DEF WellPlaced
<1>3. QED BY <1>1, <1>2 DEF WellPlaced

\* A list is turned.
LEMMA FromFacts ==
    ASSUME NEW q, NEW pr, WellPlaced(q, pr), NEW p \in Priorities, NEW t \in ToSet(q[p])
    PROVE  LET r == [q EXCEPT ![p] = From(@, t)]
           IN  WellPlaced(r, pr) /\ On(r) = On(q) /\ NonEmpty(r) = NonEmpty(q)
<1> DEFINE r == [q EXCEPT ![p] = From(@, t)]
<1>1. q \in [Priorities -> Seq(Threads)] /\ q[p] \in Seq(Threads) /\ IsInjective(q[p])
    BY DEF WellPlaced
<1>2. Position(q[p], t) \in 1..Len(q[p])
    BY <1>1, PositionInList
<1>3. /\ From(q[p], t) \in Seq(Threads)
      /\ ToSet(From(q[p], t)) = ToSet(q[p])
      /\ IsInjective(From(q[p], t))
    BY <1>1, <1>2, ListRotate DEF From
<1>4. r[p] = From(q[p], t) /\ \A i \in Priorities : i # p => r[i] = q[i]
    BY <1>1
<1>5. r \in [Priorities -> Seq(Threads)]
    BY <1>1, <1>3
<1> HIDE DEF r
<1>6. \A i \in Priorities : ToSet(r[i]) = ToSet(q[i]) /\ IsInjective(r[i])
    BY <1>3, <1>4 DEF WellPlaced
<1>7. WellPlaced(r, pr)
    BY <1>5, <1>6 DEF WellPlaced
<1>8. On(r) = On(q)
    BY <1>6, OnElements
<1>9. \A i \in Priorities : r[i] = <<>> <=> q[i] = <<>>
    <2>1. \A i \in Priorities : r[i] = <<>> <=> ToSet(r[i]) = {}
        BY <1>5, ListElements
    <2>2. \A i \in Priorities : q[i] = <<>> <=> ToSet(q[i]) = {}
        BY <1>1, ListElements
    <2>3. QED BY <1>6, <2>1, <2>2
<1>10. NonEmpty(r) = NonEmpty(q)
    BY <1>9 DEF NonEmpty
<1>11. QED BY <1>7, <1>8, <1>10 DEF r

-----------------------------------------------------------------------------
(* The search.                                                              *)

\* A set of priorities has a highest one: the distances from the top slot have
\* a least one.
LEMMA HighestExists ==
    ASSUME NEW S, S \subseteq Priorities, S # {}
    PROVE  Highest(S) \in S /\ \A r \in S : r <= Highest(S)
<1> DEFINE T == {Slots - p : p \in S}
<1>1. \A p \in S : p \in Nat /\ p <= Slots
    OBVIOUS
<1>2. T \subseteq Nat /\ T # {}
    <2>1. \A p \in S : Slots - p \in Nat
        BY <1>1
    <2>2. QED BY <2>1
<1> HIDE DEF T
<1>3. PICK x \in T : \A y \in T : ~(<<y, x>> \in OpToRel(<, Nat))
    BY <1>2, NatLessThanWellFounded, WFMin, Zenon
<1> USE DEF T
<1>4. PICK p \in S : x = Slots - p
    BY <1>3
<1>5. \A y \in T : ~(y < x)
    BY <1>2, <1>3 DEF OpToRel
<1>6. \A r \in S : r <= p
    BY <1>1, <1>4, <1>5
<1>7. \E m \in S : \A r \in S : r <= m
    BY <1>6
<1>8. QED BY <1>7 DEF Highest

\* The counts of a search are natural numbers within the quotas.
CountsBounded(e) ==
    e \in [Priorities -> Nat] /\ \A p \in Priorities : e[p] <= p * 2 + 1

\* What a search finds: nothing when no thread is active; otherwise the head of
\* the chosen list, or the second when the head yields.
LEMMA PickFacts ==
    ASSUME NEW q, NEW pr, WellPlaced(q, pr), NEW from,
           lastQueue \in Priorities \union {0}, CountsBounded(executed),
           Pick(q, NonEmpty(q), from)
    PROVE  /\ WellPlaced(queue', pr)
           /\ On(queue') = On(q) /\ NonEmpty(queue') = NonEmpty(q)
           /\ lastQueue' \in Priorities \union {0}
           /\ CountsBounded(executed')
           /\ On(q) = {} => next' = NoThread
           /\ On(q) # {} =>
                LET p == ChosenQueue(NonEmpty(q))
                IN  /\ next' \in On(q)
                    /\ p \in NonEmpty(q) /\ pr[next'] = p
                    /\ next' = Candidate(q[p], from)
<1> DEFINE v == NonEmpty(q)
<1>1. Scanned(q, v) = v
    <2>1. \A p \in v : NoHigher(v) => p <= lastQueue
        BY DEF NoHigher
    <2>2. QED BY <2>1 DEF Scanned, NonEmpty
<1>2. v \subseteq Priorities
    BY DEF NonEmpty
<1>3. CASE v = {}
    <2>1. next' = NoThread /\ queue' = q /\ UNCHANGED <<lastQueue, executed>>
        BY <1>3 DEF Pick
    <2>2. On(q) = {}
        BY <1>3, NothingOn
    <2>3. QED BY <2>1, <2>2
<1>4. CASE v # {}
    <2> DEFINE p == ChosenQueue(v)
               t == Candidate(q[p], from)
    <2>1. /\ next' = t
          /\ lastQueue' = p
          /\ queue' = [q EXCEPT ![p] = From(@, t)]
          /\ executed' = [Counts(v) EXCEPT ![p] = @ + 1]
        BY <1>1, <1>4 DEF Pick
    <2>2. p \in v /\ (Allowed(v) # {} => p \in Allowed(v))
        <3>1. CASE Allowed(v) = {}
            BY <1>2, <1>4, <3>1, HighestExists DEF ChosenQueue
        <3>2. CASE Allowed(v) # {}
            <4>1. Allowed(v) \subseteq v
                BY DEF Allowed
            <4>2. Highest(Allowed(v)) \in Allowed(v)
                BY <1>2, <3>2, <4>1, HighestExists
            <4>3. QED BY <3>2, <4>1, <4>2 DEF ChosenQueue
        <3>3. QED BY <3>1, <3>2
    <2>3. p \in Priorities /\ q[p] # <<>> /\ q[p] \in Seq(Threads)
        BY <2>2 DEF NonEmpty, WellPlaced
    <2> HIDE DEF p
    <2>4. t \in ToSet(q[p])
        <3>1. Len(q[p]) \in Nat /\ Len(q[p]) >= 1 /\ Head(q[p]) = q[p][1]
            BY <2>3
        <3>2. q[p][1] \in ToSet(q[p])
            BY <2>3, <3>1, ListElements
        <3>3. Len(q[p]) > 1 => q[p][2] \in ToSet(q[p])
            <4>1. Len(q[p]) > 1 => 2 \in 1..Len(q[p])
                BY <3>1
            <4>2. QED BY <2>3, <4>1, ListElements
        <3>4. QED BY <3>1, <3>2, <3>3 DEF Candidate
    <2> HIDE DEF t
    <2>5. /\ WellPlaced(queue', pr)
          /\ On(queue') = On(q) /\ NonEmpty(queue') = v
        BY <2>1, <2>3, <2>4, FromFacts
    <2>6. CountsBounded(executed')
        <3> DEFINE c == Counts(v)
        <3>1. CountsBounded(c) /\ c[p] <= p * 2
            <4>1. CASE Allowed(v) = {}
                <5>1. c = [i \in Priorities |-> 0]
                    BY <4>1 DEF Counts
                <5>2. \A i \in Priorities : i \in Nat
                    OBVIOUS
                <5>3. c \in [Priorities -> Nat] /\ \A i \in Priorities : c[i] = 0
                    BY <5>1
                <5> HIDE DEF c
                <5>4. \A i \in Priorities : c[i] <= i * 2 + 1
                    BY <5>2, <5>3
                <5>5. c[p] <= p * 2
                    BY <2>3, <5>2, <5>3
                <5>6. QED BY <5>3, <5>4, <5>5 DEF CountsBounded
            <4>2. CASE Allowed(v) # {}
                BY <2>2, <4>2 DEF Counts, Allowed, WithinQuota
            <4>3. QED BY <4>1, <4>2
        <3> HIDE DEF c
        <3>2. executed' = [c EXCEPT ![p] = @ + 1]
            BY <2>1 DEF c
        <3>3. p \in Nat
            BY <2>3
        <3>4. c \in [Priorities -> Nat] /\ c[p] \in Nat
            BY <2>3, <3>1 DEF CountsBounded
        <3>5. executed' \in [Priorities -> Nat]
            <4>1. c[p] + 1 \in Nat
                BY <3>4
            <4>2. executed' = [c EXCEPT ![p] = c[p] + 1]
                BY <3>2
            <4>3. QED BY <3>4, <4>1, <4>2
        <3>6. executed'[p] <= p * 2 + 1 /\ \A i \in Priorities : i # p => executed'[i] = c[i]
            BY <2>3, <3>1, <3>2, <3>3, <3>4
        <3>7. QED BY <3>1, <3>5, <3>6 DEF CountsBounded
    <2>7. t \in On(q) /\ pr[t] = p
        BY <2>3, <2>4, OnElements DEF WellPlaced
    <2>8. QED BY <2>1, <2>2, <2>3, <2>5, <2>6, <2>7 DEF p, t
<1>5. QED BY <1>3, <1>4

\* The switch at the end of a call into the VM, when some thread is active.
LEMMA SwitchFacts ==
    ASSUME NEW q, NEW pr, WellPlaced(q, pr), On(q) # {},
           lastQueue \in Priorities \union {0}, CountsBounded(executed),
           next # NoThread => next \in On(q),
           SwitchThread(q, NonEmpty(q))
    PROVE  /\ WellPlaced(queue', pr)
           /\ On(queue') = On(q) /\ NonEmpty(queue') = NonEmpty(q)
           /\ valid' = NonEmpty(q)
           /\ lastQueue' \in Priorities \union {0}
           /\ CountsBounded(executed')
           /\ next' \in On(q) /\ current' = next'
<1>1. valid' = NonEmpty(q) /\ current' = next'
    BY DEF SwitchThread
<1>2. CASE next # NoThread
    <2>1. queue' = q /\ UNCHANGED <<next, lastQueue, executed>>
        BY <1>2 DEF SwitchThread
    <2>2. QED BY <1>1, <1>2, <2>1
<1>3. CASE next = NoThread
    <2>1. Pick(q, NonEmpty(q), NoThread)
        BY <1>3 DEF SwitchThread
    <2>2. QED BY <1>1, <2>1, PickFacts
<1>4. QED BY <1>2, <1>3

-----------------------------------------------------------------------------
(* The inductive invariant: that of the model, in terms of the lists.       *)

Inv ==
    /\ current \in Threads
    /\ phase \in {"java", "yield", "idle", "native"}
    /\ priority \in [Threads -> Priorities]
    /\ WellPlaced(queue, priority)
    /\ valid = NonEmpty(queue)
    /\ lastQueue \in Priorities \union {0}
    /\ CountsBounded(executed)
    /\ next # NoThread => next \in On(queue)
    /\ phase \in {"java", "native"} => current \in On(queue)
    /\ phase \in {"java", "native"} /\ lastQueue # 0 => next = current
    /\ phase = "idle" => next = NoThread

LEMMA InvMeaning == Inv => TypeOK /\ QueuesConsistent
<1> SUFFICES ASSUME Inv PROVE TypeOK /\ QueuesConsistent
    OBVIOUS
<1>1. Active = On(queue)
    BY DEF Active, On
<1>2. next \in Threads \union {NoThread}
    BY OnOwnList DEF Inv
<1>3. valid \subseteq Priorities
    BY DEF Inv, NonEmpty
<1>4. TypeOK
    BY <1>2, <1>3 DEF Inv, TypeOK, WellPlaced, CountsBounded
<1>5. QueuesConsistent
    BY <1>1 DEF Inv, QueuesConsistent, WellPlaced, NonEmpty
<1>6. QED BY <1>4, <1>5

LEMMA InitInv == Init => Inv
<1> SUFFICES ASSUME Init PROVE Inv
    OBVIOUS
<1> USE DEF Init
<1> DEFINE s == <<current>>
<1>1. s \in Seq(Threads) /\ s # <<>>
    OBVIOUS
<1>2. ToSet(s) = {current} /\ IsInjective(s)
    BY DEF ToSet, IsInjective
<1>3. queue = [p \in Priorities |-> IF p = Normal THEN s ELSE <<>>]
    OBVIOUS
<1> HIDE DEF s
<1>4. queue \in [Priorities -> Seq(Threads)]
    BY <1>1, <1>3
<1>5. WellPlaced(queue, priority)
    BY <1>2, <1>3, <1>4, EmptyList DEF WellPlaced
<1>6. valid = NonEmpty(queue)
    BY <1>1, <1>3 DEF NonEmpty
<1>7. current \in On(queue)
    BY <1>2, <1>3, OnElements
<1>8. CountsBounded(executed)
    <2>1. \A p \in Priorities : p \in Nat
        OBVIOUS
    <2>2. QED BY <2>1 DEF CountsBounded
<1>9. QED BY <1>5, <1>6, <1>7, <1>8 DEF Inv

-----------------------------------------------------------------------------
(* The steps.                                                               *)

\* After a call into the VM in Java code the current thread is the cached one.
LEMMA SwitchStep ==
    ASSUME Inv, phase = "java", UNCHANGED phase,
           priority' \in [Threads -> Priorities],
           NEW q, WellPlaced(q, priority'), On(queue) \subseteq On(q),
           SwitchThread(q, NonEmpty(q))
    PROVE  Inv'
<1>1. current \in On(queue) /\ (next # NoThread => next \in On(queue))
    BY DEF Inv
<1>2. /\ WellPlaced(queue', priority')
      /\ On(queue') = On(q) /\ NonEmpty(queue') = NonEmpty(q)
      /\ valid' = NonEmpty(q)
      /\ lastQueue' \in Priorities \union {0}
      /\ CountsBounded(executed')
      /\ next' \in On(q) /\ current' = next'
    BY <1>1, SwitchFacts DEF Inv
<1>3. current' \in Threads
    BY <1>2, OnOwnList
<1>4. QED BY <1>2, <1>3 DEF Inv

LEMMA MakeActiveStep == ASSUME Inv, NEW t \in Threads, MakeActive(t) PROVE Inv'
<1> DEFINE p == priority[t]
           q == Added(queue, t, p)
<1>1. /\ t \notin On(queue) /\ WellPlaced(queue, priority)
      /\ p \in Priorities /\ priority[t] = p
    BY DEF MakeActive, Inv, Active, On
<1> HIDE DEF p
<1>2. /\ WellPlaced(q, priority)
      /\ On(q) = On(queue) \union {t}
      /\ NonEmpty(q) = NonEmpty(queue) \union {p}
    BY <1>1, AddedFacts
<1>3. SwitchThread(q, NonEmpty(q)) /\ UNCHANGED <<phase, priority>> /\ phase = "java"
    BY <1>2 DEF MakeActive, Inv, p
<1>4. priority' = priority /\ priority' \in [Threads -> Priorities]
    BY <1>3 DEF Inv
<1> HIDE DEF q
<1>5. QED BY <1>2, <1>3, <1>4, SwitchStep

LEMMA MoveToPriorityStep ==
    ASSUME Inv, NEW t \in Threads, NEW p \in Priorities, MoveToPriority(t, p)
    PROVE  Inv'
<1> DEFINE r == Removed(queue, t, priority[t])
           q == Added(r, t, p)
<1>1. t \in On(queue) /\ WellPlaced(queue, priority) /\ priority \in [Threads -> Priorities]
    BY DEF MoveToPriority, Inv, Active, On
<1>2. /\ WellPlaced(r, priority)
      /\ On(r) = On(queue) \ {t}
      /\ NonEmpty(r) = NonEmpty(queue) \ Drained(r, priority[t])
    BY <1>1, RemovedFacts
<1>3. priority' = [priority EXCEPT ![t] = p] /\ UNCHANGED phase /\ phase = "java"
    BY DEF MoveToPriority
<1>4. priority' \in [Threads -> Priorities] /\ priority'[t] = p
    BY <1>1, <1>3
<1>5. SwitchThread(q, (NonEmpty(queue) \ Drained(r, priority[t])) \union {p})
    BY DEF MoveToPriority, Inv
<1> HIDE DEF r
<1>6. WellPlaced(r, priority') /\ t \notin On(r)
    BY <1>1, <1>2, <1>3, PriorityChanges
<1>7. /\ WellPlaced(q, priority')
      /\ On(q) = On(r) \union {t}
      /\ NonEmpty(q) = NonEmpty(r) \union {p}
    BY <1>4, <1>6, AddedFacts
<1>8. SwitchThread(q, NonEmpty(q)) /\ On(queue) \subseteq On(q)
    BY <1>2, <1>5, <1>7
<1> HIDE DEF q
<1>9. QED BY <1>3, <1>4, <1>7, <1>8, SwitchStep

LEMMA SetPriorityStep ==
    ASSUME Inv, NEW t \in Threads, NEW p \in Priorities, SetPriority(t, p)
    PROVE  Inv'
<1>1. t \notin On(queue) /\ WellPlaced(queue, priority) /\ priority \in [Threads -> Priorities]
    BY DEF SetPriority, Inv, Active, On
<1>2. priority' = [priority EXCEPT ![t] = p] /\ UNCHANGED phase /\ phase = "java"
    BY DEF SetPriority
<1>3. SwitchThread(queue, NonEmpty(queue))
    BY DEF SetPriority, Inv
<1>4. WellPlaced(queue, priority') /\ priority' \in [Threads -> Priorities]
    BY <1>1, <1>2, PriorityChanges
<1>5. QED BY <1>2, <1>3, <1>4, SwitchStep

LEMMA YieldStep == ASSUME Inv, NEW t \in Threads, Yield(t) PROVE Inv'
BY DEF Yield, Inv

LEMMA LeaveStep == ASSUME Inv, NEW t \in Threads, Leave(t) PROVE Inv'
<1> DEFINE p == priority[t]
           r == Removed(queue, t, p)
<1>1. /\ phase = "java" /\ current = t
      /\ t \in On(queue) /\ WellPlaced(queue, priority)
    BY DEF Leave, Running, Inv
<1>2. /\ WellPlaced(r, priority)
      /\ On(r) = On(queue) \ {t}
      /\ NonEmpty(r) = NonEmpty(queue) \ Drained(r, p)
    BY <1>1, RemovedFacts
<1>3. /\ queue' = r /\ valid' = NonEmpty(r) /\ next' = CacheWithout(t, r)
      /\ phase' = "yield"
      /\ UNCHANGED <<current, priority, lastQueue, executed>>
    BY <1>2 DEF Leave, Inv
<1>4. p \in Priorities
    BY <1>1, OnOwnList
<1> HIDE DEF r
<1>5. next' # NoThread => next' \in On(r)
    <2>1. CASE next = t
        <3>1. next' = First(r[p])
            BY <1>3, <2>1 DEF CacheWithout
        <3>2. r[p] \in Seq(Threads)
            BY <1>2, <1>4 DEF WellPlaced
        <3>3. r[p] # <<>> => Head(r[p]) \in ToSet(r[p])
            BY <3>2, ListTail
        <3>4. QED BY <1>4, <3>1, <3>3, OnElements DEF First
    <2>2. CASE next # t
        BY <1>2, <1>3, <2>2 DEF CacheWithout, Inv
    <2>3. QED BY <2>1, <2>2
<1>6. QED BY <1>2, <1>3, <1>5 DEF Inv

LEMMA WakeUpStep == ASSUME Inv, NEW t \in Threads, WakeUp(t) PROVE Inv'
<1> DEFINE p == priority[t]
           q == Added(queue, t, p)
<1>1. /\ t \notin On(queue) /\ WellPlaced(queue, priority)
      /\ p \in Priorities /\ priority[t] = p
    BY DEF WakeUp, Inv, Active, On
<1> HIDE DEF p
<1>2. /\ WellPlaced(q, priority)
      /\ On(q) = On(queue) \union {t}
      /\ NonEmpty(q) = NonEmpty(queue) \union {p}
    BY <1>1, AddedFacts
<1>3. /\ queue' = q /\ valid' = NonEmpty(q) /\ phase \in {"yield", "idle"}
      /\ UNCHANGED <<current, phase, priority, lastQueue, executed, next>>
    BY <1>2 DEF WakeUp, Inv, p
<1> HIDE DEF q
<1>4. QED BY <1>2, <1>3 DEF Inv

LEMMA DispatchStep == ASSUME Inv, Dispatch PROVE Inv'
<1>1. WellPlaced(queue, priority) /\ Pick(queue, NonEmpty(queue), current)
    BY DEF Dispatch, Inv
<1>2. /\ WellPlaced(queue', priority)
      /\ On(queue') = On(queue) /\ NonEmpty(queue') = NonEmpty(queue)
      /\ lastQueue' \in Priorities \union {0}
      /\ CountsBounded(executed')
      /\ On(queue) = {} => next' = NoThread
      /\ On(queue) # {} => next' \in On(queue)
    BY <1>1, PickFacts DEF Inv
<1>3. /\ UNCHANGED <<priority, valid>>
      /\ IF next' = NoThread
         THEN phase' = "idle" /\ UNCHANGED current
         ELSE phase' = "java" /\ current' = next'
    BY DEF Dispatch
<1>4. CASE next' = NoThread
    BY <1>2, <1>3, <1>4 DEF Inv
<1>5. CASE next' # NoThread
    <2>1. next' \in On(queue) /\ next' \in Threads
        BY <1>1, <1>2, <1>5, OnOwnList
    <2>2. QED BY <1>2, <1>3, <1>5, <2>1 DEF Inv
<1>6. QED BY <1>4, <1>5

LEMMA DispatchIdleStep == ASSUME Inv, DispatchIdle PROVE Inv'
<1>1. /\ WellPlaced(queue, priority) /\ NonEmpty(queue) # {}
      /\ SwitchThread(queue, NonEmpty(queue))
      /\ phase' = "java" /\ UNCHANGED priority
    BY DEF DispatchIdle, Inv
<1>2. On(queue) # {}
    BY <1>1, NothingOn
<1>3. /\ WellPlaced(queue', priority)
      /\ On(queue') = On(queue) /\ NonEmpty(queue') = NonEmpty(queue)
      /\ valid' = NonEmpty(queue)
      /\ lastQueue' \in Priorities \union {0}
      /\ CountsBounded(executed')
      /\ next' \in On(queue) /\ current' = next'
    BY <1>1, <1>2, SwitchFacts DEF Inv
<1>4. current' \in Threads
    BY <1>1, <1>3, OnOwnList
<1>5. QED BY <1>1, <1>3, <1>4 DEF Inv

LEMMA TerminateAllStep == ASSUME Inv, NEW t \in Threads, TerminateAll(t) PROVE Inv'
<1> DEFINE p == priority[t]
           s == <<t>>
           q == [i \in Priorities |-> IF i = p THEN s ELSE <<>>]
<1>1. p \in Priorities
    BY DEF Inv
<1>2. s \in Seq(Threads) /\ s # <<>>
    OBVIOUS
<1>3. ToSet(s) = {t} /\ IsInjective(s)
    BY DEF ToSet, IsInjective
<1>4. Pick(q, {p}, NoThread) /\ valid' = {p} /\ phase' = "native" /\ current = t
      /\ UNCHANGED <<current, priority>>
    BY DEF TerminateAll, Running
<1> HIDE DEF s
<1>5. q \in [Priorities -> Seq(Threads)]
    BY <1>2
<1>6. q[p] = s /\ \A i \in Priorities : i # p => q[i] = <<>>
    BY <1>1
<1> HIDE DEF q
<1>7. WellPlaced(q, priority)
    BY <1>3, <1>5, <1>6, EmptyList DEF WellPlaced
<1>8. NonEmpty(q) = {p}
    BY <1>1, <1>2, <1>6 DEF NonEmpty
<1>9. On(q) = {t}
    BY <1>1, <1>3, <1>6, EmptyList, OnElements
<1>10. /\ WellPlaced(queue', priority)
       /\ On(queue') = {t} /\ NonEmpty(queue') = {p}
       /\ lastQueue' \in Priorities \union {0}
       /\ CountsBounded(executed')
       /\ next' = t
    BY <1>4, <1>7, <1>8, <1>9, PickFacts DEF Inv
<1>11. QED BY <1>4, <1>10 DEF Inv

LEMMA NextInv == Inv /\ [Next]_vars => Inv'
<1> SUFFICES ASSUME Inv, [Next]_vars PROVE Inv'
    OBVIOUS
<1>1. ASSUME NEW t \in Threads, MakeActive(t) PROVE Inv'
    BY <1>1, MakeActiveStep
<1>2. ASSUME NEW t \in Threads, NEW p \in Priorities, MoveToPriority(t, p) PROVE Inv'
    BY <1>2, MoveToPriorityStep
<1>3. ASSUME NEW t \in Threads, NEW p \in Priorities, SetPriority(t, p) PROVE Inv'
    BY <1>3, SetPriorityStep
<1>4. ASSUME NEW t \in Threads, Yield(t) PROVE Inv'
    BY <1>4, YieldStep
<1>5. ASSUME NEW t \in Threads, Leave(t) PROVE Inv'
    BY <1>5, LeaveStep
<1>6. ASSUME NEW t \in Threads, WakeUp(t) PROVE Inv'
    BY <1>6, WakeUpStep
<1>7. ASSUME NEW t \in Threads, TerminateAll(t) PROVE Inv'
    BY <1>7, TerminateAllStep
<1>8. CASE Dispatch
    BY <1>8, DispatchStep
<1>9. CASE DispatchIdle
    BY <1>9, DispatchIdleStep
<1>10. CASE Stopped \/ UNCHANGED vars
    BY <1>10 DEF Stopped, vars, Inv
<1>11. QED BY <1>1, <1>2, <1>3, <1>4, <1>5, <1>6, <1>7, <1>8, <1>9, <1>10 DEF Next

LEMMA AlwaysInv == Spec => []Inv
BY InitInv, NextInv, PTL DEF Spec

-----------------------------------------------------------------------------
(* The theorems.                                                            *)

\* The variables keep their types, and the counts stay within an unsigned char
\* whatever the program does with priorities (get_next_runnable_thread).
THEOREM AlwaysTypeOK == Spec => []TypeOK
BY AlwaysInv, InvMeaning, PTL

\* The bit mask, the lists, the priorities and the cached next thread agree
\* (adjust_priority_list, set_priority, remove_from_active).
THEOREM AlwaysQueuesConsistent == Spec => []QueuesConsistent
BY AlwaysInv, InvMeaning, PTL

\* A yield goes idle only when no thread is active: the start at the last queue
\* and the quotas hide none (get_next_runnable_thread).
THEOREM SearchAlwaysComplete == Spec => SearchComplete
<1> DEFINE Found == (phase = "yield" /\ phase' = "idle") => Active = {}
<1>1. Inv /\ [Next]_vars => [Found]_vars
    <2> SUFFICES ASSUME Inv, [Next]_vars, phase = "yield", phase' = "idle"
                 PROVE  Active = {}
        OBVIOUS
    <2>1. Dispatch
        BY DEF Next, MakeActive, MoveToPriority, SetPriority, Yield, Leave, WakeUp,
               TerminateAll, Running, Stopped, DispatchIdle, vars
    <2>2. WellPlaced(queue, priority) /\ Pick(queue, NonEmpty(queue), current)
        BY <2>1 DEF Dispatch, Inv
    <2>3. On(queue) # {} => next' \in On(queue)
        BY <2>2, PickFacts DEF Inv
    <2>4. next' = NoThread
        BY <2>1 DEF Dispatch
    <2>5. NoThread \notin On(queue)
        BY <2>2, OnOwnList
    <2>6. QED BY <2>3, <2>4, <2>5 DEF Active, On
<1>2. QED BY <1>1, AlwaysInv, PTL DEF Spec, SearchComplete

\* A yield passes over a higher queue only when its quota is used up, and
\* returns to the yielding thread only when its list has no other
\* (get_next_runnable_thread).
THEOREM PriorityAlwaysRespected == Spec => PriorityRespected
<1> DEFINE Respected ==
        Dispatch /\ next' # NoThread =>
          /\ \A p \in Priorities : queue[p] # <<>> /\ p > priority[next'] =>
               ~WithinQuota(p)
          /\ next' = current => queue[priority[current]] = <<current>>
<1>1. Inv /\ [Next]_vars => [Respected]_vars
    <2> SUFFICES ASSUME Inv, Dispatch, next' # NoThread
                 PROVE  /\ \A p \in Priorities : queue[p] # <<>> /\ p > priority[next'] =>
                             ~WithinQuota(p)
                        /\ next' = current => queue[priority[current]] = <<current>>
        OBVIOUS
    <2> DEFINE v == NonEmpty(queue)
               c == ChosenQueue(v)
               s == queue[c]
    <2>1. WellPlaced(queue, priority) /\ Pick(queue, v, current)
        BY DEF Dispatch, Inv
    <2>2. On(queue) = {} => next' = NoThread
        BY <2>1, PickFacts DEF Inv
    <2>3. c \in v /\ priority[next'] = c /\ next' = Candidate(s, current)
        BY <2>1, <2>2, PickFacts DEF Inv
    <2>4. v \subseteq Priorities /\ c \in Priorities /\ s # <<>>
        BY <2>3 DEF NonEmpty
    <2>5. s \in Seq(Threads) /\ IsInjective(s)
        BY <2>1, <2>4 DEF WellPlaced
    <2>6. ASSUME NEW p \in v, p > c PROVE ~WithinQuota(p)
        <3>1. CASE Allowed(v) = {}
            BY <3>1 DEF Allowed
        <3>2. CASE Allowed(v) # {}
            <4>1. c = Highest(Allowed(v)) /\ Allowed(v) \subseteq Priorities
                BY <2>4, <3>2 DEF ChosenQueue, Allowed
            <4>2. \A r \in Allowed(v) : r <= c
                BY <3>2, <4>1, HighestExists
            <4> HIDE DEF v, c
            <4>3. p \in Nat /\ c \in Nat
                BY <2>4
            <4>4. p \notin Allowed(v)
                BY <2>6, <4>2, <4>3
            <4>5. QED BY <4>4 DEF Allowed
        <3>3. QED BY <3>1, <3>2
    <2>7. ASSUME next' = current PROVE s = <<current>>
        <3> HIDE DEF s
        <3>1. Len(s) \in Nat /\ Len(s) >= 1 /\ Head(s) = s[1]
            BY <2>4, <2>5
        <3>2. \A i, j \in 1..Len(s) : s[i] = s[j] => i = j
            BY <2>5, ListInjective
        <3>3. ~(Len(s) > 1)
            <4>1. SUFFICES ASSUME Len(s) > 1 PROVE FALSE
                OBVIOUS
            <4>2. 1 \in 1..Len(s) /\ 2 \in 1..Len(s)
                BY <3>1, <4>1
            <4>3. s[1] # s[2]
                BY <3>2, <4>2
            <4>4. QED BY <2>3, <2>7, <3>1, <4>1, <4>3 DEF Candidate
        <3>4. s[1] = current
            BY <2>3, <2>7, <3>1, <3>3 DEF Candidate
        <3> HIDE DEF v, c
        <3>5. Len(s) = 1
            <4>1. \A n \in Nat : n >= 1 /\ ~(n > 1) => n = 1
                OBVIOUS
            <4>2. QED BY <3>1, <3>3, <4>1, Zenon
        <3>6. s = [i \in 1..1 |-> s[i]]
            BY <2>5, <3>5
        <3>7. QED BY <3>4, <3>6
    <2>8. \A p \in Priorities : queue[p] # <<>> => p \in v
        BY DEF NonEmpty
    <2> HIDE DEF v, c
    <2>9. QED BY <2>3, <2>6, <2>7, <2>8
<1>2. QED BY <1>1, AlwaysInv, PTL DEF Spec, PriorityRespected

=============================================================================
