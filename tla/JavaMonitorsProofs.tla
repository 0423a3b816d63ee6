-------------------------- MODULE JavaMonitorsProofs --------------------------
(***************************************************************************)
(* The abstract monitors exclude each other's owners, for every number of  *)
(* threads, objects and nested locks.                                      *)
(***************************************************************************)
EXTENDS JavaMonitors, TLAPS

\* The part of the invariant about one object.
ExclusionOf(o) ==
    /\ entrySet[o] # {} => owner[o] # NoThread
    /\ entrySet[o] \intersect waitSet[o] = {}
    /\ owner[o] \notin entrySet[o] \union waitSet[o]
    /\ \A t \in Threads :
         depth[t][o] > 0 <=> t \in {owner[o]} \union entrySet[o] \union waitSet[o]

LEMMA ExclusionByObject == Exclusion <=> \A o \in Objects : ExclusionOf(o)
BY DEF Exclusion, ExclusionOf

\* A step that leaves the state of p alone keeps what is said of p.
LEMMA OtherObject ==
    ASSUME NEW p \in Objects, ExclusionOf(p),
           owner'[p] = owner[p], entrySet'[p] = entrySet[p], waitSet'[p] = waitSet[p],
           \A t \in Threads : depth'[t][p] = depth[t][p]
    PROVE  ExclusionOf(p)'
BY DEF ExclusionOf

\* A release gives the object to nobody, or to one that contended for it.
LEMMA HandOverType ==
    ASSUME TypeOK, NEW o \in Objects, HandOver(o)
    PROVE  /\ owner' \in [Objects -> Threads \union {NoThread}]
           /\ entrySet' \in [Objects -> SUBSET Threads]
           /\ \A p \in Objects \ {o} : owner'[p] = owner[p] /\ entrySet'[p] = entrySet[p]
           /\ \/ entrySet[o] = {} /\ owner'[o] = NoThread /\ entrySet'[o] = {}
              \/ /\ owner'[o] \in entrySet[o]
                 /\ entrySet'[o] = entrySet[o] \ {owner'[o]}
BY DEF TypeOK, HandOver

\* Every operation keeps the types and the exclusion of every object.
LEMMA NextExclusion ==
    ASSUME MaxDepth \in Nat \ {0}, NoThread \notin Threads,
           TypeOK, Exclusion, [Next]_vars
    PROVE  TypeOK' /\ Exclusion'
<1> SUFFICES TypeOK' /\ \A p \in Objects : ExclusionOf(p)'
    BY DEF Exclusion, ExclusionOf
<1>0. \A p \in Objects : ExclusionOf(p)
    BY ExclusionByObject
<1>1. ASSUME NEW t \in Threads, NEW o \in Objects, Enter(t, o)
      PROVE  TypeOK' /\ \A p \in Objects : ExclusionOf(p)'
    <2>1. TypeOK'
        BY <1>1 DEF Enter, TypeOK
    <2>2. ExclusionOf(o)'
        BY <1>0, <1>1 DEF Enter, Free, TypeOK, ExclusionOf
    <2>3. \A p \in Objects \ {o} : ExclusionOf(p)'
        BY <1>0, <1>1, OtherObject DEF Enter, TypeOK
    <2>4. QED BY <2>1, <2>2, <2>3
<1>2. ASSUME NEW t \in Threads, NEW o \in Objects, Contend(t, o)
      PROVE  TypeOK' /\ \A p \in Objects : ExclusionOf(p)'
    <2>1. depth[t][o] = 0
        BY <1>0, <1>2 DEF Contend, Free, TypeOK, ExclusionOf
    <2>2. TypeOK'
        BY <1>2, <2>1 DEF Contend, TypeOK
    <2>3. ExclusionOf(o)'
        BY <1>0, <1>2, <2>1 DEF Contend, Free, TypeOK, ExclusionOf
    <2>4. \A p \in Objects \ {o} : ExclusionOf(p)'
        BY <1>0, <1>2, OtherObject DEF Contend, TypeOK
    <2>5. QED BY <2>2, <2>3, <2>4
<1>3. ASSUME NEW t \in Threads, NEW o \in Objects, Exit(t, o)
      PROVE  TypeOK' /\ \A p \in Objects : ExclusionOf(p)'
    <2>1. depth[t][o] \in 1..MaxDepth
        BY <1>0, <1>3 DEF Exit, TypeOK, ExclusionOf
    <2>2. depth' \in [Threads -> [Objects -> 0..MaxDepth]]
        BY <1>3, <2>1 DEF Exit, TypeOK
    <2>3. CASE depth[t][o] > 1
        <3>1. TypeOK'
            BY <1>3, <2>2, <2>3 DEF Exit, TypeOK
        <3>2. ExclusionOf(o)'
            BY <1>0, <1>3, <2>1, <2>3 DEF Exit, TypeOK, ExclusionOf
        <3>3. \A p \in Objects \ {o} : ExclusionOf(p)'
            BY <1>0, <1>3, <2>3, OtherObject DEF Exit, TypeOK
        <3>4. QED BY <3>1, <3>2, <3>3
    <2>4. CASE depth[t][o] = 1
        <3>1. HandOver(o) /\ UNCHANGED waitSet /\ owner[o] = t
            BY <1>3, <2>4 DEF Exit
        <3>2. TypeOK'
            BY <2>2, <3>1, HandOverType DEF TypeOK
        <3>3. \A u \in Threads : depth'[u][o] = IF u = t THEN 0 ELSE depth[u][o]
            BY <1>3, <2>4 DEF Exit, TypeOK
        <3>4. ExclusionOf(o)'
            BY <1>0, <3>1, <3>3, HandOverType DEF TypeOK, ExclusionOf
        <3>5. \A p \in Objects \ {o} : ExclusionOf(p)'
            BY <1>0, <1>3, <3>1, HandOverType, OtherObject DEF Exit, TypeOK
        <3>6. QED BY <3>2, <3>4, <3>5
    <2>5. QED BY <2>1, <2>3, <2>4
<1>4. ASSUME NEW t \in Threads, NEW o \in Objects, WaitOn(t, o)
      PROVE  TypeOK' /\ \A p \in Objects : ExclusionOf(p)'
    <2>1. TypeOK'
        BY <1>4, HandOverType DEF WaitOn, TypeOK
    <2>2. /\ HandOver(o) /\ owner[o] = t /\ UNCHANGED depth
          /\ waitSet'[o] = waitSet[o] \union {t}
        BY <1>4 DEF WaitOn, TypeOK
    <2>3. ExclusionOf(o)'
        BY <1>0, <2>2, HandOverType DEF TypeOK, ExclusionOf
    <2>4. \A p \in Objects \ {o} : ExclusionOf(p)'
        BY <1>0, <1>4, HandOverType, OtherObject DEF WaitOn, TypeOK
    <2>5. QED BY <2>1, <2>3, <2>4
<1>5. ASSUME NEW o \in Objects, NEW W \in SUBSET waitSet[o], StopWaiting(o, W)
      PROVE  TypeOK' /\ \A p \in Objects : ExclusionOf(p)'
    <2>1. W \subseteq Threads
        BY DEF TypeOK
    <2>2. TypeOK'
        BY <1>5, <2>1 DEF StopWaiting, TypeOK
    <2>3. ExclusionOf(o)'
        BY <1>0, <1>5, <2>1 DEF StopWaiting, TypeOK, ExclusionOf
    <2>4. \A p \in Objects \ {o} : ExclusionOf(p)'
        BY <1>0, <1>5, OtherObject DEF StopWaiting, TypeOK
    <2>5. QED BY <2>2, <2>3, <2>4
<1>6. CASE UNCHANGED vars
    BY <1>0, <1>6 DEF vars, TypeOK, ExclusionOf
<1>7. QED BY <1>1, <1>2, <1>3, <1>4, <1>5, <1>6 DEF Next

\* An object has one owner at most, which neither contends for it nor waits on it,
\* nobody contends for an object without an owner, and the threads with locks on
\* it are those three kinds: what Synchronizer::enter, exit and Scheduler::wait
\* promise to Java code once the scheduler is known to implement JavaMonitors.
THEOREM AlwaysExclusion ==
    ASSUME MaxDepth \in Nat \ {0}, NoThread \notin Threads
    PROVE  Spec => []Exclusion
<1>1. Init => TypeOK /\ Exclusion
    BY DEF Init, TypeOK, Exclusion
<1>2. (TypeOK /\ Exclusion) /\ [Next]_vars => (TypeOK /\ Exclusion)'
    BY NextExclusion
<1>3. QED BY <1>1, <1>2, PTL DEF Spec
=============================================================================
