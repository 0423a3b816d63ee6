---------------------------- MODULE ClassInitProofs ----------------------------
(***************************************************************************)
(* Theorems about module ClassInit, for every set of threads and classes,  *)
(* every superclass relation and all that static initializers use.         *)
(***************************************************************************)
EXTENDS ClassInit, TLAPS

MonitorProofs == INSTANCE JavaMonitorsProofs WITH Objects <- Classes, MaxDepth <- 1

USE ClassAssumption

Involved(c) == {owner[c]} \union entrySet[c] \union waitSet[c]

-----------------------------------------------------------------------------
(* The monitors: what each operation does to the threads that own, contend *)
(* for or wait on a class.                                                 *)

LEMMA MonitorsKept ==
    ASSUME Monitor!TypeOK, Monitor!Exclusion, [Monitor!Next]_monitors
    PROVE  Monitor!TypeOK' /\ Monitor!Exclusion'
<1>1. MonitorProofs!TypeOK /\ MonitorProofs!Exclusion /\ [MonitorProofs!Next]_MonitorProofs!vars
    BY DEF Monitor!TypeOK, Monitor!Exclusion, Monitor!Next, monitors,
           MonitorProofs!TypeOK, MonitorProofs!Exclusion, MonitorProofs!Next, MonitorProofs!vars,
           Monitor!Enter, Monitor!Contend, Monitor!Exit, Monitor!WaitOn, Monitor!StopWaiting,
           Monitor!Free, Monitor!HandOver, MonitorProofs!Enter, MonitorProofs!Contend,
           MonitorProofs!Exit, MonitorProofs!WaitOn, MonitorProofs!StopWaiting,
           MonitorProofs!Free, MonitorProofs!HandOver
<1>2. MonitorProofs!TypeOK' /\ MonitorProofs!Exclusion'
    BY <1>1, MonitorProofs!NextExclusion
<1>3. QED
    BY <1>2 DEF Monitor!TypeOK, Monitor!Exclusion, MonitorProofs!TypeOK, MonitorProofs!Exclusion

\* what an operation of t may not change: involvement and ownership of the others
OthersKeepLocks(t) ==
    \A u \in Threads \ {t}, d \in Classes :
        /\ u \in Involved(d)' <=> u \in Involved(d)
        /\ owner[d] = u => owner'[d] = u

LEMMA LockFacts ==
    ASSUME Monitor!TypeOK, NEW t \in Threads, NEW c \in Classes,
           Monitor!Enter(t, c) \/ Monitor!Contend(t, c)
    PROVE  /\ [Monitor!Next]_monitors
           /\ OthersKeepLocks(t)
           /\ \A d \in Classes : t \in Involved(d)' <=> (t \in Involved(d) \/ d = c)
           /\ waitSet' = waitSet
<1>1. [Monitor!Next]_monitors
    BY DEF Monitor!Next
<1>2. CASE Monitor!Enter(t, c)
    <2>1. waitSet' = waitSet /\ entrySet' = entrySet /\ owner[c] \in {NoThread, t}
        BY <1>2 DEF Monitor!Enter
    <2>2. \A d \in Classes : owner'[d] = IF d = c THEN t ELSE owner[d]
        BY <1>2 DEF Monitor!Enter, Monitor!TypeOK
    <2>3. QED BY <1>1, <2>1, <2>2 DEF OthersKeepLocks, Involved
<1>3. CASE Monitor!Contend(t, c)
    <2>1. waitSet' = waitSet /\ owner' = owner
        BY <1>3 DEF Monitor!Contend
    <2>2. \A d \in Classes :
             entrySet'[d] = IF d = c THEN entrySet[d] \union {t} ELSE entrySet[d]
        BY <1>3 DEF Monitor!Contend, Monitor!TypeOK
    <2>3. QED BY <1>1, <2>1, <2>2 DEF OthersKeepLocks, Involved
<1>4. QED BY <1>2, <1>3

\* A lock that is given up goes to nobody or to one that contended for it.
LEMMA HandOverFacts ==
    ASSUME Monitor!TypeOK, NEW t \in Threads, NEW c \in Classes, Monitor!HandOver(c)
    PROVE  /\ \A d \in Classes \ {c} : owner'[d] = owner[d] /\ entrySet'[d] = entrySet[d]
           /\ \/ entrySet[c] = {} /\ owner'[c] = NoThread /\ entrySet'[c] = {}
              \/ /\ owner'[c] \in entrySet[c]
                 /\ entrySet'[c] = entrySet[c] \ {owner'[c]}
BY DEF Monitor!TypeOK, Monitor!HandOver

LEMMA ExitFacts ==
    ASSUME Monitor!TypeOK, Monitor!Exclusion, NEW t \in Threads, NEW c \in Classes,
           Monitor!Exit(t, c)
    PROVE  /\ [Monitor!Next]_monitors
           /\ OthersKeepLocks(t)
           /\ \A d \in Classes : t \in Involved(d)' <=> (t \in Involved(d) /\ d # c)
           /\ waitSet' = waitSet
<1>1. [Monitor!Next]_monitors
    BY DEF Monitor!Next
<1>2. ~(depth[t][c] > 1)
    BY DEF Monitor!TypeOK
<1>3. /\ Monitor!HandOver(c) /\ waitSet' = waitSet
      /\ owner[c] = t /\ t \notin entrySet[c] /\ t \notin waitSet[c]
    BY <1>2 DEF Monitor!Exit, Monitor!Free
<1>4. QED
    BY <1>1, <1>3, HandOverFacts DEF OthersKeepLocks, Involved

LEMMA WaitFacts ==
    ASSUME Monitor!TypeOK, Monitor!Exclusion, NEW t \in Threads, NEW c \in Classes,
           Monitor!WaitOn(t, c)
    PROVE  /\ [Monitor!Next]_monitors
           /\ OthersKeepLocks(t)
           /\ \A d \in Classes : t \in Involved(d)' <=> t \in Involved(d)
           /\ \A d \in Classes \ {c} : waitSet'[d] = waitSet[d]
<1>1. [Monitor!Next]_monitors
    BY DEF Monitor!Next
<1>2. /\ Monitor!HandOver(c)
      /\ owner[c] = t /\ t \notin entrySet[c] /\ t \notin waitSet[c]
    BY DEF Monitor!WaitOn, Monitor!Free
<1>3. \A d \in Classes : waitSet'[d] = IF d = c THEN waitSet[d] \union {t} ELSE waitSet[d]
    BY DEF Monitor!TypeOK, Monitor!WaitOn
<1>4. /\ \A d \in Classes \ {c} : owner'[d] = owner[d] /\ entrySet'[d] = entrySet[d]
      /\ \/ entrySet[c] = {} /\ owner'[c] = NoThread /\ entrySet'[c] = {}
         \/ owner'[c] \in entrySet[c] /\ entrySet'[c] = entrySet[c] \ {owner'[c]}
    BY <1>2, HandOverFacts
<1>5. \A u \in Threads : u \in Involved(c)' <=> u \in Involved(c)
    BY <1>2, <1>3, <1>4 DEF Involved
<1>6. \A u \in Threads, d \in Classes \ {c} : u \in Involved(d)' <=> u \in Involved(d)
    BY <1>3, <1>4 DEF Involved
<1>7. OthersKeepLocks(t)
    BY <1>2, <1>4, <1>5, <1>6 DEF OthersKeepLocks
<1>8. QED BY <1>1, <1>3, <1>5, <1>6, <1>7

LEMMA StopFacts ==
    ASSUME Monitor!TypeOK, Monitor!Exclusion, NEW c \in Classes,
           NEW W \in SUBSET waitSet[c], Monitor!StopWaiting(c, W)
    PROVE  /\ [Monitor!Next]_monitors
           /\ \A u \in Threads, d \in Classes :
                /\ u \in Involved(d)' <=> u \in Involved(d)
                /\ owner[d] = u => owner'[d] = u
           /\ \A d \in Classes \ {c} : waitSet'[d] = waitSet[d]
           /\ waitSet'[c] = waitSet[c] \ W
<1>1. [Monitor!Next]_monitors
    BY DEF Monitor!Next
<1>2. W \subseteq waitSet[c]
    OBVIOUS
<1>3. \A d \in Classes : waitSet'[d] = IF d = c THEN waitSet[d] \ W ELSE waitSet[d]
    BY DEF Monitor!TypeOK, Monitor!StopWaiting
<1>4. CASE owner[c] # NoThread
    <2>1. owner' = owner
        BY <1>4 DEF Monitor!StopWaiting
    <2>2. \A d \in Classes :
             entrySet'[d] = IF d = c THEN entrySet[d] \union W ELSE entrySet[d]
        BY <1>4 DEF Monitor!TypeOK, Monitor!StopWaiting
    <2>3. QED BY <1>1, <1>2, <1>3, <2>1, <2>2 DEF Involved
<1>5. CASE owner[c] = NoThread
    <2>1. PICK u \in W : /\ owner' = [owner EXCEPT ![c] = u]
                         /\ entrySet' = [entrySet EXCEPT ![c] = @ \union (W \ {u})]
        BY <1>5 DEF Monitor!StopWaiting
    <2>2. \A d \in Classes : owner'[d] = IF d = c THEN u ELSE owner[d]
        BY <2>1 DEF Monitor!TypeOK
    <2>3. \A d \in Classes :
             entrySet'[d] = IF d = c THEN entrySet[d] \union (W \ {u}) ELSE entrySet[d]
        BY <2>1 DEF Monitor!TypeOK
    <2>4. QED BY <1>1, <1>2, <1>3, <1>5, <2>2, <2>3 DEF Involved
<1>6. QED BY <1>4, <1>5

LEMMA LocksUntouched ==
    ASSUME UNCHANGED monitors
    PROVE  /\ [Monitor!Next]_monitors
           /\ \A u \in Threads, d \in Classes :
                /\ u \in Involved(d)' <=> u \in Involved(d)
                /\ owner[d] = u => owner'[d] = u
           /\ waitSet' = waitSet
BY DEF monitors, Involved

-----------------------------------------------------------------------------
(* The calls.                                                              *)

\* t's innermost call becomes k
Moves(t, k) ==
    /\ calls' \in [Threads -> Seq(Calls)]
    /\ \A u \in Threads \ {t} : calls'[u] = calls[u]
    /\ Len(calls'[t]) = Len(calls[t])
    /\ calls'[t][Len(calls[t])] = k
    /\ \A i \in 1..Len(calls[t]) - 1 : calls'[t][i] = calls[t][i]

LEMMA InnermostCall ==
    ASSUME TypeOK, NEW t \in Threads, calls[t] # <<>>
    PROVE  /\ Len(calls[t]) \in Nat \ {0}
           /\ Len(calls[t]) \in DOMAIN calls[t]
           /\ Last(calls[t]) = calls[t][Len(calls[t])]
           /\ Last(calls[t]) \in Calls
BY DEF TypeOK, Last

LEMMA MoveFacts ==
    ASSUME TypeOK, NEW t \in Threads, calls[t] # <<>>, NEW k \in Calls,
           calls' = [calls EXCEPT ![t][Len(calls[t])] = k]
    PROVE  Moves(t, k)
<1>1. calls[t] \in Seq(Calls) /\ Len(calls[t]) \in Nat \ {0}
    BY InnermostCall DEF TypeOK
<1>2. [calls[t] EXCEPT ![Len(calls[t])] = k] \in Seq(Calls)
    BY <1>1
<1>3. calls' = [calls EXCEPT ![t] = [calls[t] EXCEPT ![Len(calls[t])] = k]]
    OBVIOUS
<1>4. calls' \in [Threads -> Seq(Calls)]
    BY <1>2, <1>3 DEF TypeOK
<1>5. calls'[t] = [calls[t] EXCEPT ![Len(calls[t])] = k]
    BY <1>3 DEF TypeOK
<1>6. \A u \in Threads \ {t} : calls'[u] = calls[u]
    BY <1>3 DEF TypeOK
<1>7. QED BY <1>1, <1>4, <1>5, <1>6 DEF Moves

LEMMA MoveDomains ==
    ASSUME TypeOK, NEW t \in Threads, calls[t] # <<>>, NEW k, Moves(t, k)
    PROVE  /\ DOMAIN calls[t] = 1..Len(calls[t]) /\ DOMAIN calls'[t] = DOMAIN calls[t]
           /\ Len(calls[t]) \in DOMAIN calls[t]
           /\ calls'[t][Len(calls[t])] = k /\ Last(calls'[t]) = k
           /\ \A i \in DOMAIN calls[t] : i # Len(calls[t]) => calls'[t][i] = calls[t][i]
<1>1. /\ calls[t] \in Seq(Calls) /\ calls'[t] \in Seq(Calls)
      /\ Len(calls[t]) \in Nat \ {0} /\ Len(calls'[t]) = Len(calls[t])
    BY InnermostCall DEF TypeOK, Moves
<1>2. DOMAIN calls[t] = 1..Len(calls[t]) /\ DOMAIN calls'[t] = DOMAIN calls[t]
    BY <1>1
<1>3. \A i \in DOMAIN calls[t] : i # Len(calls[t]) => i \in 1..Len(calls[t]) - 1
    BY <1>1, <1>2
<1>4. calls'[t][Len(calls[t])] = k /\ Last(calls'[t]) = k
    BY <1>1 DEF Moves, Last
<1>5. \A i \in 1..Len(calls[t]) - 1 : calls'[t][i] = calls[t][i]
    BY DEF Moves
<1>6. QED BY <1>1, <1>2, <1>3, <1>4, <1>5, InnermostCall

LEMMA GoesFacts ==
    ASSUME TypeOK, NEW t \in Threads, calls[t] # <<>>, NEW place \in Places, Goes(t, place)
    PROVE  /\ [Last(calls[t]) EXCEPT !.at = place] \in Calls
           /\ calls' = [calls EXCEPT ![t][Len(calls[t])] = [Last(calls[t]) EXCEPT !.at = place]]
BY InnermostCall DEF Goes, Calls, Last

\* Of the calls of t all but the one at m stay as they are, or are about to
\* return and end, or begin; the other threads' calls stay.
Persist(t, m) ==
    /\ \A u \in Threads \ {t} : calls'[u] = calls[u]
    /\ \A i \in DOMAIN calls'[t] \ {m} :
          \/ i \in DOMAIN calls[t] /\ calls'[t][i] = calls[t][i]
          \/ calls'[t][i].at = "lock" /\ ~calls'[t][i].error
    /\ \A i \in DOMAIN calls[t] \ {m} :
          \/ i \in DOMAIN calls'[t] /\ calls'[t][i] = calls[t][i]
          \/ calls[t][i].at = "leave"

OthersStayReady(t) ==
    \A u \in Threads \ {t}, d \in Classes : Initialized(u, d) => Initialized(u, d)'

LEMMA OneInProgress ==
    ASSUME OneInitializer, NEW t \in Threads, NEW u \in Threads,
           NEW i \in DOMAIN calls[t], NEW j \in DOMAIN calls[u],
           calls[t][i].class = calls[u][j].class,
           InProgress(calls[t][i]), InProgress(calls[u][j])
    PROVE  t = u /\ i = j
<1>1. \A v, w \in Threads : \A k \in DOMAIN calls[v], l \in DOMAIN calls[w] :
         (calls[v][k].class = calls[w][l].class
             /\ InProgress(calls[v][k]) /\ InProgress(calls[w][l])) => v = w /\ k = l
    BY Zenon DEF OneInitializer
<1>2. QED BY <1>1, Zenon

\* Calls begin and end, the classes stay as they are.
LEMMA CallsPersist ==
    ASSUME TypeOK, CallsInStep, OneInitializer, NEW t \in Threads, NEW m,
           Persist(t, m), m \notin DOMAIN calls[t], m \notin DOMAIN calls'[t],
           calls' \in [Threads -> Seq(Calls)],
           status' = status, thread' = thread
    PROVE  CallsInStep' /\ OneInitializer' /\ OthersStayReady(t)
<1>1. ASSUME NEW u \in Threads, NEW i \in DOMAIN calls'[u]
      PROVE  \/ i \in DOMAIN calls[u] /\ calls'[u][i] = calls[u][i]
             \/ calls'[u][i].at = "lock" /\ ~calls'[u][i].error
    BY DEF Persist
<1>2. ASSUME NEW u \in Threads, NEW i \in DOMAIN calls[u]
      PROVE  \/ i \in DOMAIN calls'[u] /\ calls'[u][i] = calls[u][i]
             \/ calls[u][i].at = "leave"
    BY DEF Persist
<1>3. CallsInStep'
    <2> SUFFICES ASSUME NEW u \in Threads, NEW i \in DOMAIN calls'[u]
                 PROVE  InStep(u, calls'[u][i], status'[calls'[u][i].class],
                               thread'[calls'[u][i].class])
        BY DEF CallsInStep, InStep, Initializing
    <2>1. CASE calls'[u][i].at = "lock" /\ ~calls'[u][i].error
        BY <2>1 DEF InStep, Initializing
    <2>2. CASE i \in DOMAIN calls[u] /\ calls'[u][i] = calls[u][i]
        BY <2>2 DEF CallsInStep
    <2>3. QED BY <1>1, <2>1, <2>2
<1>4. ASSUME NEW u \in Threads, NEW v \in Threads,
             NEW i \in DOMAIN calls'[u], NEW j \in DOMAIN calls'[v],
             calls'[u][i].class = calls'[v][j].class,
             InProgress(calls'[u][i]), InProgress(calls'[v][j])
      PROVE  u = v /\ i = j
    <2>1. i \in DOMAIN calls[u] /\ calls'[u][i] = calls[u][i]
        BY <1>1, <1>4 DEF InProgress, Initializing
    <2>2. j \in DOMAIN calls[v] /\ calls'[v][j] = calls[v][j]
        BY <1>1, <1>4 DEF InProgress, Initializing
    <2>3. /\ calls[u][i].class = calls[v][j].class
          /\ InProgress(calls[u][i]) /\ InProgress(calls[v][j])
        BY <1>4, <2>1, <2>2
    <2>4. QED BY <2>1, <2>2, <2>3, OneInProgress, Zenon
<1>5. ASSUME NEW c \in Classes, thread'[c] # NoThread
      PROVE  \E i \in DOMAIN calls'[thread'[c]] :
                calls'[thread'[c]][i].class = c /\ Initializing(calls'[thread'[c]][i])
    <2>1. thread[c] \in Threads /\ thread[c] # NoThread
        BY <1>5 DEF TypeOK
    <2>2. PICK i \in DOMAIN calls[thread[c]] :
             calls[thread[c]][i].class = c /\ Initializing(calls[thread[c]][i])
        BY <2>1 DEF OneInitializer
    <2>3. i \in DOMAIN calls'[thread[c]] /\ calls'[thread[c]][i] = calls[thread[c]][i]
        BY <1>2, <2>1, <2>2 DEF Initializing
    <2>4. QED BY <2>2, <2>3
<1>6. OneInitializer'
    BY <1>4, <1>5 DEF OneInitializer, InProgress, Initializing
<1>7. OthersStayReady(t)
    BY DEF OthersStayReady, Initialized
<1>8. QED BY <1>3, <1>6, <1>7

\* The call at m, of class c, becomes k, and c changes with it.
LEMMA CallChanges ==
    ASSUME TypeOK, CallsInStep, OneInitializer,
           NEW t \in Threads, NEW m \in DOMAIN calls[t], NEW k \in Calls, NEW c \in Classes,
           calls[t][m].class = c, k.class = c,
           calls' \in [Threads -> Seq(Calls)],
           Persist(t, m), m \in DOMAIN calls'[t], calls'[t][m] = k,
           \A d \in Classes \ {c} : status'[d] = status[d] /\ thread'[d] = thread[d],
           thread' \in [Classes -> Threads \union {NoThread}],
           \/ status'[c] = status[c] /\ thread'[c] = thread[c]
           \/ InProgress(calls[t][m])
           \/ status[c] = {},
           InStep(t, k, status'[c], thread'[c]),
           InProgress(k) => InProgress(calls[t][m]) \/ status[c] = {},
           \/ thread'[c] = NoThread
           \/ thread'[c] = t /\ Initializing(k)
           \/ thread'[c] = thread[c] /\ ~Initializing(calls[t][m])
    PROVE  CallsInStep' /\ OneInitializer' /\ OthersStayReady(t)
<1>1. \A u \in Threads : \A i \in DOMAIN calls'[u] :
         \/ i \in DOMAIN calls[u] /\ calls'[u][i] = calls[u][i]
         \/ calls'[u][i].at = "lock" /\ ~calls'[u][i].error
         \/ u = t /\ i = m
    BY DEF Persist
<1>2. \A u \in Threads : \A i \in DOMAIN calls[u] :
         \/ i \in DOMAIN calls'[u] /\ calls'[u][i] = calls[u][i]
         \/ calls[u][i].at = "leave"
         \/ u = t /\ i = m
    BY DEF Persist
<1>3. \A u \in Threads : \A i \in DOMAIN calls[u] :
         /\ calls[u][i] \in Calls
         /\ InStep(u, calls[u][i], status[calls[u][i].class], thread[calls[u][i].class])
    BY DEF TypeOK, CallsInStep
<1>4. \A u \in Threads : \A i \in DOMAIN calls'[u] : calls'[u][i] \in Calls
    OBVIOUS
<1>5. ASSUME NEW u \in Threads, NEW i \in DOMAIN calls[u], InProgress(calls[u][i])
      PROVE  "IN_PROGRESS" \in status[calls[u][i].class]
    <2>1. InStep(u, calls[u][i], status[calls[u][i].class], thread[calls[u][i].class])
        BY <1>3
    <2>2. QED BY <1>5, <2>1 DEF InStep, InProgress, Initializing
\* what changes concerns no other call
<1>6. ASSUME NEW u \in Threads, NEW i \in DOMAIN calls[u], ~(u = t /\ i = m),
             InProgress(calls[u][i])
      PROVE  /\ status'[calls[u][i].class] = status[calls[u][i].class]
             /\ thread'[calls[u][i].class] = thread[calls[u][i].class]
             /\ calls[u][i].class = c => ~InProgress(k)
    <2>1. CASE calls[u][i].class # c
        <3>1. calls[u][i].class \in Classes \ {c}
            BY <1>3, <2>1 DEF Calls
        <3>2. QED BY <2>1, <3>1
    <2>2. CASE calls[u][i].class = c
        <3>1. ~InProgress(calls[t][m])
            <4> SUFFICES ASSUME InProgress(calls[t][m]) PROVE FALSE
                OBVIOUS
            <4>1. calls[u][i].class = calls[t][m].class
                BY <2>2
            <4>2. u = t /\ i = m
                BY <1>6, <4>1, OneInProgress, ZenonT(60)
            <4>3. QED BY <1>6, <4>2
        <3>2. status[c] # {}
            BY <1>5, <1>6, <2>2
        <3>3. QED BY <2>2, <3>1, <3>2
    <2>3. QED BY <2>1, <2>2
<1>7. CallsInStep'
    <2> SUFFICES ASSUME NEW u \in Threads, NEW i \in DOMAIN calls'[u]
                 PROVE  InStep(u, calls'[u][i], status'[calls'[u][i].class],
                               thread'[calls'[u][i].class])
        BY DEF CallsInStep, InStep, Initializing
    <2>1. CASE u = t /\ i = m
        BY <2>1
    <2>2. CASE calls'[u][i].at = "lock" /\ ~calls'[u][i].error
        BY <2>2 DEF InStep, Initializing
    <2>3. CASE ~(u = t /\ i = m) /\ i \in DOMAIN calls[u] /\ calls'[u][i] = calls[u][i]
        <3>1. CASE InProgress(calls[u][i])
            BY <1>3, <1>6, <2>3, <3>1
        <3>2. CASE ~InProgress(calls[u][i])
            <4>1. InStep(u, calls[u][i], status[calls[u][i].class], thread[calls[u][i].class])
                BY <1>3, <2>3
            <4>2. QED BY <2>3, <3>2, <4>1 DEF InStep, InProgress, Initializing
        <3>3. QED BY <3>1, <3>2
    <2>4. QED BY <1>1, <2>1, <2>2, <2>3
<1>8. ASSUME NEW u \in Threads, NEW v \in Threads,
             NEW i \in DOMAIN calls'[u], NEW j \in DOMAIN calls'[v],
             calls'[u][i].class = calls'[v][j].class,
             InProgress(calls'[u][i]), InProgress(calls'[v][j])
      PROVE  u = v /\ i = j
    <2>1. \/ u = t /\ i = m
          \/ ~(u = t /\ i = m) /\ i \in DOMAIN calls[u] /\ calls'[u][i] = calls[u][i]
        BY <1>1, <1>8 DEF InProgress, Initializing
    <2>2. \/ v = t /\ j = m
          \/ ~(v = t /\ j = m) /\ j \in DOMAIN calls[v] /\ calls'[v][j] = calls[v][j]
        BY <1>1, <1>8 DEF InProgress, Initializing
    <2>3. CASE u = t /\ i = m
        <3>1. calls'[u][i] = k
            BY <2>3
        <3>2. ~(~(v = t /\ j = m) /\ j \in DOMAIN calls[v] /\ calls'[v][j] = calls[v][j])
            BY <1>6, <1>8, <3>1
        <3>3. QED BY <2>2, <2>3, <3>2
    <2>4. CASE v = t /\ j = m
        <3>1. calls'[v][j] = k
            BY <2>4
        <3>2. ~(~(u = t /\ i = m) /\ i \in DOMAIN calls[u] /\ calls'[u][i] = calls[u][i])
            BY <1>6, <1>8, <3>1
        <3>3. QED BY <2>1, <2>4, <3>2
    <2>5. CASE ~(u = t /\ i = m) /\ ~(v = t /\ j = m)
        <3>1. i \in DOMAIN calls[u] /\ j \in DOMAIN calls[v]
            BY <2>1, <2>2, <2>5
        <3>2. /\ calls[u][i].class = calls[v][j].class
              /\ InProgress(calls[u][i]) /\ InProgress(calls[v][j])
            BY <1>8, <2>1, <2>2, <2>5
        <3>3. QED BY <3>1, <3>2, OneInProgress, ZenonT(60)
    <2>6. QED BY <2>3, <2>4, <2>5
<1>9. ASSUME NEW d \in Classes, thread'[d] # NoThread
      PROVE  \E i \in DOMAIN calls'[thread'[d]] :
                calls'[thread'[d]][i].class = d /\ Initializing(calls'[thread'[d]][i])
    <2>1. CASE d = c /\ thread'[c] = t /\ Initializing(k)
        BY <2>1
    <2>2. CASE thread'[d] = thread[d] /\ (d = c => ~Initializing(calls[t][m]))
        <3>1. thread[d] \in Threads /\ thread[d] # NoThread
            BY <1>9, <2>2
        <3>2. PICK i \in DOMAIN calls[thread[d]] :
                 calls[thread[d]][i].class = d /\ Initializing(calls[thread[d]][i])
            BY <1>9, <2>2 DEF OneInitializer
        <3>3. ~(thread[d] = t /\ i = m)
            BY <2>2, <3>2
        <3>4. i \in DOMAIN calls'[thread[d]] /\ calls'[thread[d]][i] = calls[thread[d]][i]
            BY <1>2, <3>1, <3>2, <3>3 DEF Initializing
        <3>5. QED BY <2>2, <3>2, <3>4
    <2>3. QED BY <1>9, <2>1, <2>2
<1>10. OneInitializer'
    BY <1>8, <1>9 DEF OneInitializer, InProgress, Initializing
<1>11. OthersStayReady(t)
    <2> SUFFICES ASSUME NEW u \in Threads \ {t}, Initialized(u, c)
                 PROVE  Initialized(u, c)'
        BY DEF OthersStayReady, Initialized
    <2>1. status[c] # {}
        BY DEF Initialized
    <2>2. ~InProgress(calls[t][m])
        <3> SUFFICES ASSUME InProgress(calls[t][m]) PROVE FALSE
            OBVIOUS
        <3>1. /\ status[c] \in {{"IN_PROGRESS"}, {"IN_PROGRESS", "VERIFIED"}}
              /\ thread[c] \in {t, NoThread}
            <4>1. InStep(t, calls[t][m], status[c], thread[c])
                BY <1>3
            <4>2. QED BY <4>1 DEF InStep, InProgress, Initializing
        <3>2. QED BY <3>1 DEF Initialized
    <2>3. QED BY <2>1, <2>2 DEF Initialized
<1>12. QED BY <1>7, <1>10, <1>11

-----------------------------------------------------------------------------
(* The parts of the invariant, seen from a thread or a class.              *)

LocksOf(t) ==
    /\ \A c \in Classes :
          t \in Involved(c) <=>
              /\ calls[t] # <<>>
              /\ Last(calls[t]).class = c /\ Last(calls[t]).at \in LockPlaces
    /\ (calls[t] # <<>> /\ Last(calls[t]).at \in {"wait", "claim", "leave"})
          => owner[Last(calls[t]).class] = t

NestedOf(t) ==
    \A i \in DOMAIN calls[t] :
        /\ i < Len(calls[t]) => calls[t][i].at \in {"invoke", "clinit"}
        /\ (calls[t][i].at = "invoke" /\ Super[calls[t][i].class] # NoClass) =>
              IF i < Len(calls[t]) THEN calls[t][i + 1].class = Super[calls[t][i].class]
              ELSE Initialized(t, Super[calls[t][i].class])

ReadyOf(t) ==
    (calls[t] # <<>> /\ Last(calls[t]).at \in {"notify", "leave"} /\ ~Last(calls[t]).error)
        => Initialized(t, Last(calls[t]).class)

Notifier(c) ==
    \E t \in Threads : \E i \in DOMAIN calls[t] :
        calls[t][i].class = c /\ calls[t][i].at \in {"relock", "notify"}

RememberedOf(c) ==
    (waitSet[c] # {} \/ \E t \in Threads : At(t, c, "wait")) =>
        "IN_PROGRESS" \in status[c] \/ Notifier(c)

LEMMA ByThread ==
    /\ LocksHeld <=> \A t \in Threads : LocksOf(t)
    /\ CallsNested <=> \A t \in Threads : NestedOf(t)
    /\ ReadyToReturn <=> \A t \in Threads : ReadyOf(t)
    /\ WaitersRemembered <=> \A c \in Classes : RememberedOf(c)
BY DEF LocksHeld, LocksOf, Involved, CallsNested, NestedOf, ReadyToReturn, ReadyOf,
       WaitersRemembered, RememberedOf, Notifier

LEMMA ByThreadNext ==
    /\ (\A t \in Threads : LocksOf(t)') => LocksHeld'
    /\ (\A t \in Threads : NestedOf(t)') => CallsNested'
    /\ (\A t \in Threads : ReadyOf(t)') => ReadyToReturn'
    /\ (\A c \in Classes : RememberedOf(c)') => WaitersRemembered'
BY DEF LocksHeld, LocksOf, Involved, CallsNested, NestedOf, ReadyToReturn, ReadyOf,
       WaitersRemembered, RememberedOf, Notifier

\* A step of t keeps what is said of the other threads.
LEMMA OthersKept ==
    ASSUME Consistent, NEW t \in Threads, \A u \in Threads \ {t} : calls'[u] = calls[u],
           OthersKeepLocks(t), OthersStayReady(t),
           LocksOf(t)', NestedOf(t)', ReadyOf(t)'
    PROVE  LocksHeld' /\ CallsNested' /\ ReadyToReturn'
<1>1. \A u \in Threads : LocksOf(u) /\ NestedOf(u) /\ ReadyOf(u)
    BY ByThread DEF Consistent
<1> SUFFICES ASSUME NEW u \in Threads \ {t}
             PROVE  LocksOf(u)' /\ NestedOf(u)' /\ ReadyOf(u)'
    BY ByThreadNext
<1>2. calls'[u] = calls[u] /\ calls[u] \in Seq(Calls)
    BY DEF Consistent, TypeOK
<1>3. calls[u] # <<>> => Last(calls[u]).class \in Classes
    BY <1>2, InnermostCall DEF Consistent, Calls
<1>4. LocksOf(u)'
    BY <1>1, <1>2, <1>3 DEF LocksOf, OthersKeepLocks
<1>5. ReadyOf(u)'
    BY <1>1, <1>2, <1>3 DEF ReadyOf, OthersStayReady
<1>6. NestedOf(u)'
    <2> SUFFICES ASSUME NEW i \in DOMAIN calls[u], calls[u][i].at = "invoke",
                        Super[calls[u][i].class] # NoClass, ~(i < Len(calls[u]))
                 PROVE  Initialized(u, Super[calls[u][i].class])'
        BY <1>1, <1>2 DEF NestedOf
    <2>0. calls[u][i] \in Calls
        BY <1>2
    <2>1. calls[u][i].class \in Classes
        BY <2>0 DEF Calls
    <2>2. Super[calls[u][i].class] \in Classes
        BY <2>1 DEF ClassAssumption
    <2>3. Initialized(u, Super[calls[u][i].class])
        BY <1>1 DEF NestedOf
    <2>4. QED BY <2>2, <2>3 DEF OthersStayReady
<1>7. QED BY <1>4, <1>5, <1>6

\* A thread about to wait runs and owns the lock.
LEMMA AboutToWait ==
    ASSUME Consistent, NEW t \in Threads, NEW c \in Classes, calls[t] # <<>>,
           Last(calls[t]).class = c, Last(calls[t]).at = "wait"
    PROVE  At(t, c, "wait") /\ owner[c] = t
<1>1. LocksOf(t)
    BY ByThread DEF Consistent
<1>2. owner[c] = t
    BY <1>1 DEF LocksOf
<1>3. \A d \in Classes : t \notin entrySet[d] /\ t \notin waitSet[d]
    BY <1>1, <1>2 DEF LocksOf, Involved, Consistent, Monitor!Exclusion
<1>4. QED BY <1>2, <1>3 DEF At, Monitor!Free

-----------------------------------------------------------------------------
(* Steps that move the innermost call of a thread.                         *)

\* Classes other than c keep their waiting threads and those to notify them.
LEMMA OthersRemembered ==
    ASSUME Consistent, NEW t \in Threads, NEW c \in Classes, NEW k \in Calls,
           calls[t] # <<>>, Last(calls[t]).class = c, k.class = c, Moves(t, k),
           \A d \in Classes \ {c} : status'[d] = status[d] /\ waitSet'[d] = waitSet[d]
    PROVE  \A d \in Classes \ {c} : RememberedOf(d)'
<1> SUFFICES ASSUME NEW d \in Classes \ {c},
                    waitSet'[d] # {} \/ \E u \in Threads : At(u, d, "wait")'
             PROVE  "IN_PROGRESS" \in status'[d] \/ Notifier(d)'
    BY DEF RememberedOf
<1>1. \A u \in Threads : At(u, d, "wait")' => At(u, d, "wait")
    <2> SUFFICES ASSUME NEW u \in Threads, At(u, d, "wait")' PROVE At(u, d, "wait")
        OBVIOUS
    <2>1. u # t
        BY DEF At, Moves, Last
    <2>2. calls[u] = calls'[u]
        BY <2>1 DEF Moves
    <2>3. QED BY <2>2, AboutToWait DEF At
<1>2. RememberedOf(d)
    BY ByThread DEF Consistent
<1>3. CASE "IN_PROGRESS" \in status[d]
    BY <1>3
<1>4. CASE Notifier(d)
    <2>1. PICK u \in Threads : \E i \in DOMAIN calls[u] :
             calls[u][i].class = d /\ calls[u][i].at \in {"relock", "notify"}
        BY <1>4 DEF Notifier
    <2>2. PICK i \in DOMAIN calls[u] :
             calls[u][i].class = d /\ calls[u][i].at \in {"relock", "notify"}
        BY <2>1
    <2>3. u = t => i # Len(calls[t])
        BY <2>2 DEF Last
    <2>4. i \in DOMAIN calls'[u] /\ calls'[u][i] = calls[u][i]
        <3>1. CASE u # t
            BY <3>1 DEF Moves
        <3>2. CASE u = t
            <4>1. calls[t] \in Seq(Calls) /\ calls'[t] \in Seq(Calls)
                BY DEF Consistent, TypeOK, Moves
            <4>2. i \in 1..Len(calls[t]) - 1
                BY <2>3, <3>2, <4>1
            <4>3. QED BY <3>2, <4>1, <4>2 DEF Moves
        <3>3. QED BY <3>1, <3>2
    <2>5. QED BY <2>2, <2>4 DEF Notifier
<1>5. QED BY <1>1, <1>2, <1>3, <1>4 DEF RememberedOf

\* The classes and the innermost call of t, for class c, which becomes k, stay in
\* step: only c changes, and only when its initialization is in the call's hands.
ClassMoves(t, c, k) ==
    /\ status' \in [Classes -> {{}, {"IN_PROGRESS"}, {"IN_PROGRESS", "VERIFIED"},
                               {"VERIFIED", "INITIALIZED"}, {"ERROR"}}]
    /\ thread' \in [Classes -> Threads \union {NoThread}]
    /\ \A d \in Classes \ {c} : status'[d] = status[d] /\ thread'[d] = thread[d]
    /\ \/ status'[c] = status[c] /\ thread'[c] = thread[c]
       \/ InProgress(Last(calls[t]))
       \/ status[c] = {}
    /\ InStep(t, k, status'[c], thread'[c])
    /\ InProgress(k) => InProgress(Last(calls[t])) \/ status[c] = {}
    /\ \/ thread'[c] = NoThread
       \/ thread'[c] = t /\ Initializing(k)
       \/ thread'[c] = thread[c] /\ ~Initializing(Last(calls[t]))
    /\ k.at = "invoke" /\ Super[c] # NoClass => Initialized(t, Super[c])'
    /\ k.at \in {"notify", "leave"} /\ ~k.error => Initialized(t, c)'

\* Nobody is forgotten when the call becomes k.
Remembers(t, c, k) ==
    /\ k.at = "wait" => "IN_PROGRESS" \in status'[c]
    /\ "IN_PROGRESS" \in status[c] =>
          "IN_PROGRESS" \in status'[c] \/ k.at \in {"relock", "notify"}
    /\ Last(calls[t]).at \in {"relock", "notify"} => k.at \in {"relock", "notify"}

\* The class of the call keeps its waiting threads and the one to notify them,
\* unless all are notified.
LEMMA OwnRemembered ==
    ASSUME Consistent, NEW t \in Threads, NEW c \in Classes, NEW k \in Calls,
           calls[t] # <<>>, Last(calls[t]).class = c, k.class = c, Moves(t, k),
           waitSet'[c] # {} => waitSet[c] # {} \/ Last(calls[t]).at = "wait",
           Remembers(t, c, k)
    PROVE  RememberedOf(c)'
<1> USE DEF Remembers
<1> SUFFICES ASSUME waitSet'[c] # {} \/ \E u \in Threads : At(u, c, "wait")',
                    "IN_PROGRESS" \notin status'[c]
             PROVE  Notifier(c)'
    BY DEF RememberedOf
<1>0. /\ Len(calls[t]) \in DOMAIN calls'[t] /\ calls'[t][Len(calls[t])] = k
      /\ Last(calls'[t]) = k /\ DOMAIN calls'[t] = DOMAIN calls[t]
      /\ \A i \in DOMAIN calls[t] : i # Len(calls[t]) => calls'[t][i] = calls[t][i]
    BY MoveDomains DEF Consistent
<1>1. k.at \in {"relock", "notify"} => Notifier(c)'
    BY <1>0 DEF Notifier
<1>2. \A u \in Threads : At(u, c, "wait")' => At(u, c, "wait")
    <2> SUFFICES ASSUME NEW u \in Threads, At(u, c, "wait")' PROVE At(u, c, "wait")
        OBVIOUS
    <2>1. u # t
        BY <1>0 DEF At
    <2>2. calls[u] = calls'[u]
        BY <2>1 DEF Moves
    <2>3. QED BY <2>2, AboutToWait DEF At
<1>3. RememberedOf(c)
    BY ByThread DEF Consistent
<1>4. Last(calls[t]).at = "wait" => At(t, c, "wait")
    BY AboutToWait
<1>5. "IN_PROGRESS" \in status[c] \/ Notifier(c)
    BY <1>2, <1>3, <1>4 DEF RememberedOf
<1>6. CASE Notifier(c)
    <2>1. PICK u \in Threads : \E i \in DOMAIN calls[u] :
             calls[u][i].class = c /\ calls[u][i].at \in {"relock", "notify"}
        BY <1>6 DEF Notifier
    <2>2. PICK i \in DOMAIN calls[u] :
             calls[u][i].class = c /\ calls[u][i].at \in {"relock", "notify"}
        BY <2>1
    <2>3. CASE u = t /\ i = Len(calls[t])
        <3>1. calls[u][i] = Last(calls[t])
            BY <2>3 DEF Last
        <3>2. QED BY <1>1, <2>2, <3>1
    <2>4. CASE ~(u = t /\ i = Len(calls[t]))
        <3>1. i \in DOMAIN calls'[u] /\ calls'[u][i] = calls[u][i]
            <4>1. CASE u # t
                BY <4>1 DEF Moves
            <4>2. CASE u = t
                BY <1>0, <2>4, <4>2
            <4>3. QED BY <4>1, <4>2
        <3>2. QED BY <2>2, <3>1 DEF Notifier
    <2>5. QED BY <2>3, <2>4
<1>7. QED BY <1>1, <1>5, <1>6

\* What a step of t must show when its innermost call, for class c, becomes k.
LEMMA MoveStep ==
    ASSUME Consistent, NEW t \in Threads, NEW c \in Classes, NEW k \in Calls,
           calls[t] # <<>>, Last(calls[t]).class = c, k.class = c,
           calls' = [calls EXCEPT ![t][Len(calls[t])] = k],
           ClassMoves(t, c, k),
           [Monitor!Next]_monitors, OthersKeepLocks(t),
           \A d \in Classes : t \in Involved(d)' <=> d = c /\ k.at \in LockPlaces,
           k.at \in {"wait", "claim", "leave"} => owner'[c] = t,
           \A d \in Classes \ {c} : waitSet'[d] = waitSet[d],
           RememberedOf(c)'
    PROVE  Consistent'
<1> USE DEF Consistent
<1>0. /\ calls[t] \in Seq(Calls) /\ Len(calls[t]) \in DOMAIN calls[t]
      /\ Len(calls[t]) \in Nat \ {0} /\ Last(calls[t]) = calls[t][Len(calls[t])]
      /\ Moves(t, k)
    BY InnermostCall, MoveFacts DEF TypeOK
<1>1. /\ calls' \in [Threads -> Seq(Calls)]
      /\ \A u \in Threads \ {t} : calls'[u] = calls[u]
      /\ Len(calls'[t]) = Len(calls[t]) /\ calls'[t] # <<>>
      /\ Last(calls'[t]) = k /\ calls'[t][Len(calls[t])] = k
      /\ DOMAIN calls'[t] = DOMAIN calls[t]
      /\ \A i \in DOMAIN calls[t] \ {Len(calls[t])} : calls'[t][i] = calls[t][i]
    BY <1>0 DEF Moves, Last
<1>2. Monitor!TypeOK' /\ Monitor!Exclusion'
    BY MonitorsKept DEF TypeOK
<1>3. TypeOK'
    BY <1>1, <1>2 DEF TypeOK, ClassMoves
<1>4. Persist(t, Len(calls[t]))
    BY <1>1 DEF Persist
<1>5. CallsInStep' /\ OneInitializer' /\ OthersStayReady(t)
    <2>1. Len(calls[t]) \in DOMAIN calls[t] /\ Len(calls[t]) \in DOMAIN calls'[t]
        BY <1>0, <1>1
    <2>2. calls[t][Len(calls[t])] = Last(calls[t])
        BY <1>0
    <2> HIDE DEF Consistent
    <2>3. TypeOK /\ CallsInStep /\ OneInitializer
        BY DEF Consistent
    <2>4. QED BY <1>1, <1>4, <2>1, <2>2, <2>3, CallChanges DEF ClassMoves
<1>6. LocksOf(t)'
    BY <1>1 DEF LocksOf
<1>7. ReadyOf(t)'
    BY <1>1 DEF ReadyOf, ClassMoves
<1>8. NestedOf(t)'
    <2>1. NestedOf(t)
        BY ByThread
    <2> SUFFICES ASSUME NEW i \in DOMAIN calls[t]
                 PROVE  /\ i < Len(calls[t]) => calls'[t][i].at \in {"invoke", "clinit"}
                        /\ (calls'[t][i].at = "invoke" /\ Super[calls'[t][i].class] # NoClass) =>
                              IF i < Len(calls[t])
                              THEN calls'[t][i + 1].class = Super[calls'[t][i].class]
                              ELSE Initialized(t, Super[calls[t][i].class])'
        BY <1>1 DEF NestedOf
    <2>2. CASE i = Len(calls[t])
        <3>1. calls'[t][i] = k /\ k.class = c /\ ~(i < Len(calls[t]))
            BY <1>0, <1>1, <2>2
        <3>2. k.at = "invoke" /\ Super[c] # NoClass => Initialized(t, Super[calls[t][i].class])'
            BY <3>1 DEF Initialized, ClassMoves
        <3>3. QED BY <3>1, <3>2
    <2>3. CASE i # Len(calls[t])
        <3>1. i < Len(calls[t]) /\ calls'[t][i] = calls[t][i] /\ i + 1 \in DOMAIN calls[t]
            BY <1>0, <1>1, <2>3
        <3>2. calls'[t][i + 1].class = calls[t][i + 1].class
            BY <1>0, <1>1, <3>1
        <3>3. QED BY <2>1, <3>1, <3>2 DEF NestedOf
    <2>4. QED BY <2>2, <2>3
<1>9. LocksHeld' /\ CallsNested' /\ ReadyToReturn'
    BY <1>1, <1>5, <1>6, <1>7, <1>8, OthersKept
<1>10. WaitersRemembered'
    <2>1. \A d \in Classes \ {c} : status'[d] = status[d]
        BY DEF ClassMoves
    <2>2. \A d \in Classes \ {c} : RememberedOf(d)'
        BY <1>0, <2>1, OthersRemembered
    <2>3. QED BY <2>2, ByThreadNext
<1>11. QED BY <1>2, <1>3, <1>5, <1>9, <1>10

\* Of the locks, that of c alone concerns t, when p is a place for it.
LockedFor(t, c, p) == \A d \in Classes : t \in Involved(d) <=> d = c /\ p \in LockPlaces

\* What is known of a thread that runs at a place of its innermost call.
LEMMA AtFacts ==
    ASSUME Consistent, NEW t \in Threads, NEW c \in Classes, NEW p, At(t, c, p)
    PROVE  /\ calls[t] # <<>> /\ Last(calls[t]) \in Calls
           /\ Last(calls[t]).class = c /\ Last(calls[t]).at = p
           /\ InStep(t, Last(calls[t]), status[c], thread[c])
           /\ p \in LockPlaces => owner[c] = t
           /\ LockedFor(t, c, p)
           /\ p = "invoke" /\ Super[c] # NoClass => Initialized(t, Super[c])
           /\ p \in {"notify", "leave"} /\ ~Last(calls[t]).error => Initialized(t, c)
<1>1. /\ calls[t] # <<>>
      /\ Last(calls[t]).class = c /\ Last(calls[t]).at = p
      /\ \A d \in Classes : t \notin entrySet[d] /\ t \notin waitSet[d]
    BY DEF At, Monitor!Free
<1>2. /\ Last(calls[t]) \in Calls /\ Len(calls[t]) \in DOMAIN calls[t]
      /\ Last(calls[t]) = calls[t][Len(calls[t])] /\ ~(Len(calls[t]) < Len(calls[t]))
    BY <1>1, InnermostCall DEF Consistent
<1>3. InStep(t, Last(calls[t]), status[c], thread[c])
    BY <1>1, <1>2 DEF Consistent, CallsInStep
<1>4. LocksOf(t) /\ NestedOf(t) /\ ReadyOf(t)
    BY ByThread DEF Consistent
<1>5. \A d \in Classes : t \in Involved(d) <=> d = c /\ p \in LockPlaces
    BY <1>1, <1>4 DEF LocksOf
<1>6. p \in LockPlaces => owner[c] = t
    BY <1>1, <1>5 DEF Involved
<1>7. p = "invoke" /\ Super[c] # NoClass => Initialized(t, Super[c])
    BY <1>1, <1>2, <1>4 DEF NestedOf
<1>8. p \in {"notify", "leave"} /\ ~Last(calls[t]).error => Initialized(t, c)
    BY <1>1, <1>4 DEF ReadyOf
<1>9. QED BY <1>1, <1>2, <1>3, <1>5, <1>6, <1>7, <1>8 DEF LockedFor

\* A move without an operation on monitors.
LEMMA MoveAlone ==
    ASSUME Consistent, NEW t \in Threads, NEW c \in Classes, NEW p, At(t, c, p),
           NEW k \in Calls, k.class = c,
           calls' = [calls EXCEPT ![t][Len(calls[t])] = k],
           UNCHANGED monitors,
           k.at \in LockPlaces <=> p \in LockPlaces,
           ClassMoves(t, c, k), Remembers(t, c, k)
    PROVE  Consistent'
<1>1. /\ calls[t] # <<>> /\ Last(calls[t]).class = c /\ Last(calls[t]).at = p
      /\ p \in LockPlaces => owner[c] = t
    BY AtFacts
<1>0. LockedFor(t, c, p)
    BY AtFacts
<1>2. /\ [Monitor!Next]_monitors /\ OthersKeepLocks(t) /\ waitSet' = waitSet
      /\ \A d \in Classes : t \in Involved(d)' <=> t \in Involved(d)
    BY LocksUntouched DEF OthersKeepLocks
<1>3. k.at \in {"wait", "claim", "leave"} => owner'[c] = t
    BY <1>1 DEF LockPlaces, monitors
<1>4. Moves(t, k)
    BY <1>1, MoveFacts DEF Consistent
<1>5. RememberedOf(c)'
    BY <1>1, <1>2, <1>4, OwnRemembered
<1>6. \A d \in Classes : t \in Involved(d)' <=> d = c /\ k.at \in LockPlaces
    BY <1>0, <1>2 DEF LockedFor
<1>7. QED BY <1>1, <1>2, <1>3, <1>5, <1>6, MoveStep

LEMMA MoveTo ==
    ASSUME Consistent, NEW t \in Threads, NEW c \in Classes, NEW p, At(t, c, p),
           NEW q \in Places, Goes(t, q)
    PROVE  \E k \in Calls : /\ k.class = c /\ k.at = q /\ k.error = Last(calls[t]).error
                            /\ calls' = [calls EXCEPT ![t][Len(calls[t])] = k]
<1>1. calls[t] # <<>> /\ Last(calls[t]) \in Calls /\ Last(calls[t]).class = c
    BY AtFacts
<1>2. /\ [Last(calls[t]) EXCEPT !.at = q] \in Calls
      /\ calls' = [calls EXCEPT ![t][Len(calls[t])] = [Last(calls[t]) EXCEPT !.at = q]]
    BY <1>1, GoesFacts DEF Consistent
<1>3. /\ [Last(calls[t]) EXCEPT !.at = q].class = c
      /\ [Last(calls[t]) EXCEPT !.at = q].at = q
      /\ [Last(calls[t]) EXCEPT !.at = q].error = Last(calls[t]).error
    BY <1>1 DEF Calls
<1>4. QED BY <1>2, <1>3

LEMMA FailsFacts ==
    ASSUME Consistent, NEW t \in Threads, NEW c \in Classes, NEW p, At(t, c, p),
           NEW q \in Places, Fails(t, q)
    PROVE  \E k \in Calls : /\ k.class = c /\ k.at = q /\ k.error
                            /\ calls' = [calls EXCEPT ![t][Len(calls[t])] = k]
<1> DEFINE k == [Last(calls[t]) EXCEPT !.at = q, !.error = TRUE]
<1>1. calls[t] # <<>> /\ Last(calls[t]) \in Calls /\ Last(calls[t]).class = c
    BY AtFacts
<1>2. k \in Calls /\ k.class = c /\ k.at = q /\ k.error
    BY <1>1 DEF Calls
<1>3. calls' = [calls EXCEPT ![t][Len(calls[t])] = k]
    BY DEF Fails, Last
<1>4. QED BY <1>2, <1>3

\* A class that nobody initializes belongs to no thread.
LEMMA IdleClass ==
    ASSUME Consistent, NEW c \in Classes, "IN_PROGRESS" \notin status[c]
    PROVE  thread[c] = NoThread
<1> SUFFICES ASSUME thread[c] # NoThread PROVE FALSE
    OBVIOUS
<1>1. thread[c] \in Threads
    BY DEF Consistent, TypeOK
<1>2. PICK i \in DOMAIN calls[thread[c]] :
         calls[thread[c]][i].class = c /\ Initializing(calls[thread[c]][i])
    BY DEF Consistent, OneInitializer
<1>3. InStep(thread[c], calls[thread[c]][i], status[c], thread[c])
    BY <1>1, <1>2 DEF Consistent, CallsInStep
<1>4. QED BY <1>2, <1>3 DEF InStep, Initializing

LEMMA Step2Consistent ==
    ASSUME Consistent, NEW t \in Threads, NEW c \in Classes, Step2(t, c)
    PROVE  Consistent'
<1> USE DEF Step2
<1>0. At(t, c, "test") /\ Goes(t, "wait") /\ "wait" \in Places
    BY DEF Places
<1>1. PICK k \in Calls : /\ k.class = c /\ k.at = "wait" /\ k.error = Last(calls[t]).error
                         /\ calls' = [calls EXCEPT ![t][Len(calls[t])] = k]
    <2> HIDE DEF Step2
    <2> QED BY <1>0, MoveTo
<1>2. /\ Last(calls[t]).at = "test"
      /\ InStep(t, Last(calls[t]), status[c], thread[c])
    BY AtFacts
<1>3. InStep(t, k, status[c], thread[c])
    BY <1>1, <1>2 DEF InStep, Initializing
<1>4. ~InProgress(k) /\ ~InProgress(Last(calls[t])) /\ ~Initializing(Last(calls[t]))
    BY <1>1, <1>2 DEF InProgress, Initializing
<1>5. "IN_PROGRESS" \in status[c] /\ status' = status /\ thread' = thread
    BY DEF Busy
<1>6. "test" \in LockPlaces /\ "wait" \in LockPlaces
    BY DEF LockPlaces
<1>7. ClassMoves(t, c, k) /\ Remembers(t, c, k)
    BY <1>1, <1>2, <1>3, <1>4, <1>5 DEF ClassMoves, Remembers, Consistent, TypeOK
<1>8. QED BY <1>0, <1>1, <1>5, <1>6, <1>7, MoveAlone

LEMMA Steps3To5Consistent ==
    ASSUME Consistent, NEW t \in Threads, NEW c \in Classes, Steps3To5(t, c)
    PROVE  Consistent'
<1>1. /\ At(t, c, "test") /\ "leave" \in Places /\ UNCHANGED monitors
      /\ "test" \in LockPlaces /\ "leave" \in LockPlaces
      /\ status' = status /\ thread' = thread
    BY DEF Steps3To5, Places, LockPlaces
<1>2. \E k \in Calls : /\ k.class = c /\ k.at = "leave" /\ (~k.error => Initialized(t, c))
                       /\ calls' = [calls EXCEPT ![t][Len(calls[t])] = k]
    <2>1. CASE Initialized(t, c) /\ Goes(t, "leave")
        BY <1>1, <2>1, MoveTo
    <2>2. CASE Fails(t, "leave")
        BY <1>1, <2>2, FailsFacts
    <2>3. QED BY <2>1, <2>2 DEF Steps3To5
<1>3. PICK k \in Calls : /\ k.class = c /\ k.at = "leave" /\ (~k.error => Initialized(t, c))
                         /\ calls' = [calls EXCEPT ![t][Len(calls[t])] = k]
    BY <1>2
<1>4. Last(calls[t]).at = "test"
    BY <1>1, AtFacts
<1>5. /\ InStep(t, k, status[c], thread[c])
      /\ ~InProgress(k) /\ ~Initializing(Last(calls[t]))
    BY <1>3, <1>4 DEF InStep, InProgress, Initializing
<1>6. ~k.error => Initialized(t, c)'
    BY <1>1, <1>3 DEF Initialized
<1>7. ClassMoves(t, c, k) /\ Remembers(t, c, k)
    BY <1>1, <1>3, <1>4, <1>5, <1>6 DEF ClassMoves, Remembers, Consistent, TypeOK
<1>8. QED BY <1>1, <1>3, <1>7, MoveAlone

LEMMA Step6Consistent ==
    ASSUME Consistent, NEW t \in Threads, NEW c \in Classes, Step6(t, c)
    PROVE  Consistent'
<1>1. /\ At(t, c, "test") /\ Goes(t, "claim") /\ "claim" \in Places /\ UNCHANGED monitors
      /\ "test" \in LockPlaces /\ "claim" \in LockPlaces
      /\ status' = [status EXCEPT ![c] = @ \union {"IN_PROGRESS"}] /\ thread' = thread
    BY DEF Step6, Places, LockPlaces
<1>2. status[c] = {}
    BY DEF Step6, Busy, Initialized, Consistent, TypeOK
<1>3. thread[c] = NoThread
    BY <1>2, IdleClass
<1>4. PICK k \in Calls : /\ k.class = c /\ k.at = "claim" /\ k.error = Last(calls[t]).error
                         /\ calls' = [calls EXCEPT ![t][Len(calls[t])] = k]
    BY <1>1, MoveTo
<1>5. Last(calls[t]).at = "test" /\ InStep(t, Last(calls[t]), status[c], thread[c])
    BY <1>1, AtFacts
<1>6. /\ status'[c] = {"IN_PROGRESS"} /\ \A d \in Classes \ {c} : status'[d] = status[d]
      /\ status' \in [Classes -> {{}, {"IN_PROGRESS"}, {"IN_PROGRESS", "VERIFIED"},
                                 {"VERIFIED", "INITIALIZED"}, {"ERROR"}}]
    BY <1>1, <1>2 DEF Consistent, TypeOK
<1>7. InStep(t, k, status'[c], thread'[c])
    BY <1>1, <1>3, <1>4, <1>5, <1>6 DEF InStep, Initializing
<1>8. ClassMoves(t, c, k) /\ Remembers(t, c, k)
    BY <1>1, <1>2, <1>3, <1>4, <1>5, <1>6, <1>7 DEF ClassMoves, Remembers, Consistent, TypeOK
<1>9. QED BY <1>1, <1>4, <1>8, MoveAlone

LEMMA VerifyConsistent ==
    ASSUME Consistent, NEW t \in Threads, NEW c \in Classes, Verify(t, c)
    PROVE  Consistent'
<1>1. /\ At(t, c, "verify") /\ Goes(t, "super") /\ "super" \in Places /\ UNCHANGED monitors
      /\ "verify" \notin LockPlaces /\ "super" \notin LockPlaces
      /\ status' = [status EXCEPT ![c] = @ \union {"VERIFIED"}] /\ thread' = thread
    BY DEF Verify, Places, LockPlaces
<1>2. PICK k \in Calls : /\ k.class = c /\ k.at = "super" /\ k.error = Last(calls[t]).error
                         /\ calls' = [calls EXCEPT ![t][Len(calls[t])] = k]
    BY <1>1, MoveTo
<1>3. Last(calls[t]).at = "verify" /\ InStep(t, Last(calls[t]), status[c], thread[c])
    BY <1>1, AtFacts
<1>4. status[c] = {"IN_PROGRESS"} /\ thread[c] = t /\ ~k.error
    BY <1>2, <1>3 DEF InStep, Initializing
<1>5. /\ status'[c] = {"IN_PROGRESS", "VERIFIED"}
      /\ \A d \in Classes \ {c} : status'[d] = status[d]
      /\ status' \in [Classes -> {{}, {"IN_PROGRESS"}, {"IN_PROGRESS", "VERIFIED"},
                                 {"VERIFIED", "INITIALIZED"}, {"ERROR"}}]
    BY <1>1, <1>4 DEF Consistent, TypeOK
<1>6. InStep(t, k, status'[c], thread'[c]) /\ Initializing(k) /\ InProgress(Last(calls[t]))
    BY <1>1, <1>2, <1>3, <1>4, <1>5 DEF InStep, InProgress, Initializing
<1>7. ClassMoves(t, c, k) /\ Remembers(t, c, k)
    BY <1>1, <1>2, <1>3, <1>4, <1>5, <1>6 DEF ClassMoves, Remembers, Consistent, TypeOK
<1>8. QED BY <1>1, <1>2, <1>7, MoveAlone

LEMMA Step8Consistent ==
    ASSUME Consistent, NEW t \in Threads, NEW c \in Classes, Step8(t, c)
    PROVE  Consistent'
<1>1. /\ At(t, c, "invoke") /\ Goes(t, "clinit") /\ "clinit" \in Places /\ UNCHANGED monitors
      /\ "invoke" \notin LockPlaces /\ "clinit" \notin LockPlaces
      /\ status' = status /\ thread' = thread
    BY DEF Step8, Places, LockPlaces
<1>2. PICK k \in Calls : /\ k.class = c /\ k.at = "clinit" /\ k.error = Last(calls[t]).error
                         /\ calls' = [calls EXCEPT ![t][Len(calls[t])] = k]
    BY <1>1, MoveTo
<1>3. Last(calls[t]).at = "invoke" /\ InStep(t, Last(calls[t]), status[c], thread[c])
    BY <1>1, AtFacts
<1>4. /\ InStep(t, k, status[c], thread[c]) /\ thread[c] = t
      /\ Initializing(k) /\ InProgress(Last(calls[t]))
    BY <1>2, <1>3 DEF InStep, InProgress, Initializing
<1>5. ClassMoves(t, c, k) /\ Remembers(t, c, k)
    BY <1>1, <1>2, <1>3, <1>4 DEF ClassMoves, Remembers, Consistent, TypeOK
<1>6. QED BY <1>1, <1>2, <1>5, MoveAlone

LEMMA ThrowConsistent ==
    ASSUME Consistent, NEW t \in Threads, NEW c \in Classes, Throw(t, c)
    PROVE  Consistent'
<1>1. PICK p \in {"verify", "clinit"} : At(t, c, p)
    BY DEF Throw
<1>2. /\ Goes(t, "catch") /\ "catch" \in Places /\ UNCHANGED monitors
      /\ p \notin LockPlaces /\ "catch" \notin LockPlaces
      /\ status' = status /\ thread' = thread
    BY DEF Throw, Places, LockPlaces
<1>3. PICK k \in Calls : /\ k.class = c /\ k.at = "catch" /\ k.error = Last(calls[t]).error
                         /\ calls' = [calls EXCEPT ![t][Len(calls[t])] = k]
    BY <1>1, <1>2, MoveTo
<1>4. Last(calls[t]).at = p /\ InStep(t, Last(calls[t]), status[c], thread[c])
    BY <1>1, AtFacts
<1>5. /\ InStep(t, k, status[c], thread[c]) /\ thread[c] = t
      /\ Initializing(k) /\ InProgress(Last(calls[t]))
    BY <1>3, <1>4 DEF InStep, InProgress, Initializing
<1>6. ClassMoves(t, c, k) /\ Remembers(t, c, k)
    BY <1>2, <1>3, <1>4, <1>5 DEF ClassMoves, Remembers, Consistent, TypeOK
<1>7. QED BY <1>1, <1>2, <1>3, <1>6, MoveAlone

LEMMA DoneConsistent ==
    ASSUME Consistent, NEW t \in Threads, NEW c \in Classes, Done(t, c)
    PROVE  Consistent'
<1>1. /\ At(t, c, "done") /\ Goes(t, "notify") /\ "notify" \in Places /\ UNCHANGED monitors
      /\ "done" \in LockPlaces /\ "notify" \in LockPlaces
      /\ status' = [status EXCEPT ![c] = (@ \ {"IN_PROGRESS"}) \union {"INITIALIZED"}]
      /\ thread' = [thread EXCEPT ![c] = NoThread]
    BY DEF Done, Places, LockPlaces
<1>2. PICK k \in Calls : /\ k.class = c /\ k.at = "notify" /\ k.error = Last(calls[t]).error
                         /\ calls' = [calls EXCEPT ![t][Len(calls[t])] = k]
    BY <1>1, MoveTo
<1>3. Last(calls[t]).at = "done" /\ InStep(t, Last(calls[t]), status[c], thread[c])
    BY <1>1, AtFacts
<1>4. status[c] = {"IN_PROGRESS", "VERIFIED"} /\ ~k.error
    BY <1>2, <1>3 DEF InStep
<1>5. (status[c] \ {"IN_PROGRESS"}) \union {"INITIALIZED"} = {"VERIFIED", "INITIALIZED"}
    BY <1>4
<1>6. /\ status'[c] = {"VERIFIED", "INITIALIZED"} /\ thread'[c] = NoThread
      /\ \A d \in Classes \ {c} : status'[d] = status[d] /\ thread'[d] = thread[d]
      /\ status' \in [Classes -> {{}, {"IN_PROGRESS"}, {"IN_PROGRESS", "VERIFIED"},
                                 {"VERIFIED", "INITIALIZED"}, {"ERROR"}}]
      /\ thread' \in [Classes -> Threads \union {NoThread}]
    BY <1>1, <1>5 DEF Consistent, TypeOK
<1>7. /\ InStep(t, k, status'[c], thread'[c])
      /\ ~InProgress(k) /\ InProgress(Last(calls[t]))
    BY <1>2, <1>3, <1>4 DEF InStep, InProgress, Initializing
<1>8. Initialized(t, c)'
    BY <1>6 DEF Initialized
<1>9. ClassMoves(t, c, k) /\ Remembers(t, c, k)
    BY <1>2, <1>3, <1>6, <1>7, <1>8 DEF ClassMoves, Remembers
<1>10. QED BY <1>1, <1>2, <1>9, MoveAlone

LEMMA Step10Consistent ==
    ASSUME Consistent, NEW t \in Threads, NEW c \in Classes, Step10(t, c)
    PROVE  Consistent'
<1>1. /\ At(t, c, "catch") /\ "relock" \in Places /\ UNCHANGED monitors
      /\ "catch" \notin LockPlaces /\ "relock" \notin LockPlaces
      /\ status' = [status EXCEPT ![c] = {"ERROR"}]
      /\ thread' = [thread EXCEPT ![c] = NoThread]
    BY DEF Step10, Places, LockPlaces
<1>0. At(t, c, "catch") /\ Fails(t, "relock") /\ "relock" \in Places
    BY DEF Step10, Places
<1>2. PICK k \in Calls : /\ k.class = c /\ k.at = "relock" /\ k.error
                         /\ calls' = [calls EXCEPT ![t][Len(calls[t])] = k]
    BY <1>0, FailsFacts
<1>3. Last(calls[t]).at = "catch"
    BY <1>1, AtFacts
<1>4. /\ status'[c] = {"ERROR"} /\ thread'[c] = NoThread
      /\ \A d \in Classes \ {c} : status'[d] = status[d] /\ thread'[d] = thread[d]
      /\ status' \in [Classes -> {{}, {"IN_PROGRESS"}, {"IN_PROGRESS", "VERIFIED"},
                                 {"VERIFIED", "INITIALIZED"}, {"ERROR"}}]
      /\ thread' \in [Classes -> Threads \union {NoThread}]
    BY <1>1 DEF Consistent, TypeOK
<1>5. /\ InStep(t, k, status'[c], thread'[c])
      /\ ~InProgress(k) /\ InProgress(Last(calls[t]))
    BY <1>2, <1>3 DEF InStep, InProgress, Initializing
<1>6. ClassMoves(t, c, k) /\ Remembers(t, c, k)
    BY <1>2, <1>3, <1>4, <1>5 DEF ClassMoves, Remembers
<1>7. QED BY <1>1, <1>2, <1>6, MoveAlone

-----------------------------------------------------------------------------
(* Steps that take, release or wait for the lock, or notify.               *)

\* A step that takes the lock of its class, or contends for it.
LEMMA LockStep ==
    ASSUME Consistent, NEW t \in Threads, NEW c \in Classes,
           NEW p \in Places \ LockPlaces, NEW q \in {"test", "done", "notify"},
           At(t, c, p), Lock(t, c, q),
           p = "lock" => q = "test", p = "clinit" => q = "done", p = "relock" => q = "notify",
           p \in {"lock", "clinit", "relock"}
    PROVE  Consistent'
<1>1. /\ At(t, c, p) /\ Goes(t, q) /\ q \in Places /\ q \in LockPlaces
      /\ status' = status /\ thread' = thread
      /\ Monitor!Enter(t, c) \/ Monitor!Contend(t, c)
    BY DEF Lock, Places, LockPlaces
<1>2. PICK k \in Calls : /\ k.class = c /\ k.at = q /\ k.error = Last(calls[t]).error
                         /\ calls' = [calls EXCEPT ![t][Len(calls[t])] = k]
    BY <1>1, MoveTo
<1>3. /\ calls[t] # <<>> /\ Last(calls[t]).class = c
      /\ Last(calls[t]).at = p /\ InStep(t, Last(calls[t]), status[c], thread[c])
    BY <1>1, AtFacts
<1>4. LockedFor(t, c, p)
    BY AtFacts
<1>5. /\ InStep(t, k, status[c], thread[c])
      /\ InProgress(k) => InProgress(Last(calls[t]))
      /\ Initializing(Last(calls[t])) => Initializing(k) /\ thread[c] = t
      /\ k.at = "notify" => k.error
    BY <1>2, <1>3 DEF InStep, InProgress, Initializing
<1>6. k.at # "invoke" /\ k.at # "leave" /\ k.at # "wait"
    BY <1>2
<1>7. ClassMoves(t, c, k) /\ Remembers(t, c, k)
    BY <1>1, <1>2, <1>3, <1>5, <1>6 DEF ClassMoves, Remembers, Consistent, TypeOK
<1>8. /\ [Monitor!Next]_monitors /\ OthersKeepLocks(t) /\ waitSet' = waitSet
      /\ \A d \in Classes : t \in Involved(d)' <=> (t \in Involved(d) \/ d = c)
    BY <1>1, LockFacts DEF Consistent, TypeOK
<1>9. \A d \in Classes : t \in Involved(d)' <=> d = c /\ k.at \in LockPlaces
    BY <1>1, <1>2, <1>4, <1>8 DEF LockedFor
<1>10. Moves(t, k)
    BY <1>2, <1>3, MoveFacts DEF Consistent
<1>11. RememberedOf(c)'
    BY <1>2, <1>3, <1>7, <1>8, <1>10, OwnRemembered
<1>12. k.at \in {"wait", "claim", "leave"} => owner'[c] = t
    BY <1>2
<1>13. QED BY <1>2, <1>3, <1>7, <1>8, <1>9, <1>11, <1>12, MoveStep

LEMMA LockingConsistent ==
    ASSUME Consistent, NEW t \in Threads, NEW c \in Classes,
           Step1(t, c) \/ Step9(t, c) \/ Step11(t, c)
    PROVE  Consistent'
<1>1. {"lock", "clinit", "relock"} \subseteq Places \ LockPlaces
    BY DEF Places, LockPlaces
<1>2. CASE Step1(t, c)
    BY <1>1, <1>2, LockStep DEF Step1
<1>3. CASE Step9(t, c)
    BY <1>1, <1>3, LockStep DEF Step9
<1>4. CASE Step11(t, c)
    BY <1>1, <1>4, LockStep DEF Step11
<1>5. QED BY <1>2, <1>3, <1>4

LEMMA ClaimConsistent ==
    ASSUME Consistent, NEW t \in Threads, NEW c \in Classes, Claim(t, c)
    PROVE  Consistent'
<1>1. /\ At(t, c, "claim") /\ Goes(t, "verify") /\ "verify" \in Places
      /\ "claim" \in LockPlaces /\ "verify" \notin LockPlaces
      /\ status' = status /\ thread' = [thread EXCEPT ![c] = t] /\ Monitor!Exit(t, c)
    BY DEF Claim, Places, LockPlaces
<1>2. PICK k \in Calls : /\ k.class = c /\ k.at = "verify" /\ k.error = Last(calls[t]).error
                         /\ calls' = [calls EXCEPT ![t][Len(calls[t])] = k]
    BY <1>1, MoveTo
<1>3. /\ calls[t] # <<>> /\ Last(calls[t]).class = c
      /\ Last(calls[t]).at = "claim" /\ InStep(t, Last(calls[t]), status[c], thread[c])
    BY <1>1, AtFacts
<1>4. LockedFor(t, c, "claim")
    BY <1>1, AtFacts
<1>5. /\ thread'[c] = t /\ \A d \in Classes \ {c} : thread'[d] = thread[d]
      /\ thread' \in [Classes -> Threads \union {NoThread}]
    BY <1>1 DEF Consistent, TypeOK
<1>6. /\ InStep(t, k, status[c], thread'[c])
      /\ Initializing(k) /\ InProgress(Last(calls[t]))
    BY <1>2, <1>3, <1>5 DEF InStep, InProgress, Initializing
<1>7. ClassMoves(t, c, k) /\ Remembers(t, c, k)
    BY <1>1, <1>2, <1>3, <1>5, <1>6 DEF ClassMoves, Remembers, Consistent, TypeOK
<1>8. /\ [Monitor!Next]_monitors /\ OthersKeepLocks(t) /\ waitSet' = waitSet
      /\ \A d \in Classes : t \in Involved(d)' <=> (t \in Involved(d) /\ d # c)
    BY <1>1, ExitFacts DEF Consistent, TypeOK
<1>9. \A d \in Classes : t \in Involved(d)' <=> d = c /\ k.at \in LockPlaces
    BY <1>1, <1>2, <1>4, <1>8 DEF LockedFor
<1>10. Moves(t, k)
    BY <1>2, <1>3, MoveFacts DEF Consistent
<1>11. RememberedOf(c)'
    BY <1>2, <1>3, <1>7, <1>8, <1>10, OwnRemembered
<1>12. k.at \in {"wait", "claim", "leave"} => owner'[c] = t
    BY <1>2
<1>13. QED BY <1>2, <1>3, <1>7, <1>8, <1>9, <1>11, <1>12, MoveStep

LEMMA WaitConsistent ==
    ASSUME Consistent, NEW t \in Threads, NEW c \in Classes, Wait(t, c)
    PROVE  Consistent'
<1>1. /\ At(t, c, "wait") /\ Goes(t, "test") /\ "test" \in Places
      /\ "wait" \in LockPlaces /\ "test" \in LockPlaces
      /\ status' = status /\ thread' = thread /\ Monitor!WaitOn(t, c)
    BY DEF Wait, Places, LockPlaces
<1>2. PICK k \in Calls : /\ k.class = c /\ k.at = "test" /\ k.error = Last(calls[t]).error
                         /\ calls' = [calls EXCEPT ![t][Len(calls[t])] = k]
    BY <1>1, MoveTo
<1>3. /\ calls[t] # <<>> /\ Last(calls[t]).class = c
      /\ Last(calls[t]).at = "wait" /\ InStep(t, Last(calls[t]), status[c], thread[c])
    BY <1>1, AtFacts
<1>4. LockedFor(t, c, "wait")
    BY <1>1, AtFacts
<1>5. /\ InStep(t, k, status[c], thread[c])
      /\ ~InProgress(k) /\ ~Initializing(Last(calls[t]))
    BY <1>2, <1>3 DEF InStep, InProgress, Initializing
<1>6. ClassMoves(t, c, k) /\ Remembers(t, c, k)
    BY <1>1, <1>2, <1>3, <1>5 DEF ClassMoves, Remembers, Consistent, TypeOK
<1>7. /\ [Monitor!Next]_monitors /\ OthersKeepLocks(t)
      /\ \A d \in Classes : t \in Involved(d)' <=> t \in Involved(d)
      /\ \A d \in Classes \ {c} : waitSet'[d] = waitSet[d]
    BY <1>1, WaitFacts DEF Consistent, TypeOK
<1>8. \A d \in Classes : t \in Involved(d)' <=> d = c /\ k.at \in LockPlaces
    BY <1>1, <1>2, <1>4, <1>7 DEF LockedFor
<1>9. Moves(t, k)
    BY <1>2, <1>3, MoveFacts DEF Consistent
<1>10. RememberedOf(c)'
    BY <1>2, <1>3, <1>6, <1>9, OwnRemembered
<1>11. k.at \in {"wait", "claim", "leave"} => owner'[c] = t
    BY <1>2
<1>12. QED BY <1>2, <1>3, <1>6, <1>7, <1>8, <1>10, <1>11, MoveStep

\* After notifyAll nobody waits for the class, and nobody is about to.
LEMMA NotifyAllConsistent ==
    ASSUME Consistent, NEW t \in Threads, NEW c \in Classes, NotifyAll(t, c)
    PROVE  Consistent'
<1>1. /\ At(t, c, "notify") /\ Goes(t, "leave") /\ "leave" \in Places
      /\ "notify" \in LockPlaces /\ "leave" \in LockPlaces
      /\ status' = status /\ thread' = thread
    BY DEF NotifyAll, Places, LockPlaces
<1>2. PICK k \in Calls : /\ k.class = c /\ k.at = "leave" /\ k.error = Last(calls[t]).error
                         /\ calls' = [calls EXCEPT ![t][Len(calls[t])] = k]
    BY <1>1, MoveTo
<1>3. /\ calls[t] # <<>> /\ Last(calls[t]).class = c /\ owner[c] = t
      /\ Last(calls[t]).at = "notify" /\ InStep(t, Last(calls[t]), status[c], thread[c])
      /\ ~Last(calls[t]).error => Initialized(t, c)
    BY <1>1, AtFacts
<1>4. LockedFor(t, c, "notify")
    BY <1>1, AtFacts
<1>5. /\ InStep(t, k, status[c], thread[c])
      /\ ~InProgress(k) /\ ~Initializing(Last(calls[t]))
    BY <1>2, <1>3 DEF InStep, InProgress, Initializing
<1>6. ~k.error => Initialized(t, c)'
    BY <1>1, <1>2, <1>3 DEF Initialized
<1>7. ClassMoves(t, c, k)
    BY <1>1, <1>2, <1>3, <1>5, <1>6 DEF ClassMoves, Consistent, TypeOK
<1>8. /\ [Monitor!Next]_monitors /\ waitSet'[c] = {}
      /\ \A u \in Threads, d \in Classes :
            /\ u \in Involved(d)' <=> u \in Involved(d)
            /\ owner[d] = u => owner'[d] = u
      /\ \A d \in Classes \ {c} : waitSet'[d] = waitSet[d]
    <2>1. CASE waitSet[c] = {} /\ UNCHANGED monitors
        BY <2>1, LocksUntouched
    <2>2. CASE Monitor!StopWaiting(c, waitSet[c])
        <3>1. waitSet[c] \ waitSet[c] = {} /\ waitSet[c] \in SUBSET waitSet[c]
            OBVIOUS
        <3>2. QED BY <2>2, <3>1, StopFacts DEF Consistent, TypeOK
    <2>3. QED BY <2>1, <2>2 DEF NotifyAll
<1>9. OthersKeepLocks(t)
    BY <1>8 DEF OthersKeepLocks
<1>10. \A d \in Classes : t \in Involved(d)' <=> d = c /\ k.at \in LockPlaces
    BY <1>1, <1>2, <1>4, <1>8 DEF LockedFor
<1>11. owner'[c] = t
    BY <1>3, <1>8
<1>12. RememberedOf(c)'
    <2> SUFFICES ASSUME NEW u \in Threads, At(u, c, "wait")' PROVE FALSE
        BY <1>8 DEF RememberedOf
    <2>1. Moves(t, k)
        BY <1>2, <1>3, MoveFacts DEF Consistent
    <2>2. Last(calls'[t]) = k
        BY <1>3, <2>1, MoveDomains DEF Consistent
    <2>3. u # t
        BY <1>2, <2>2 DEF At
    <2>4. calls'[u] = calls[u]
        BY <2>1, <2>3 DEF Moves
    <2>5. owner[c] = u
        BY <2>4, AboutToWait DEF At
    <2>6. QED BY <1>3, <2>3, <2>5
<1>13. QED BY <1>2, <1>3, <1>7, <1>8, <1>9, <1>10, <1>11, <1>12, MoveStep

-----------------------------------------------------------------------------
(* Steps in which calls begin and end.                                     *)

LEMMA StackStep ==
    ASSUME Consistent, NEW t \in Threads,
           calls' \in [Threads -> Seq(Calls)],
           \A u \in Threads \ {t} : calls'[u] = calls[u],
           status' = status, thread' = thread,
           [Monitor!Next]_monitors, OthersKeepLocks(t),
           CallsInStep', OneInitializer', OthersStayReady(t),
           LocksOf(t)', NestedOf(t)', ReadyOf(t)',
           \A c \in Classes : RememberedOf(c)'
    PROVE  Consistent'
<1>1. Monitor!TypeOK' /\ Monitor!Exclusion'
    BY MonitorsKept DEF Consistent, TypeOK
<1>2. TypeOK'
    BY <1>1 DEF Consistent, TypeOK
<1>3. LocksHeld' /\ CallsNested' /\ ReadyToReturn'
    BY OthersKept
<1>4. WaitersRemembered'
    BY ByThreadNext
<1>5. QED BY <1>1, <1>2, <1>3, <1>4 DEF Consistent

\* Nobody is forgotten when a thread begins or ends a call that notifies nobody.
LEMMA StackRemembered ==
    ASSUME Consistent, NEW t \in Threads,
           \A u \in Threads \ {t} : calls'[u] = calls[u],
           status' = status, waitSet' = waitSet,
           calls'[t] # <<>> => Last(calls'[t]).at # "wait",
           \A i \in DOMAIN calls[t] : calls[t][i].at \in {"relock", "notify"} =>
              i \in DOMAIN calls'[t] /\ calls'[t][i] = calls[t][i]
    PROVE  \A c \in Classes : RememberedOf(c)'
<1> SUFFICES ASSUME NEW c \in Classes,
                    waitSet[c] # {} \/ \E u \in Threads : At(u, c, "wait")'
             PROVE  "IN_PROGRESS" \in status[c] \/ Notifier(c)'
    BY DEF RememberedOf
<1>1. \A u \in Threads : At(u, c, "wait")' => At(u, c, "wait")
    <2> SUFFICES ASSUME NEW u \in Threads, At(u, c, "wait")' PROVE At(u, c, "wait")
        OBVIOUS
    <2>1. u # t
        BY DEF At
    <2>2. calls[u] = calls'[u]
        BY <2>1
    <2>3. QED BY <2>2, AboutToWait DEF At
<1>2. RememberedOf(c)
    BY ByThread DEF Consistent
<1>3. CASE Notifier(c)
    <2>1. PICK u \in Threads : \E i \in DOMAIN calls[u] :
             calls[u][i].class = c /\ calls[u][i].at \in {"relock", "notify"}
        BY <1>3 DEF Notifier
    <2>2. PICK i \in DOMAIN calls[u] :
             calls[u][i].class = c /\ calls[u][i].at \in {"relock", "notify"}
        BY <2>1
    <2>3. i \in DOMAIN calls'[u] /\ calls'[u][i] = calls[u][i]
        BY <2>2
    <2>4. QED BY <2>2, <2>3 DEF Notifier
<1>4. QED BY <1>1, <1>2, <1>3 DEF RememberedOf

LEMMA PushFacts ==
    ASSUME TypeOK, NEW t \in Threads, NEW on \in Seq(Calls), NEW c \in Classes,
           calls' = [calls EXCEPT ![t] = Append(on, Call(c))]
    PROVE  /\ calls' \in [Threads -> Seq(Calls)]
           /\ \A u \in Threads \ {t} : calls'[u] = calls[u]
           /\ Len(on) \in Nat /\ Len(calls'[t]) = Len(on) + 1
           /\ DOMAIN on = 1..Len(on) /\ DOMAIN calls'[t] = 1..Len(on) + 1
           /\ \A i \in DOMAIN on : calls'[t][i] = on[i]
           /\ calls'[t] # <<>>
           /\ calls'[t][Len(on) + 1] = Call(c) /\ Last(calls'[t]) = Call(c)
<1>1. Call(c) \in Calls
    BY DEF Call, Calls, Places
<1>2. calls'[t] = Append(on, Call(c)) /\ calls'[t] \in Seq(Calls)
    BY <1>1 DEF TypeOK
<1>3. calls' \in [Threads -> Seq(Calls)] /\ \A u \in Threads \ {t} : calls'[u] = calls[u]
    BY <1>1, <1>2 DEF TypeOK
<1>4. QED BY <1>1, <1>2, <1>3 DEF Last

LEMMA UseConsistent ==
    ASSUME Consistent, NEW t \in Threads, NEW c \in Classes, Use(t, c)
    PROVE  Consistent'
<1>1. /\ calls[t] = <<>> \/ \E d \in Classes : At(t, d, "clinit")
      /\ calls' = [calls EXCEPT ![t] = Append(calls[t], Call(c))]
      /\ status' = status /\ thread' = thread /\ UNCHANGED monitors
    BY DEF Use
<1>2. calls[t] \in Seq(Calls)
    BY DEF Consistent, TypeOK
<1>3. /\ calls' \in [Threads -> Seq(Calls)]
      /\ \A u \in Threads \ {t} : calls'[u] = calls[u]
      /\ Len(calls[t]) \in Nat /\ Len(calls'[t]) = Len(calls[t]) + 1
      /\ DOMAIN calls[t] = 1..Len(calls[t]) /\ DOMAIN calls'[t] = 1..Len(calls[t]) + 1
      /\ \A i \in DOMAIN calls[t] : calls'[t][i] = calls[t][i]
      /\ calls'[t] # <<>>
      /\ calls'[t][Len(calls[t]) + 1] = Call(c) /\ Last(calls'[t]) = Call(c)
    BY <1>1, <1>2, PushFacts DEF Consistent
<1>4. Call(c).at = "lock" /\ ~Call(c).error
    BY DEF Call
<1>5. Persist(t, 0)
    BY <1>3, <1>4 DEF Persist
<1>6. CallsInStep' /\ OneInitializer' /\ OthersStayReady(t)
    <2>1. 0 \notin DOMAIN calls[t] /\ 0 \notin DOMAIN calls'[t]
        BY <1>3
    <2>2. QED BY <1>1, <1>3, <1>5, <2>1, CallsPersist DEF Consistent
<1>7. \A d \in Classes : t \notin Involved(d)
    <2>1. CASE calls[t] = <<>>
        <3>1. LocksOf(t)
            BY ByThread DEF Consistent
        <3>2. QED BY <2>1, <3>1 DEF LocksOf
    <2>2. CASE \E d \in Classes : At(t, d, "clinit")
        <3>1. PICK d \in Classes : At(t, d, "clinit")
            BY <2>2
        <3>2. LockedFor(t, d, "clinit")
            BY <3>1, AtFacts
        <3>3. QED BY <3>2 DEF LockedFor, LockPlaces
    <2>3. QED BY <1>1, <2>1, <2>2
<1>8. /\ [Monitor!Next]_monitors /\ OthersKeepLocks(t) /\ waitSet' = waitSet
      /\ \A d \in Classes : t \notin Involved(d)'
    BY <1>1, <1>7, LocksUntouched DEF OthersKeepLocks
<1>9. LocksOf(t)'
    BY <1>3, <1>4, <1>8 DEF LocksOf, LockPlaces
<1>10. ReadyOf(t)'
    BY <1>3, <1>4 DEF ReadyOf
<1>11. NestedOf(t)'
    <2>1. NestedOf(t)
        BY ByThread DEF Consistent
    <2>2. ASSUME NEW i \in DOMAIN calls[t]
          PROVE  /\ calls'[t][i].at \in {"invoke", "clinit"}
                 /\ (calls'[t][i].at = "invoke" /\ Super[calls'[t][i].class] # NoClass) =>
                        calls'[t][i + 1].class = Super[calls'[t][i].class]
        <3>1. CASE i < Len(calls[t])
            <4>1. i + 1 \in DOMAIN calls[t]
                BY <1>3, <3>1
            <4>2. QED BY <1>3, <2>1, <3>1, <4>1 DEF NestedOf
        <3>2. CASE i = Len(calls[t])
            <4>1. PICK d \in Classes : At(t, d, "clinit")
                BY <1>1, <1>3, <2>2, <3>2
            <4>2. Last(calls[t]).at = "clinit"
                BY <4>1, AtFacts
            <4>3. QED BY <1>3, <3>2, <4>2 DEF Last
        <3>3. QED BY <1>3, <2>2, <3>1, <3>2
    <2>3. \A i \in DOMAIN calls'[t] :
             \/ i \in DOMAIN calls[t] /\ i < Len(calls'[t])
             \/ i = Len(calls'[t]) /\ calls'[t][i].at = "lock"
        BY <1>3, <1>4
    <2>4. QED BY <1>3, <2>2, <2>3 DEF NestedOf
<1>12. \A d \in Classes : RememberedOf(d)'
    BY <1>1, <1>3, <1>4, <1>8, StackRemembered
<1>13. QED BY <1>1, <1>3, <1>6, <1>8, <1>9, <1>10, <1>11, <1>12, StackStep

LEMMA InterruptConsistent ==
    ASSUME Consistent, NEW t \in Threads, NEW c \in Classes, Interrupt(t, c)
    PROVE  Consistent'
<1>1. /\ {t} \in SUBSET waitSet[c] /\ Monitor!StopWaiting(c, {t})
      /\ status' = status /\ thread' = thread /\ calls' = calls
    BY DEF Interrupt
<1>2. /\ [Monitor!Next]_monitors
      /\ \A u \in Threads, d \in Classes :
            /\ u \in Involved(d)' <=> u \in Involved(d)
            /\ owner[d] = u => owner'[d] = u
      /\ \A d \in Classes \ {c} : waitSet'[d] = waitSet[d]
      /\ waitSet'[c] = waitSet[c] \ {t}
    BY <1>1, StopFacts DEF Consistent, TypeOK
<1>3. Monitor!TypeOK' /\ Monitor!Exclusion'
    BY <1>2, MonitorsKept DEF Consistent, TypeOK
<1>4. TypeOK'
    BY <1>1, <1>3 DEF Consistent, TypeOK
<1>5. CallsInStep' /\ OneInitializer'
    <2>1. CallsInStep'
        BY <1>1 DEF Consistent, CallsInStep, InStep, Initializing
    <2>2. Persist(t, 0) /\ 0 \notin DOMAIN calls[t] /\ calls' \in [Threads -> Seq(Calls)]
        BY <1>1 DEF Persist, Consistent, TypeOK
    <2>3. QED BY <1>1, <2>1, <2>2, CallsPersist DEF Consistent
<1>6. CallsNested' /\ ReadyToReturn'
    BY <1>1 DEF Consistent, CallsNested, ReadyToReturn, Initialized
<1>7. LocksHeld'
    <2> SUFFICES ASSUME NEW u \in Threads PROVE LocksOf(u)'
        BY ByThreadNext
    <2>1. LocksOf(u)
        BY ByThread DEF Consistent
    <2>2. calls[u] # <<>> => Last(calls[u]).class \in Classes
        BY InnermostCall DEF Consistent, Calls
    <2>3. QED BY <1>1, <1>2, <2>1, <2>2 DEF LocksOf
<1>8. WaitersRemembered'
    <2> SUFFICES ASSUME NEW d \in Classes PROVE RememberedOf(d)'
        BY ByThreadNext
    <2>1. RememberedOf(d)
        BY ByThread DEF Consistent
    <2>2. waitSet'[d] # {} => waitSet[d] # {}
        BY <1>2
    <2>3. \A u \in Threads : At(u, d, "wait")' => At(u, d, "wait")
        BY <1>1, AboutToWait DEF At
    <2>4. Notifier(d) => Notifier(d)'
        BY <1>1 DEF Notifier
    <2>5. QED BY <1>1, <2>1, <2>2, <2>3, <2>4 DEF RememberedOf
<1>9. QED BY <1>3, <1>4, <1>5, <1>6, <1>7, <1>8 DEF Consistent

\* The superclass is looked at; a call for it is put on top of this one, which
\* goes on when that one has returned.
LEMMA Step7Consistent ==
    ASSUME Consistent, NEW t \in Threads, NEW c \in Classes, Step7(t, c)
    PROVE  Consistent'
<1> DEFINE m == Len(calls[t])
           k == [Last(calls[t]) EXCEPT !.at = "invoke"]
           on == [calls[t] EXCEPT ![m] = k]
           s == Super[c]
<1>1. At(t, c, "super") /\ status' = status /\ thread' = thread /\ UNCHANGED monitors
    BY DEF Step7
<1>2. /\ calls[t] # <<>> /\ Last(calls[t]) \in Calls
      /\ Last(calls[t]).class = c /\ Last(calls[t]).at = "super"
      /\ InStep(t, Last(calls[t]), status[c], thread[c])
    BY <1>1, AtFacts
<1>3. LockedFor(t, c, "super")
    BY <1>1, AtFacts
<1>4. /\ calls[t] \in Seq(Calls) /\ m \in Nat \ {0} /\ m \in DOMAIN calls[t]
      /\ Last(calls[t]) = calls[t][m]
    BY <1>2, InnermostCall DEF Consistent, TypeOK
<1>5. k \in Calls /\ k.class = c /\ k.at = "invoke" /\ k.error = Last(calls[t]).error
    BY <1>2 DEF Calls, Places
<1>6. /\ InStep(t, k, status[c], thread[c]) /\ thread[c] = t
      /\ Initializing(k) /\ InProgress(Last(calls[t]))
    BY <1>2, <1>5 DEF InStep, InProgress, Initializing
<1>7. /\ s = NoClass \/ (s \in Classes /\ "INITIALIZED" \in status[s])
            => calls' = [calls EXCEPT ![t] = on]
      /\ s \in Classes /\ "INITIALIZED" \notin status[s]
            => calls' = [calls EXCEPT ![t] = Append(on, Call(s))]
      /\ s \in Classes \/ s = NoClass
    BY <1>4 DEF Step7, ClassAssumption
<1>8. CASE s = NoClass \/ (s \in Classes /\ "INITIALIZED" \in status[s])
    <2>1. calls' = [calls EXCEPT ![t][Len(calls[t])] = k]
        BY <1>7, <1>8
    <2>2. k.at \in LockPlaces <=> "super" \in LockPlaces
        BY <1>5 DEF LockPlaces
    <2>3. k.at = "invoke" /\ Super[c] # NoClass => Initialized(t, Super[c])'
        BY <1>1, <1>8 DEF Initialized
    <2> HIDE DEF k
    <2>4. ClassMoves(t, c, k) /\ Remembers(t, c, k)
        BY <1>1, <1>2, <1>5, <1>6, <2>3 DEF ClassMoves, Remembers, Consistent, TypeOK
    <2>5. QED BY <1>1, <1>5, <2>1, <2>2, <2>4, MoveAlone
<1>9. CASE s \in Classes /\ "INITIALIZED" \notin status[s]
    <2>1. on \in Seq(Calls) /\ Len(on) = m /\ on[m] = k
          /\ \A i \in DOMAIN calls[t] \ {m} : on[i] = calls[t][i]
        BY <1>4, <1>5
    <2>2. calls' = [calls EXCEPT ![t] = Append(on, Call(s))]
        BY <1>7, <1>9
    <2> HIDE DEF on, k, s
    <2>3. /\ calls' \in [Threads -> Seq(Calls)]
          /\ \A u \in Threads \ {t} : calls'[u] = calls[u]
          /\ Len(calls'[t]) = Len(on) + 1
          /\ DOMAIN on = 1..Len(on) /\ DOMAIN calls'[t] = 1..Len(on) + 1
          /\ \A i \in DOMAIN on : calls'[t][i] = on[i]
          /\ calls'[t] # <<>>
          /\ calls'[t][Len(on) + 1] = Call(s) /\ Last(calls'[t]) = Call(s)
        <3>1. PICK r \in Seq(Calls), d \in Classes :
                 r = on /\ d = s /\ calls' = [calls EXCEPT ![t] = Append(r, Call(d))]
            BY <1>9, <2>1, <2>2
        <3>2. /\ calls' \in [Threads -> Seq(Calls)]
              /\ \A u \in Threads \ {t} : calls'[u] = calls[u]
              /\ Len(r) \in Nat /\ Len(calls'[t]) = Len(r) + 1
              /\ DOMAIN r = 1..Len(r) /\ DOMAIN calls'[t] = 1..Len(r) + 1
              /\ \A i \in DOMAIN r : calls'[t][i] = r[i]
              /\ calls'[t] # <<>>
              /\ calls'[t][Len(r) + 1] = Call(d) /\ Last(calls'[t]) = Call(d)
            <4>1. TypeOK
                BY DEF Consistent
            <4>2. calls' = [calls EXCEPT ![t] = Append(r, Call(d))]
                BY <3>1
            <4>3. QED BY <4>1, <4>2, PushFacts, Zenon
        <3>3. QED BY <3>1, <3>2
    <2>4. /\ DOMAIN calls[t] = 1..m /\ DOMAIN calls'[t] = 1..m + 1
          /\ m \in DOMAIN calls'[t] /\ calls'[t][m] = k /\ calls'[t][m + 1] = Call(s)
          /\ \A i \in DOMAIN calls[t] \ {m} : calls'[t][i] = calls[t][i]
        <3>1. DOMAIN calls[t] = 1..m
            BY <1>4
        <3> HIDE DEF m
        <3>2. m \in DOMAIN on /\ m \in 1..m + 1
            BY <1>4, <2>1, <2>3
        <3>3. DOMAIN calls'[t] = 1..m + 1 /\ calls'[t][m] = k /\ calls'[t][m + 1] = Call(s)
            BY <2>1, <2>3, <3>2
        <3>4. DOMAIN on = DOMAIN calls[t]
            BY <2>1, <2>3, <3>1
        <3>5. \A i \in DOMAIN calls[t] \ {m} : calls'[t][i] = calls[t][i]
            BY <2>1, <2>3, <3>4
        <3>6. QED BY <3>1, <3>2, <3>3, <3>5
    <2>5. Call(s).at = "lock" /\ ~Call(s).error /\ Call(s).class = s
        BY DEF Call
    <2>6. Persist(t, m)
        BY <1>4, <2>3, <2>4, <2>5 DEF Persist
    <2>7. CallsInStep' /\ OneInitializer' /\ OthersStayReady(t)
        <3> HIDE DEF m
        <3>1. /\ calls[t][m].class = c /\ InProgress(calls[t][m])
              /\ \A d \in Classes \ {c} : status'[d] = status[d] /\ thread'[d] = thread[d]
              /\ thread' \in [Classes -> Threads \union {NoThread}]
              /\ InStep(t, k, status'[c], thread'[c]) /\ thread'[c] = t
            BY <1>1, <1>2, <1>4, <1>6 DEF Consistent, TypeOK
        <3>2. QED
            BY <1>4, <1>5, <1>6, <2>3, <2>4, <2>6, <3>1, CallChanges DEF Consistent
    <2>8. /\ [Monitor!Next]_monitors /\ OthersKeepLocks(t) /\ waitSet' = waitSet
          /\ \A d \in Classes : t \notin Involved(d)'
        BY <1>1, <1>3, LocksUntouched DEF OthersKeepLocks, LockedFor, LockPlaces
    <2>9. LocksOf(t)'
        BY <2>3, <2>5, <2>8 DEF LocksOf, LockPlaces
    <2>10. ReadyOf(t)'
        BY <2>3, <2>5 DEF ReadyOf
    <2>11. NestedOf(t)'
        <3>1. NestedOf(t)
            BY ByThread DEF Consistent
        <3>2. ASSUME NEW i \in DOMAIN calls[t]
              PROVE  /\ calls'[t][i].at \in {"invoke", "clinit"}
                     /\ (calls'[t][i].at = "invoke" /\ Super[calls'[t][i].class] # NoClass) =>
                            calls'[t][i + 1].class = Super[calls'[t][i].class]
            <4>1. CASE i = m
                BY <1>5, <2>4, <2>5, <4>1 DEF s
            <4>2. CASE i < m
                <5>1. i + 1 \in DOMAIN calls[t] /\ calls'[t][i] = calls[t][i]
                    BY <1>4, <2>4, <4>2
                <5>2. calls'[t][i + 1].class = calls[t][i + 1].class
                    BY <1>2, <1>4, <1>5, <2>4, <5>1
                <5>3. QED BY <3>1, <4>2, <5>1, <5>2 DEF NestedOf
            <4>3. QED BY <1>4, <2>4, <3>2, <4>1, <4>2
        <3>3. \A i \in DOMAIN calls'[t] :
                 \/ i \in DOMAIN calls[t] /\ i < Len(calls'[t])
                 \/ i = Len(calls'[t]) /\ calls'[t][i].at = "lock"
            BY <1>4, <2>1, <2>3, <2>4, <2>5
        <3>4. QED BY <3>2, <3>3 DEF NestedOf
    <2>12. \A d \in Classes : RememberedOf(d)'
        <3>1. \A i \in DOMAIN calls[t] : calls[t][i].at \in {"relock", "notify"} =>
                 i \in DOMAIN calls'[t] /\ calls'[t][i] = calls[t][i]
            BY <1>2, <1>4, <2>4
        <3>2. QED BY <1>1, <2>3, <2>5, <2>8, <3>1, StackRemembered
    <2>13. QED BY <1>1, <2>3, <2>7, <2>8, <2>9, <2>10, <2>11, <2>12, StackStep
<1>10. QED BY <1>7, <1>8, <1>9

LEMMA FrontFacts ==
    ASSUME TypeOK, NEW t \in Threads, calls[t] # <<>>
    PROVE  /\ Front(calls[t]) \in Seq(Calls) /\ Len(calls[t]) \in Nat \ {0}
           /\ Len(Front(calls[t])) = Len(calls[t]) - 1
           /\ DOMAIN Front(calls[t]) = 1..Len(calls[t]) - 1
           /\ DOMAIN calls[t] = 1..Len(calls[t])
           /\ \A i \in 1..Len(calls[t]) - 1 : Front(calls[t])[i] = calls[t][i]
<1>1. calls[t] \in Seq(Calls) /\ Len(calls[t]) \in Nat \ {0}
    BY InnermostCall DEF TypeOK
<1>2. Front(calls[t]) = SubSeq(calls[t], 1, Len(calls[t]) - 1)
    BY DEF Front
<1>3. QED BY <1>1, <1>2

\* A call ends: without an exception its caller has what it needs, with one its
\* caller fails.
LEMMA LeaveConsistent ==
    ASSUME Consistent, NEW t \in Threads, NEW c \in Classes, Leave(t, c)
    PROVE  Consistent'
<1> DEFINE n == Len(calls[t])
           m == n - 1
           caller == Front(calls[t])
<1>1. /\ At(t, c, "leave") /\ Monitor!Exit(t, c)
      /\ calls' = [calls EXCEPT ![t] = Returned(calls[t])]
      /\ status' = status /\ thread' = thread
    BY DEF Leave
<1>2. /\ calls[t] # <<>> /\ Last(calls[t]).class = c /\ Last(calls[t]).at = "leave"
      /\ ~Last(calls[t]).error => Initialized(t, c)
    BY <1>1, AtFacts
<1>3. LockedFor(t, c, "leave")
    BY <1>1, AtFacts
<1>4. /\ caller \in Seq(Calls) /\ n \in Nat \ {0} /\ Len(caller) = m
      /\ DOMAIN caller = 1..m /\ DOMAIN calls[t] = 1..n
      /\ \A i \in 1..m : caller[i] = calls[t][i]
      /\ Last(calls[t]) = calls[t][n]
    BY <1>2, FrontFacts, InnermostCall DEF Consistent
<1>5. /\ [Monitor!Next]_monitors /\ OthersKeepLocks(t) /\ waitSet' = waitSet
      /\ \A d \in Classes : t \notin Involved(d)'
    BY <1>1, <1>3, ExitFacts DEF Consistent, TypeOK, LockedFor
<1>6. NestedOf(t) /\ ReadyOf(t)
    BY ByThread DEF Consistent
<1>7. \A i \in 1..m :
         /\ calls[t][i].at \in {"invoke", "clinit"} /\ calls[t][i] \in Calls
         /\ (calls[t][i].at = "invoke" /\ Super[calls[t][i].class] # NoClass)
               => calls[t][i + 1].class = Super[calls[t][i].class]
    BY <1>4, <1>6 DEF NestedOf, Consistent, TypeOK
<1>8. CASE caller # <<>> /\ Last(calls[t]).error
    <2> DEFINE k == [calls[t][m] EXCEPT !.at = "catch"]
               d == calls[t][m].class
    <2>1. m \in Nat \ {0} /\ m \in 1..m /\ m \in DOMAIN calls[t]
        BY <1>4, <1>8
    <2>2. /\ calls[t][m] \in Calls /\ calls[t][m].at \in {"invoke", "clinit"}
          /\ InStep(t, calls[t][m], status[d], thread[d])
        BY <1>7, <2>1 DEF Consistent, CallsInStep
    <2>3. k \in Calls /\ k.class = d /\ k.at = "catch" /\ k.error = calls[t][m].error /\ d \in Classes
        BY <2>2 DEF Calls, Places
    <2>4. calls'[t] = [caller EXCEPT ![m] = k]
        <3>1. Returned(calls[t]) = [caller EXCEPT ![Len(caller)].at = "catch"]
            BY <1>8 DEF Returned
        <3>2. caller[m] = calls[t][m] /\ Len(caller) = m
            BY <1>4, <2>1
        <3>3. calls'[t] = Returned(calls[t])
            BY <1>1 DEF Consistent, TypeOK
        <3> HIDE DEF caller, m
        <3>4. QED BY <3>1, <3>2, <3>3
    <2>5. /\ calls'[t] \in Seq(Calls) /\ Len(calls'[t]) = m /\ DOMAIN calls'[t] = 1..m
          /\ calls'[t][m] = k /\ Last(calls'[t]) = k /\ calls'[t] # <<>>
          /\ \A i \in 1..m : i # m => calls'[t][i] = calls[t][i]
        <3> HIDE DEF caller, k, n
        <3>1. [caller EXCEPT ![m] = k] \in Seq(Calls) /\ Len([caller EXCEPT ![m] = k]) = m
            BY <1>4, <2>1, <2>3
        <3>2. QED BY <1>4, <2>1, <2>3, <2>4, <3>1 DEF Last
    <2>6. /\ calls' \in [Threads -> Seq(Calls)]
          /\ \A u \in Threads \ {t} : calls'[u] = calls[u]
        BY <1>1, <2>5 DEF Consistent, TypeOK
    <2>7. /\ InStep(t, k, status[d], thread[d]) /\ thread[d] = t
          /\ Initializing(k) /\ InProgress(calls[t][m])
        BY <2>2, <2>3 DEF InStep, InProgress, Initializing
    <2> HIDE DEF k, d, caller
    <2>8. Persist(t, m)
        <3>1. \A i \in 1..n : i = n \/ i \in 1..m
            BY <1>4
        <3>2. \A i \in 1..m : i \in 1..n
            BY <1>4
        <3> HIDE DEF m, n
        <3>3. QED BY <1>2, <1>4, <2>5, <2>6, <3>1, <3>2 DEF Persist
    <2>9. CallsInStep' /\ OneInitializer' /\ OthersStayReady(t)
        <3> HIDE DEF m, n
        <3>1. /\ calls[t][m].class = d /\ m \in DOMAIN calls'[t]
              /\ \A e \in Classes \ {d} : status'[e] = status[e] /\ thread'[e] = thread[e]
              /\ thread' \in [Classes -> Threads \union {NoThread}]
              /\ InStep(t, k, status'[d], thread'[d]) /\ thread'[d] = t
              /\ status'[d] = status[d] /\ thread'[d] = thread[d]
            BY <1>1, <2>1, <2>5, <2>7 DEF Consistent, TypeOK, d
        <3>2. QED
            BY <2>1, <2>3, <2>5, <2>6, <2>7, <2>8, <3>1, CallChanges DEF Consistent
    <2>10. LocksOf(t)' /\ ReadyOf(t)'
        BY <1>5, <2>3, <2>5 DEF LocksOf, ReadyOf, LockPlaces
    <2>11. NestedOf(t)'
        <3>1. ASSUME NEW i \in 1..m, i < m
              PROVE  /\ calls'[t][i].at \in {"invoke", "clinit"}
                     /\ (calls'[t][i].at = "invoke" /\ Super[calls'[t][i].class] # NoClass) =>
                            calls'[t][i + 1].class = Super[calls'[t][i].class]
            <4>1. i + 1 \in 1..m /\ calls'[t][i] = calls[t][i]
                BY <2>1, <2>5, <3>1
            <4>2. calls'[t][i + 1].class = calls[t][i + 1].class
                BY <2>3, <2>5, <4>1 DEF d
            <4>3. QED BY <1>7, <4>1, <4>2
        <3>2. \A i \in 1..m : i < m \/ (i = m /\ calls'[t][i].at = "catch")
            BY <2>1, <2>3, <2>5
        <3>3. QED BY <2>1, <2>5, <3>1, <3>2 DEF NestedOf
    <2>12. \A e \in Classes : RememberedOf(e)'
        <3>1. \A i \in DOMAIN calls[t] : calls[t][i].at \in {"relock", "notify"} =>
                 i \in DOMAIN calls'[t] /\ calls'[t][i] = calls[t][i]
            BY <1>2, <1>4, <1>7
        <3>2. QED BY <1>1, <1>5, <2>3, <2>5, <2>6, <3>1, StackRemembered
    <2>13. QED BY <1>1, <1>5, <2>6, <2>9, <2>10, <2>11, <2>12, StackStep
<1>9. CASE ~(caller # <<>> /\ Last(calls[t]).error)
    <2>1. calls'[t] = caller
        BY <1>1, <1>9 DEF Returned, Consistent, TypeOK
    <2> HIDE DEF caller
    <2>2. /\ calls' \in [Threads -> Seq(Calls)]
          /\ \A u \in Threads \ {t} : calls'[u] = calls[u]
          /\ DOMAIN calls'[t] = 1..m /\ Len(calls'[t]) = m
          /\ \A i \in 1..m : calls'[t][i] = calls[t][i]
        BY <1>1, <1>4, <2>1 DEF Consistent, TypeOK
    <2>3. Persist(t, 0)
        BY <1>2, <1>4, <2>2 DEF Persist
    <2>4. CallsInStep' /\ OneInitializer' /\ OthersStayReady(t)
        <3>1. 0 \notin DOMAIN calls[t] /\ 0 \notin DOMAIN calls'[t]
            BY <1>4, <2>2
        <3>2. QED BY <1>1, <2>2, <2>3, <3>1, CallsPersist DEF Consistent
    <2>5. calls'[t] # <<>> =>
             /\ m \in 1..m /\ Last(calls'[t]) = calls[t][m]
             /\ Last(calls'[t]).at \in {"invoke", "clinit"}
             /\ ~Last(calls[t]).error
        <3>1. calls'[t] # <<>> => m \in 1..m /\ Last(calls'[t]) = calls[t][m]
            BY <1>4, <2>1, <2>2 DEF Last
        <3>2. QED BY <1>7, <1>9, <2>1, <3>1
    <2>6. LocksOf(t)' /\ ReadyOf(t)'
        BY <1>5, <2>5 DEF LocksOf, ReadyOf, LockPlaces
    <2>7. NestedOf(t)'
        <3>1. ASSUME NEW i \in 1..m
              PROVE  /\ i < m => calls'[t][i].at \in {"invoke", "clinit"}
                     /\ (calls'[t][i].at = "invoke" /\ Super[calls'[t][i].class] # NoClass) =>
                           IF i < m THEN calls'[t][i + 1].class = Super[calls'[t][i].class]
                           ELSE Initialized(t, Super[calls[t][i].class])'
            <4>1. CASE i < m
                <5>1. i + 1 \in 1..m
                    BY <1>4, <4>1
                <5>2. QED BY <1>7, <2>2, <4>1, <5>1
            <4>2. CASE i = m
                <5>1. i + 1 = n /\ ~Last(calls[t]).error
                    BY <1>4, <2>2, <2>5, <4>2
                <5>2. Initialized(t, c)'
                    BY <1>1, <1>2, <5>1 DEF Initialized
                <5>3. (calls[t][i].at = "invoke" /\ Super[calls[t][i].class] # NoClass)
                         => c = Super[calls[t][i].class]
                    BY <1>2, <1>4, <1>7, <5>1
                <5>4. QED BY <2>2, <4>2, <5>2, <5>3
            <4>3. QED BY <1>4, <4>1, <4>2
        <3> HIDE DEF m, n
        <3>2. QED BY <2>2, <3>1 DEF NestedOf, Initialized
    <2>8. \A e \in Classes : RememberedOf(e)'
        <3>1. \A i \in DOMAIN calls[t] : calls[t][i].at \in {"relock", "notify"} =>
                 i \in DOMAIN calls'[t] /\ calls'[t][i] = calls[t][i]
            BY <1>2, <1>4, <1>7
        <3>2. QED BY <1>1, <1>5, <2>2, <2>5, <3>1, StackRemembered
    <2>9. QED BY <1>1, <1>5, <2>2, <2>4, <2>6, <2>7, <2>8, StackStep
<1>10. QED BY <1>8, <1>9

-----------------------------------------------------------------------------
(* The theorems.                                                           *)

LEMMA InitConsistent == Init => Consistent
<1> SUFFICES ASSUME Init PROVE Consistent
    OBVIOUS
<1>1. /\ \A t \in Threads : calls[t] = <<>> /\ DOMAIN calls[t] = {}
      /\ \A c \in Classes :
            /\ status[c] = {} /\ thread[c] = NoThread /\ owner[c] = NoThread
            /\ entrySet[c] = {} /\ waitSet[c] = {}
            /\ \A t \in Threads : depth[t][c] = 0
      /\ NoThread \notin Threads
    BY DEF Init, Monitor!Init, ClassAssumption
<1>2. Monitor!TypeOK /\ Monitor!Exclusion
    BY <1>1 DEF Init, Monitor!Init, Monitor!TypeOK, Monitor!Exclusion
<1>3. TypeOK
    BY <1>2 DEF Init, TypeOK
<1>4. LocksHeld
    BY <1>1 DEF LocksHeld
<1>5. CallsInStep /\ OneInitializer /\ CallsNested
    BY <1>1 DEF CallsInStep, OneInitializer, CallsNested
<1>6. ReadyToReturn /\ WaitersRemembered
    BY <1>1 DEF ReadyToReturn, WaitersRemembered, At
<1>7. QED BY <1>2, <1>3, <1>4, <1>5, <1>6 DEF Consistent

LEMMA NextConsistent == Consistent /\ [Next]_vars => Consistent'
<1> SUFFICES ASSUME Consistent, [Next]_vars PROVE Consistent'
    OBVIOUS
<1>1. CASE Next
    <2>1. PICK t \in Threads, c \in Classes : Use(t, c) \/ Initialize(t, c) \/ Interrupt(t, c)
        BY <1>1 DEF Next
    <2>2. CASE Initialize(t, c)
        <3>1. CASE Step1(t, c) \/ Step9(t, c) \/ Step11(t, c)
            BY <3>1, LockingConsistent
        <3>2. CASE Step2(t, c)
            BY <3>2, Step2Consistent
        <3>3. CASE Wait(t, c)
            BY <3>3, WaitConsistent
        <3>4. CASE Steps3To5(t, c)
            BY <3>4, Steps3To5Consistent
        <3>5. CASE Step6(t, c)
            BY <3>5, Step6Consistent
        <3>6. CASE Claim(t, c)
            BY <3>6, ClaimConsistent
        <3>7. CASE Verify(t, c)
            BY <3>7, VerifyConsistent
        <3>8. CASE Step7(t, c)
            BY <3>8, Step7Consistent
        <3>9. CASE Step8(t, c)
            BY <3>9, Step8Consistent
        <3>10. CASE Done(t, c)
            BY <3>10, DoneConsistent
        <3>11. CASE Throw(t, c)
            BY <3>11, ThrowConsistent
        <3>12. CASE Step10(t, c)
            BY <3>12, Step10Consistent
        <3>13. CASE NotifyAll(t, c)
            BY <3>13, NotifyAllConsistent
        <3>14. CASE Leave(t, c)
            BY <3>14, LeaveConsistent
        <3>15. QED
            BY <2>2, <3>1, <3>2, <3>3, <3>4, <3>5, <3>6, <3>7, <3>8, <3>9, <3>10, <3>11,
               <3>12, <3>13, <3>14 DEF Initialize
    <2>3. QED BY <2>1, <2>2, UseConsistent, InterruptConsistent
<1>2. CASE UNCHANGED vars
    <2>1. /\ status' = status /\ thread' = thread /\ calls' = calls
          /\ owner' = owner /\ entrySet' = entrySet /\ waitSet' = waitSet /\ depth' = depth
        BY <1>2 DEF vars, monitors
    <2>2. TypeOK' /\ Monitor!Exclusion' /\ LocksHeld'
        BY <2>1 DEF Consistent, TypeOK, Monitor!TypeOK, Monitor!Exclusion, LocksHeld
    <2>3. CallsInStep' /\ OneInitializer'
        <3>1. UNCHANGED monitors
            BY <2>1 DEF monitors
        <3>2. calls' \in [Threads -> Seq(Calls)]
            BY <2>1 DEF Consistent, TypeOK
        <3>3. CallsInStep'
            BY <2>1 DEF Consistent, CallsInStep, InStep, Initializing
        <3>4. OneInitializer'
            <4>1. CASE Threads = {}
                BY <2>1, <3>2, <4>1 DEF OneInitializer, Consistent, TypeOK
            <4>2. CASE Threads # {}
                <5>1. PICK t \in Threads : TRUE
                    BY <4>2
                <5>2. Persist(t, 0) /\ 0 \notin DOMAIN calls[t] /\ 0 \notin DOMAIN calls'[t]
                    BY <2>1 DEF Persist, Consistent, TypeOK
                <5>3. QED BY <2>1, <3>2, <5>2, CallsPersist DEF Consistent
            <4>3. QED BY <4>1, <4>2
        <3>5. QED BY <3>3, <3>4
    <2>4. CallsNested' /\ ReadyToReturn'
        BY <2>1 DEF Consistent, CallsNested, ReadyToReturn, Initialized
    <2>5. WaitersRemembered'
        BY <2>1 DEF Consistent, WaitersRemembered, At, Monitor!Free
    <2>6. QED BY <2>2, <2>3, <2>4, <2>5 DEF Consistent
<1>3. QED BY <1>1, <1>2

\* The locks, the calls and the status bits of the classes agree, and a class is
\* initialized by one call at a time (Class.initialize).
THEOREM AlwaysConsistent == Spec => []Consistent
<1>1. QED BY InitConsistent, NextConsistent, PTL DEF Spec

\* No wake-up is lost: a thread that waits for the initialization of a class has
\* another one to notify it (steps 2 and 9 to 11 of Class.initialize).
THEOREM NoLostWakeUp == Spec => []WaitersRemembered
<1>1. Consistent => WaitersRemembered
    BY DEF Consistent
<1>2. QED BY <1>1, AlwaysConsistent, PTL

LEMMA MovesKeepLength ==
    ASSUME Consistent, NEW t \in Threads, NEW c \in Classes, NEW p, At(t, c, p),
           NEW q \in Places, Goes(t, q) \/ Fails(t, q), NEW u \in Threads
    PROVE  Len(calls'[u]) = Len(calls[u])
<1>1. PICK k \in Calls : calls' = [calls EXCEPT ![t][Len(calls[t])] = k]
    BY MoveTo, FailsFacts
<1>2. Moves(t, k)
    BY <1>1, AtFacts, MoveFacts DEF Consistent
<1>3. QED BY <1>2 DEF Moves

\* A call ends in Leave alone.
LEMMA OnlyLeaveReturns ==
    ASSUME Consistent, NEW t \in Threads, NEW c \in Classes, NEW u \in Threads,
           Use(t, c) \/ Initialize(t, c) \/ Interrupt(t, c), ~Leave(t, c)
    PROVE  ~(Len(calls'[u]) < Len(calls[u]))
<1>1. Len(calls[u]) \in Nat /\ calls[u] \in Seq(Calls) /\ calls[t] \in Seq(Calls)
    BY DEF Consistent, TypeOK
<1>2. CASE Use(t, c)
    <2>1. calls' = [calls EXCEPT ![t] = Append(calls[t], Call(c))]
        BY <1>2 DEF Use
    <2>2. Call(c) \in Calls
        BY DEF Call, Calls, Places
    <2>3. calls'[u] = calls[u] \/ (u = t /\ calls'[u] = Append(calls[u], Call(c)))
        BY <2>1 DEF Consistent, TypeOK
    <2>4. QED BY <1>1, <2>2, <2>3
<1>3. CASE Interrupt(t, c)
    BY <1>1, <1>3 DEF Interrupt
<1>4. CASE Step7(t, c)
    <2> DEFINE k == [Last(calls[t]) EXCEPT !.at = "invoke"]
               on == [calls[t] EXCEPT ![Len(calls[t])] = k]
    <2>1. calls[t] # <<>> /\ Last(calls[t]) \in Calls
        BY <1>4, AtFacts DEF Step7
    <2>2. k \in Calls /\ Last(calls[t]) = calls[t][Len(calls[t])] /\ Call(Super[c]).at = "lock"
        BY <2>1 DEF Calls, Places, Last, Call
    <2>3. calls' \in {[calls EXCEPT ![t] = on], [calls EXCEPT ![t] = Append(on, Call(Super[c]))]}
        BY <1>4, <2>2 DEF Step7
    <2>4. on \in Seq(Calls) /\ Len(on) = Len(calls[t])
        <3> HIDE DEF k
        <3>1. Len(calls[t]) \in DOMAIN calls[t]
            BY <2>1, InnermostCall DEF Consistent
        <3>2. QED BY <1>1, <2>2, <3>1
    <2> HIDE DEF on
    <2>5. Len(Append(on, Call(Super[c]))) = Len(on) + 1
        BY <2>4
    <2>6. \/ u # t /\ calls'[u] = calls[u]
          \/ u = t /\ calls'[u] = on
          \/ u = t /\ calls'[u] = Append(on, Call(Super[c]))
        BY <2>3 DEF Consistent, TypeOK
    <2>7. QED BY <1>1, <2>4, <2>5, <2>6
<1>5. CASE \E p, q \in Places : At(t, c, p) /\ (Goes(t, q) \/ Fails(t, q))
    BY <1>1, <1>5, MovesKeepLength
<1>6. Initialize(t, c) /\ ~Step7(t, c) =>
         \E p, q \in Places : At(t, c, p) /\ (Goes(t, q) \/ Fails(t, q))
    BY DEF Initialize, Step1, Step2, Wait, Steps3To5, Step6, Claim, Verify, Step8, Step9, Done,
           Throw, Step10, Step11, NotifyAll, Lock, Places
<1>7. QED BY <1>2, <1>3, <1>4, <1>5, <1>6

\* A call that returns without an exception leaves the thread with a class that it
\* may use (steps 3 to 5 and 9 of Class.initialize).
THEOREM ReturnsOnlyInitialized == Spec => ReturnsInitialized
<1> DEFINE Returns == \A t \in Threads, c \in Classes :
                (Len(calls'[t]) < Len(calls[t]) /\ Last(calls[t]).class = c /\ ~Last(calls[t]).error)
                    => Initialized(t, c)'
<1>1. Consistent /\ [Next]_vars => [Returns]_vars
    <2> SUFFICES ASSUME Consistent, Next, NEW u \in Threads, NEW d \in Classes,
                        Len(calls'[u]) < Len(calls[u]),
                        Last(calls[u]).class = d, ~Last(calls[u]).error
                 PROVE  Initialized(u, d)'
        BY Zenon DEF vars
    <2>1. PICK t \in Threads, c \in Classes : Use(t, c) \/ Initialize(t, c) \/ Interrupt(t, c)
        BY DEF Next
    <2>2. Leave(t, c)
        BY <2>1, OnlyLeaveReturns
    <2>3. u = t
        <3> SUFFICES ASSUME u # t PROVE FALSE
            OBVIOUS
        <3>1. calls'[u] = calls[u] /\ Len(calls[u]) \in Nat
            BY <2>2 DEF Leave, Consistent, TypeOK
        <3>2. QED BY <3>1
    <2>4. c = d /\ Initialized(t, c)
        BY <2>2, <2>3, AtFacts DEF Leave
    <2>5. status' = status /\ thread' = thread
        BY <2>2 DEF Leave
    <2>6. QED BY <2>3, <2>4, <2>5 DEF Initialized
<1>2. QED BY <1>1, AlwaysConsistent, PTL DEF Spec, ReturnsInitialized

-----------------------------------------------------------------------------
(* The refinement: where the call that initializes a class is tells how    *)
(* far the class has got.                                                  *)

StageAt(p) ==
    IF p = "catch" THEN "failing" ELSE IF p \in {"clinit", "done"} THEN "running" ELSE "begun"

CallStages ==
    \A t \in Threads : \A i \in DOMAIN calls[t] :
        Initializing(calls[t][i]) =>
            /\ thread[calls[t][i].class] = t
            /\ Stage(calls[t][i].class) = StageAt(calls[t][i].at)

LEMMA StageOfCall == Consistent => CallStages
<1> SUFFICES ASSUME Consistent, NEW t \in Threads, NEW i \in DOMAIN calls[t],
                    Initializing(calls[t][i])
             PROVE  /\ thread[calls[t][i].class] = t
                    /\ Stage(calls[t][i].class) = StageAt(calls[t][i].at)
    BY DEF CallStages
<1> DEFINE c == calls[t][i].class
<1>1. InStep(t, calls[t][i], status[c], thread[c])
    BY DEF Consistent, CallsInStep
<1>2. /\ thread[c] = t /\ thread[c] # NoThread
      /\ status[c] \in {{"IN_PROGRESS"}, {"IN_PROGRESS", "VERIFIED"}}
    BY <1>1 DEF InStep, Initializing, ClassAssumption
<1>3. ASSUME NEW places \in SUBSET {"clinit", "done", "catch"}
      PROVE  Reached(c, places) <=> calls[t][i].at \in places
    <2>1. ASSUME NEW j \in DOMAIN calls[t], calls[t][j].class = c, calls[t][j].at \in places
          PROVE  j = i
        <3>1. InProgress(calls[t][j]) /\ InProgress(calls[t][i])
            BY <2>1 DEF InProgress, Initializing
        <3>2. OneInitializer /\ calls[t][i].class = calls[t][j].class
            BY <2>1 DEF Consistent
        <3>3. QED BY <3>1, <3>2, OneInProgress, Zenon
    <2>2. Reached(c, places) => calls[t][i].at \in places
        BY <1>2, <2>1 DEF Reached
    <2>3. calls[t][i].at \in places => Reached(c, places)
        BY <1>2 DEF Reached
    <2>4. QED BY <2>2, <2>3
<1>4. Reached(c, {"catch"}) <=> calls[t][i].at = "catch"
    BY <1>3
<1>5. Reached(c, {"clinit", "done"}) <=> calls[t][i].at \in {"clinit", "done"}
    BY <1>3
<1>6. Stage(c) = StageAt(calls[t][i].at)
    BY <1>2, <1>4, <1>5 DEF Stage, StageAt
<1>7. QED BY <1>2, <1>6

LEMMA StageOfCallNext == Consistent' => CallStages'
BY StageOfCall, PTL

\* A class stays where it is when its status and thread do, and the call that
\* initializes it.
LEMMA StageKept ==
    ASSUME Consistent, Consistent', NEW c \in Classes,
           "INITIALIZED" \in status[c] <=> "INITIALIZED" \in status'[c],
           "ERROR" \in status[c] <=> "ERROR" \in status'[c],
           thread'[c] = thread[c],
           \A t \in Threads : \A i \in DOMAIN calls[t] :
              calls[t][i].class = c /\ Initializing(calls[t][i]) =>
                 /\ i \in DOMAIN calls'[t] /\ calls'[t][i].class = c
                 /\ Initializing(calls'[t][i])
                 /\ StageAt(calls'[t][i].at) = StageAt(calls[t][i].at)
    PROVE  Stage(c)' = Stage(c)
<1>1. CASE thread[c] = NoThread
    BY <1>1 DEF Stage
<1>2. CASE thread[c] # NoThread
    <2>1. thread[c] \in Threads
        BY <1>2 DEF Consistent, TypeOK
    <2>2. PICK i \in DOMAIN calls[thread[c]] :
             calls[thread[c]][i].class = c /\ Initializing(calls[thread[c]][i])
        BY <1>2 DEF Consistent, OneInitializer
    <2> DEFINE t == thread[c]
    <2>3. /\ i \in DOMAIN calls'[t] /\ calls'[t][i].class = c /\ Initializing(calls'[t][i])
          /\ StageAt(calls'[t][i].at) = StageAt(calls[t][i].at)
        BY <2>1, <2>2
    <2>4. Stage(c) = StageAt(calls[t][i].at)
        BY <2>1, <2>2, StageOfCall DEF CallStages
    <2>5. Stage(c)' = StageAt(calls'[t][i].at)
        BY <2>1, <2>3, StageOfCallNext DEF CallStages, Initializing
    <2>6. QED BY <2>3, <2>4, <2>5
<1>3. QED BY <1>1, <1>2

\* the innermost call of t, for class c, becomes k, and no other class changes
MovesFor(t, c, k) ==
    /\ calls[t] # <<>> /\ Last(calls[t]).class = c /\ k.class = c
    /\ calls' = [calls EXCEPT ![t][Len(calls[t])] = k]
    /\ \A d \in Classes \ {c} : status'[d] = status[d] /\ thread'[d] = thread[d]

\* Of the classes only that of the call that moves can get on.
LEMMA MoveStages ==
    ASSUME Consistent, Consistent', NEW t \in Threads, NEW c \in Classes, NEW k \in Calls,
           MovesFor(t, c, k)
    PROVE  /\ \A d \in Classes \ {c} : Stage(d)' = Stage(d)
           /\ Initializing(Last(calls[t])) =>
                 thread[c] = t /\ Stage(c) = StageAt(Last(calls[t]).at)
           /\ Initializing(k) => thread'[c] = t /\ Stage(c)' = StageAt(k.at)
<1> USE DEF MovesFor
<1>1. Moves(t, k)
    BY MoveFacts DEF Consistent
<1>2. /\ Len(calls[t]) \in DOMAIN calls[t] /\ DOMAIN calls'[t] = DOMAIN calls[t]
      /\ calls'[t][Len(calls[t])] = k /\ Last(calls[t]) = calls[t][Len(calls[t])]
      /\ \A i \in DOMAIN calls[t] : i # Len(calls[t]) => calls'[t][i] = calls[t][i]
      /\ \A u \in Threads \ {t} : calls'[u] = calls[u]
    BY <1>1, MoveDomains, InnermostCall DEF Consistent, Moves
<1>3. ASSUME NEW d \in Classes \ {c} PROVE Stage(d)' = Stage(d)
    <2>1. \A u \in Threads : \A i \in DOMAIN calls[u] : calls[u][i].class = d =>
             i \in DOMAIN calls'[u] /\ calls'[u][i] = calls[u][i]
        BY <1>2
    <2>2. d \in Classes
        OBVIOUS
    <2>3. QED BY <2>1, <2>2, StageKept
<1>4. Initializing(Last(calls[t])) => thread[c] = t /\ Stage(c) = StageAt(Last(calls[t]).at)
    BY <1>2, StageOfCall DEF CallStages
<1>5. Initializing(k) => thread'[c] = t /\ Stage(c)' = StageAt(k.at)
    BY <1>2, StageOfCallNext DEF CallStages, Initializing
<1>6. QED BY <1>3, <1>4, <1>5

\* Nor does that one when the call gets no farther.
LEMMA MoveKeepsStage ==
    ASSUME Consistent, Consistent', NEW t \in Threads, NEW c \in Classes, NEW k \in Calls,
           MovesFor(t, c, k),
           thread'[c] = thread[c],
           "INITIALIZED" \in status[c] <=> "INITIALIZED" \in status'[c],
           "ERROR" \in status[c] <=> "ERROR" \in status'[c],
           Initializing(Last(calls[t])) =>
              Initializing(k) /\ StageAt(k.at) = StageAt(Last(calls[t]).at)
    PROVE  Stage(c)' = Stage(c)
<1> USE DEF MovesFor
<1>1. Moves(t, k)
    BY MoveFacts DEF Consistent
<1>2. /\ Len(calls[t]) \in DOMAIN calls[t] /\ DOMAIN calls'[t] = DOMAIN calls[t]
      /\ calls'[t][Len(calls[t])] = k /\ Last(calls[t]) = calls[t][Len(calls[t])]
      /\ \A i \in DOMAIN calls[t] : i # Len(calls[t]) => calls'[t][i] = calls[t][i]
      /\ \A u \in Threads \ {t} : calls'[u] = calls[u]
    BY <1>1, MoveDomains, InnermostCall DEF Consistent, Moves
<1>3. \A u \in Threads : \A i \in DOMAIN calls[u] :
         calls[u][i].class = c /\ Initializing(calls[u][i]) =>
             /\ i \in DOMAIN calls'[u] /\ calls'[u][i].class = c
             /\ Initializing(calls'[u][i])
             /\ StageAt(calls'[u][i].at) = StageAt(calls[u][i].at)
    BY <1>2
<1>4. QED BY <1>3, StageKept

LEMMA StagesStay ==
    ASSUME \A d \in Classes : Stage(d)' = Stage(d), thread' = thread
    PROVE  UNCHANGED JavaClass!vars
BY DEF JavaClass!vars, stages

LEMMA StagesChange ==
    ASSUME NEW c \in Classes, NEW v, \A d \in Classes \ {c} : Stage(d)' = Stage(d), Stage(c)' = v
    PROVE  stages[c] = Stage(c) /\ stages' = [stages EXCEPT ![c] = v]
BY DEF stages

\* Most moves are no step of the specification of classes.
LEMMA QuietMove ==
    ASSUME Consistent, Consistent', NEW t \in Threads, NEW c \in Classes,
           NEW p \in Places, NEW q \in Places,
           At(t, c, p), Goes(t, q) \/ Fails(t, q), thread' = thread,
           \A d \in Classes \ {c} : status'[d] = status[d],
           "INITIALIZED" \in status[c] <=> "INITIALIZED" \in status'[c],
           "ERROR" \in status[c] <=> "ERROR" \in status'[c],
           \/ p \in {"lock", "test", "wait", "relock", "notify"}
           \/ p \in {"verify", "super"} /\ q \in {"super", "invoke"}
           \/ p = "clinit" /\ q = "done"
    PROVE  UNCHANGED JavaClass!vars
<1>1. PICK k \in Calls : /\ k.class = c /\ k.at = q
                         /\ calls' = [calls EXCEPT ![t][Len(calls[t])] = k]
    BY MoveTo, FailsFacts
<1>2. calls[t] # <<>> /\ Last(calls[t]).class = c /\ Last(calls[t]).at = p
    BY AtFacts
<1>3. Initializing(Last(calls[t])) =>
         Initializing(k) /\ StageAt(k.at) = StageAt(Last(calls[t]).at)
    BY <1>1, <1>2 DEF Initializing, StageAt
<1>4. MovesFor(t, c, k)
    BY <1>1, <1>2 DEF MovesFor
<1>5. (\A d \in Classes \ {c} : Stage(d)' = Stage(d)) /\ Stage(c)' = Stage(c)
    BY <1>3, <1>4, MoveStages, MoveKeepsStage
<1>6. QED BY <1>5, StagesStay

LEMMA QuietSteps ==
    ASSUME Consistent, Consistent', NEW t \in Threads, NEW c \in Classes,
           \/ Step1(t, c) \/ Step2(t, c) \/ Wait(t, c) \/ Steps3To5(t, c) \/ Step6(t, c)
           \/ Verify(t, c) \/ Step9(t, c) \/ Step11(t, c) \/ NotifyAll(t, c)
    PROVE  UNCHANGED JavaClass!vars
<1>1. CASE Step6(t, c) \/ Verify(t, c)
    <2>1. /\ \E b \in {"IN_PROGRESS", "VERIFIED"} : status' = [status EXCEPT ![c] = @ \union {b}]
          /\ thread' = thread
        BY <1>1 DEF Step6, Verify
    <2>2. /\ \A d \in Classes \ {c} : status'[d] = status[d]
          /\ "INITIALIZED" \in status[c] <=> "INITIALIZED" \in status'[c]
          /\ "ERROR" \in status[c] <=> "ERROR" \in status'[c]
        BY <2>1 DEF Consistent, TypeOK
    <2>3. \/ At(t, c, "test") /\ Goes(t, "claim")
          \/ At(t, c, "verify") /\ Goes(t, "super")
        BY <1>1 DEF Step6, Verify
    <2>4. {"test", "claim", "verify", "super"} \subseteq Places
        BY DEF Places
    <2>5. QED BY <2>1, <2>2, <2>3, <2>4, QuietMove
<1>2. CASE ~(Step6(t, c) \/ Verify(t, c))
    <2>1. status' = status /\ thread' = thread
        BY <1>2 DEF Step1, Step2, Wait, Steps3To5, Step9, Step11, NotifyAll, Lock
    <2>2. \E p, q \in Places :
             /\ At(t, c, p) /\ (Goes(t, q) \/ Fails(t, q))
             /\ p \in {"lock", "test", "wait", "relock", "notify"} \/ (p = "clinit" /\ q = "done")
        BY <1>2 DEF Step1, Step2, Wait, Steps3To5, Step9, Step11, NotifyAll, Lock, Places
    <2>3. QED BY <2>1, <2>2, QuietMove
<1>3. QED BY <1>1, <1>2

LEMMA ClaimBegins ==
    ASSUME Consistent, Consistent', NEW t \in Threads, NEW c \in Classes, Claim(t, c)
    PROVE  JavaClass!Begin(t, c)
<1>1. /\ At(t, c, "claim") /\ Goes(t, "verify") /\ "verify" \in Places
      /\ status' = status /\ thread' = [thread EXCEPT ![c] = t]
    BY DEF Claim, Places
<1>2. PICK k \in Calls : /\ k.class = c /\ k.at = "verify"
                         /\ calls' = [calls EXCEPT ![t][Len(calls[t])] = k]
    BY <1>1, MoveTo
<1>3. /\ calls[t] # <<>> /\ Last(calls[t]).class = c /\ Last(calls[t]).at = "claim"
      /\ InStep(t, Last(calls[t]), status[c], thread[c])
    BY <1>1, AtFacts
<1>4. Stage(c) = "linked"
    BY <1>3 DEF InStep, Stage
<1>5. \A d \in Classes \ {c} : status'[d] = status[d] /\ thread'[d] = thread[d]
    BY <1>1 DEF Consistent, TypeOK
<1>6. Initializing(k) /\ StageAt(k.at) = "begun"
    BY <1>2 DEF Initializing, StageAt
<1>7. MovesFor(t, c, k)
    BY <1>2, <1>3, <1>5 DEF MovesFor
<1>8. (\A d \in Classes \ {c} : Stage(d)' = Stage(d)) /\ Stage(c)' = "begun"
    BY <1>6, <1>7, MoveStages
<1>9. QED BY <1>1, <1>4, <1>8, StagesChange DEF JavaClass!Begin

LEMMA Step8Runs ==
    ASSUME Consistent, Consistent', NEW t \in Threads, NEW c \in Classes, Step8(t, c)
    PROVE  JavaClass!Run(t, c)
<1>1. /\ At(t, c, "invoke") /\ Goes(t, "clinit") /\ "clinit" \in Places
      /\ status' = status /\ thread' = thread
    BY DEF Step8, Places
<1>2. PICK k \in Calls : /\ k.class = c /\ k.at = "clinit"
                         /\ calls' = [calls EXCEPT ![t][Len(calls[t])] = k]
    BY <1>1, MoveTo
<1>3. /\ calls[t] # <<>> /\ Last(calls[t]).class = c /\ Last(calls[t]).at = "invoke"
      /\ Super[c] # NoClass => Initialized(t, Super[c])
    BY <1>1, AtFacts
<1>4. /\ Initializing(Last(calls[t])) /\ StageAt(Last(calls[t]).at) = "begun"
      /\ Initializing(k) /\ StageAt(k.at) = "running"
    BY <1>2, <1>3 DEF Initializing, StageAt
<1>5. /\ \A d \in Classes \ {c} : Stage(d)' = Stage(d)
      /\ thread[c] = t /\ Stage(c) = "begun" /\ Stage(c)' = "running"
    <2>1. MovesFor(t, c, k)
        BY <1>1, <1>2, <1>3 DEF MovesFor
    <2>2. QED BY <1>4, <2>1, MoveStages
<1>6. Super[c] = NoClass \/ JavaClass!Ready(t, Super[c])
    <2> SUFFICES ASSUME Super[c] # NoClass PROVE JavaClass!Ready(t, Super[c])
        OBVIOUS
    <2>1. Super[c] \in Classes
        BY DEF ClassAssumption
    <2>2. "INITIALIZED" \in status[Super[c]] => stages[Super[c]] = "initialized"
        BY <2>1 DEF stages, Stage
    <2>3. QED BY <1>3, <2>2 DEF Initialized, JavaClass!Ready
<1>7. QED BY <1>1, <1>5, <1>6, StagesChange DEF JavaClass!Run

LEMMA DoneCompletes ==
    ASSUME Consistent, Consistent', NEW t \in Threads, NEW c \in Classes, Done(t, c)
    PROVE  JavaClass!Complete(t, c)
<1>1. /\ At(t, c, "done") /\ Goes(t, "notify") /\ "notify" \in Places
      /\ status' = [status EXCEPT ![c] = (@ \ {"IN_PROGRESS"}) \union {"INITIALIZED"}]
      /\ thread' = [thread EXCEPT ![c] = NoThread]
    BY DEF Done, Places
<1>2. PICK k \in Calls : /\ k.class = c
                         /\ calls' = [calls EXCEPT ![t][Len(calls[t])] = k]
    BY <1>1, MoveTo
<1>3. calls[t] # <<>> /\ Last(calls[t]).class = c /\ Last(calls[t]).at = "done"
    BY <1>1, AtFacts
<1>4. Initializing(Last(calls[t])) /\ StageAt(Last(calls[t]).at) = "running"
    BY <1>3 DEF Initializing, StageAt
<1>5. /\ \A d \in Classes \ {c} : status'[d] = status[d] /\ thread'[d] = thread[d]
      /\ "INITIALIZED" \in status'[c]
    BY <1>1 DEF Consistent, TypeOK
<1>6. /\ \A d \in Classes \ {c} : Stage(d)' = Stage(d)
      /\ thread[c] = t /\ Stage(c) = "running"
    <2>1. MovesFor(t, c, k)
        BY <1>2, <1>3, <1>5 DEF MovesFor
    <2>2. QED BY <1>4, <2>1, MoveStages
<1>7. Stage(c)' = "initialized"
    BY <1>5 DEF Stage
<1>8. QED BY <1>1, <1>6, <1>7, StagesChange DEF JavaClass!Complete

LEMMA Step10FailsClass ==
    ASSUME Consistent, Consistent', NEW t \in Threads, NEW c \in Classes, Step10(t, c)
    PROVE  JavaClass!Fail(t, c)
<1>1. /\ At(t, c, "catch") /\ Fails(t, "relock") /\ "relock" \in Places
      /\ status' = [status EXCEPT ![c] = {"ERROR"}]
      /\ thread' = [thread EXCEPT ![c] = NoThread]
    BY DEF Step10, Places
<1>2. PICK k \in Calls : /\ k.class = c
                         /\ calls' = [calls EXCEPT ![t][Len(calls[t])] = k]
    BY <1>1, FailsFacts
<1>3. calls[t] # <<>> /\ Last(calls[t]).class = c /\ Last(calls[t]).at = "catch"
    BY <1>1, AtFacts
<1>4. Initializing(Last(calls[t])) /\ StageAt(Last(calls[t]).at) = "failing"
    BY <1>3 DEF Initializing, StageAt
<1>5. /\ \A d \in Classes \ {c} : status'[d] = status[d] /\ thread'[d] = thread[d]
      /\ status'[c] = {"ERROR"}
    BY <1>1 DEF Consistent, TypeOK
<1>6. /\ \A d \in Classes \ {c} : Stage(d)' = Stage(d)
      /\ thread[c] = t /\ Stage(c) = "failing"
    <2>1. MovesFor(t, c, k)
        BY <1>2, <1>3, <1>5 DEF MovesFor
    <2>2. QED BY <1>4, <2>1, MoveStages
<1>7. Stage(c)' = "erroneous"
    BY <1>5 DEF Stage
<1>8. QED BY <1>1, <1>6, <1>7, StagesChange DEF JavaClass!Fail

LEMMA ThrowThrows ==
    ASSUME Consistent, Consistent', NEW t \in Threads, NEW c \in Classes, Throw(t, c)
    PROVE  JavaClass!Throw(t, c)
<1>1. PICK p \in {"verify", "clinit"} : At(t, c, p)
    BY DEF Throw
<1>2. /\ Goes(t, "catch") /\ "catch" \in Places
      /\ status' = status /\ thread' = thread
    BY DEF Throw, Places
<1>3. PICK k \in Calls : /\ k.class = c /\ k.at = "catch"
                         /\ calls' = [calls EXCEPT ![t][Len(calls[t])] = k]
    BY <1>1, <1>2, MoveTo
<1>4. calls[t] # <<>> /\ Last(calls[t]).class = c /\ Last(calls[t]).at = p
    BY <1>1, AtFacts
<1>5. /\ Initializing(Last(calls[t])) /\ StageAt(Last(calls[t]).at) \in {"begun", "running"}
      /\ Initializing(k) /\ StageAt(k.at) = "failing"
    BY <1>3, <1>4 DEF Initializing, StageAt
<1>6. /\ \A d \in Classes \ {c} : Stage(d)' = Stage(d)
      /\ thread[c] = t /\ Stage(c) \in {"begun", "running"} /\ Stage(c)' = "failing"
    <2>1. MovesFor(t, c, k)
        BY <1>2, <1>3, <1>4 DEF MovesFor
    <2>2. QED BY <1>5, <2>1, MoveStages
<1>7. QED BY <1>2, <1>6, StagesChange DEF JavaClass!Throw

\* Nor are calls that begin or end, as long as no initialization gets on.
LEMMA QuietStack ==
    ASSUME Consistent, Consistent', status' = status, thread' = thread,
           \A t \in Threads : \A i \in DOMAIN calls[t] : Initializing(calls[t][i]) =>
              /\ i \in DOMAIN calls'[t] /\ calls'[t][i].class = calls[t][i].class
              /\ Initializing(calls'[t][i])
              /\ StageAt(calls'[t][i].at) = StageAt(calls[t][i].at)
    PROVE  UNCHANGED JavaClass!vars
<1>1. \A c \in Classes : Stage(c)' = Stage(c)
    BY StageKept
<1>2. QED BY <1>1, StagesStay

LEMMA UseIsQuiet ==
    ASSUME Consistent, Consistent', NEW t \in Threads, NEW c \in Classes,
           Use(t, c) \/ Interrupt(t, c)
    PROVE  UNCHANGED JavaClass!vars
<1>1. status' = status /\ thread' = thread
    BY DEF Use, Interrupt
<1>2. \A u \in Threads : \A i \in DOMAIN calls[u] :
         i \in DOMAIN calls'[u] /\ calls'[u][i] = calls[u][i]
    <2>1. CASE Interrupt(t, c)
        BY <2>1 DEF Interrupt
    <2>2. CASE Use(t, c)
        <3>1. calls' = [calls EXCEPT ![t] = Append(calls[t], Call(c))] /\ calls[t] \in Seq(Calls)
            BY <2>2 DEF Use, Consistent, TypeOK
        <3>2. /\ \A u \in Threads \ {t} : calls'[u] = calls[u]
              /\ Len(calls[t]) \in Nat
              /\ DOMAIN calls[t] = 1..Len(calls[t]) /\ DOMAIN calls'[t] = 1..Len(calls[t]) + 1
              /\ \A i \in DOMAIN calls[t] : calls'[t][i] = calls[t][i]
            BY <3>1, PushFacts DEF Consistent
        <3>3. \A i \in 1..Len(calls[t]) : i \in 1..Len(calls[t]) + 1
            BY <3>2
        <3>4. QED BY <3>2, <3>3
    <2>3. QED BY <2>1, <2>2
<1>3. QED BY <1>1, <1>2, QuietStack

LEMMA Step7IsQuiet ==
    ASSUME Consistent, Consistent', NEW t \in Threads, NEW c \in Classes, Step7(t, c)
    PROVE  UNCHANGED JavaClass!vars
<1> DEFINE m == Len(calls[t])
           k == [Last(calls[t]) EXCEPT !.at = "invoke"]
           on == [calls[t] EXCEPT ![m] = k]
           s == Super[c]
<1>1. /\ calls[t] # <<>> /\ Last(calls[t]) \in Calls
      /\ Last(calls[t]).class = c /\ Last(calls[t]).at = "super"
      /\ status' = status /\ thread' = thread
    BY AtFacts DEF Step7
<1>2. /\ calls[t] \in Seq(Calls) /\ m \in Nat \ {0} /\ m \in DOMAIN calls[t]
      /\ Last(calls[t]) = calls[t][m]
    BY <1>1, InnermostCall DEF Consistent, TypeOK
<1>3. k \in Calls /\ k.class = c /\ k.at = "invoke"
    BY <1>1 DEF Calls, Places
<1>4. /\ on \in Seq(Calls) /\ DOMAIN on = DOMAIN calls[t] /\ on[m] = k
      /\ \A i \in DOMAIN calls[t] : i # m => on[i] = calls[t][i]
    BY <1>2, <1>3
<1>5. \A i \in DOMAIN calls[t] : Initializing(calls[t][i]) =>
         /\ on[i].class = calls[t][i].class /\ Initializing(on[i])
         /\ StageAt(on[i].at) = StageAt(calls[t][i].at)
    BY <1>1, <1>2, <1>3, <1>4 DEF Initializing, StageAt
<1>6. \/ calls' = [calls EXCEPT ![t] = on]
      \/ s \in Classes /\ calls' = [calls EXCEPT ![t] = Append(on, Call(s))]
    BY <1>2 DEF Step7, ClassAssumption
<1> HIDE DEF on, m, k, s
<1>7. /\ \A u \in Threads \ {t} : calls'[u] = calls[u]
      /\ \A i \in DOMAIN calls[t] : i \in DOMAIN calls'[t] /\ calls'[t][i] = on[i]
    <2>1. CASE calls' = [calls EXCEPT ![t] = on]
        BY <1>4, <2>1 DEF Consistent, TypeOK
    <2>2. CASE s \in Classes /\ calls' = [calls EXCEPT ![t] = Append(on, Call(s))]
        <3>1. PICK r \in Seq(Calls), d \in Classes :
                 r = on /\ calls' = [calls EXCEPT ![t] = Append(r, Call(d))]
            BY <1>4, <2>2
        <3>2. /\ \A u \in Threads \ {t} : calls'[u] = calls[u]
              /\ Len(r) \in Nat
              /\ DOMAIN r = 1..Len(r) /\ DOMAIN calls'[t] = 1..Len(r) + 1
              /\ \A i \in DOMAIN r : calls'[t][i] = r[i]
            <4>1. TypeOK
                BY DEF Consistent
            <4>2. calls' = [calls EXCEPT ![t] = Append(r, Call(d))]
                BY <3>1
            <4>3. QED BY <4>1, <4>2, PushFacts, Zenon
        <3>3. \A i \in 1..Len(r) : i \in 1..Len(r) + 1
            BY <3>2
        <3>4. QED BY <1>4, <3>1, <3>2, <3>3
    <2>3. QED BY <1>6, <2>1, <2>2
<1>8. \A u \in Threads : \A i \in DOMAIN calls[u] : Initializing(calls[u][i]) =>
         /\ i \in DOMAIN calls'[u] /\ calls'[u][i].class = calls[u][i].class
         /\ Initializing(calls'[u][i])
         /\ StageAt(calls'[u][i].at) = StageAt(calls[u][i].at)
    BY <1>5, <1>7
<1>9. QED BY <1>1, <1>8, QuietStack

\* An exception that a call ends with makes its caller fail.
LEMMA LeaveThrows ==
    ASSUME Consistent, Consistent', NEW t \in Threads, NEW c \in Classes, Leave(t, c)
    PROVE  [JavaClass!Next]_(JavaClass!vars)
<1> DEFINE n == Len(calls[t])
           m == n - 1
           caller == Front(calls[t])
<1>1. /\ calls' = [calls EXCEPT ![t] = Returned(calls[t])]
      /\ status' = status /\ thread' = thread
      /\ calls[t] # <<>> /\ Last(calls[t]).at = "leave"
    BY AtFacts DEF Leave
<1>2. /\ caller \in Seq(Calls) /\ n \in Nat \ {0} /\ Len(caller) = m
      /\ DOMAIN caller = 1..m /\ DOMAIN calls[t] = 1..n
      /\ \A i \in 1..m : caller[i] = calls[t][i]
      /\ Last(calls[t]) = calls[t][n]
    BY <1>1, FrontFacts, InnermostCall DEF Consistent
<1>3. /\ \A i \in 1..n : i = n \/ i \in 1..m
      /\ ~Initializing(calls[t][n])
    BY <1>1, <1>2 DEF Initializing
<1>4. /\ calls'[t] = Returned(calls[t])
      /\ \A u \in Threads \ {t} : calls'[u] = calls[u]
    BY <1>1 DEF Consistent, TypeOK
<1>5. CASE ~(caller # <<>> /\ Last(calls[t]).error)
    <2>1. calls'[t] = caller
        BY <1>4, <1>5 DEF Returned
    <2> HIDE DEF caller, m, n
    <2>2. \A i \in DOMAIN calls[t] : Initializing(calls[t][i]) =>
             i \in DOMAIN calls'[t] /\ calls'[t][i] = calls[t][i]
        BY <1>2, <1>3, <2>1
    <2>3. \A u \in Threads : \A i \in DOMAIN calls[u] : Initializing(calls[u][i]) =>
             /\ i \in DOMAIN calls'[u] /\ calls'[u][i].class = calls[u][i].class
             /\ Initializing(calls'[u][i])
             /\ StageAt(calls'[u][i].at) = StageAt(calls[u][i].at)
        BY <1>4, <2>2
    <2>4. QED BY <1>1, <2>3, QuietStack
<1>6. CASE caller # <<>> /\ Last(calls[t]).error
    <2>1. m \in 1..m /\ m \in DOMAIN calls[t] /\ m < n
        BY <1>2, <1>6
    <2>2. /\ calls'[t] = [caller EXCEPT ![m].at = "catch"]
        BY <1>2, <1>4, <1>6 DEF Returned
    <2>3. /\ calls[t][m] \in Calls /\ calls[t][m].at \in {"invoke", "clinit"}
          /\ calls[t][m].class \in Classes
        <3>1. NestedOf(t)
            BY ByThread DEF Consistent
        <3>2. calls[t][m] \in Calls
            BY <1>2, <2>1 DEF Consistent, TypeOK
        <3>3. QED BY <2>1, <3>1, <3>2 DEF NestedOf, Calls
    <2>4. calls'[t][m] = [calls[t][m] EXCEPT !.at = "catch"]
        BY <1>2, <2>1, <2>2
    <2>5. PICK d \in Classes : d = calls[t][m].class
        BY <2>3
    <2>6. m \in DOMAIN calls'[t] /\ calls'[t][m].class = d /\ calls'[t][m].at = "catch"
        BY <1>2, <2>1, <2>2, <2>3, <2>4, <2>5 DEF Calls
    <2>7. \A i \in 1..m : i # m => i \in DOMAIN calls'[t] /\ calls'[t][i] = calls[t][i]
        BY <1>2, <2>2
    <2> HIDE DEF caller, m, n
    <2>8. thread[d] = t /\ Stage(d) \in {"begun", "running"}
        <3>1. Initializing(calls[t][m])
            BY <2>3 DEF Initializing
        <3>2. StageAt(calls[t][m].at) \in {"begun", "running"}
            BY <2>3 DEF StageAt
        <3>3. QED BY <2>1, <2>5, <3>1, <3>2, StageOfCall DEF CallStages
    <2>9. Stage(d)' = "failing"
        <3>1. Initializing(calls'[t][m]) /\ StageAt(calls'[t][m].at) = "failing"
            BY <2>6 DEF Initializing, StageAt
        <3>2. PICK j \in DOMAIN calls'[t] :
                 calls'[t][j].class = d /\ Initializing(calls'[t][j]) /\ calls'[t][j].at = "catch"
            BY <2>6, <3>1
        <3>3. Stage(d)' = StageAt(calls'[t][j].at)
            BY <3>2, StageOfCallNext DEF CallStages, Initializing
        <3>4. QED BY <3>2, <3>3 DEF StageAt
    <2>10. ASSUME NEW e \in Classes \ {d} PROVE Stage(e)' = Stage(e)
        <3>1. \A i \in DOMAIN calls[t] : calls[t][i].class = e /\ Initializing(calls[t][i]) =>
                 i \in DOMAIN calls'[t] /\ calls'[t][i] = calls[t][i]
            BY <1>2, <1>3, <2>7, <2>5
        <3>2. \A u \in Threads : \A i \in DOMAIN calls[u] :
                 calls[u][i].class = e /\ Initializing(calls[u][i]) =>
                    i \in DOMAIN calls'[u] /\ calls'[u][i] = calls[u][i]
            BY <1>4, <3>1
        <3>3. QED BY <1>1, <3>2, StageKept
    <2>11. JavaClass!Throw(t, d)
        BY <1>1, <2>8, <2>9, <2>10, StagesChange DEF JavaClass!Throw
    <2>12. QED BY <2>11 DEF JavaClass!Next
<1>7. QED BY <1>5, <1>6

LEMMA RefinedInit == Init => JavaClass!Init
BY DEF Init, JavaClass!Init, stages, Stage

LEMMA RefinedNext ==
    ASSUME Consistent, Consistent', [Next]_vars
    PROVE  [JavaClass!Next]_(JavaClass!vars)
<1>1. CASE UNCHANGED vars
    <2>1. status' = status /\ thread' = thread /\ calls' = calls
        BY <1>1 DEF vars
    <2>2. QED BY <2>1, QuietStack
<1>2. CASE Next
    <2>1. PICK t \in Threads, c \in Classes : Use(t, c) \/ Initialize(t, c) \/ Interrupt(t, c)
        BY <1>2 DEF Next
    <2>2. CASE Use(t, c) \/ Interrupt(t, c)
        BY <2>2, UseIsQuiet
    <2>3. CASE \/ Step1(t, c) \/ Step2(t, c) \/ Wait(t, c) \/ Steps3To5(t, c) \/ Step6(t, c)
               \/ Verify(t, c) \/ Step9(t, c) \/ Step11(t, c) \/ NotifyAll(t, c)
        BY <2>3, QuietSteps
    <2>4. CASE Step7(t, c)
        BY <2>4, Step7IsQuiet
    <2>5. CASE Leave(t, c)
        BY <2>5, LeaveThrows
    <2>6. CASE Claim(t, c) \/ Step8(t, c) \/ Done(t, c) \/ Throw(t, c) \/ Step10(t, c)
        <3>1. \/ JavaClass!Begin(t, c) \/ JavaClass!Run(t, c) \/ JavaClass!Complete(t, c)
              \/ JavaClass!Throw(t, c) \/ JavaClass!Fail(t, c)
            BY <2>6, ClaimBegins, Step8Runs, DoneCompletes, ThrowThrows, Step10FailsClass
        <3>2. QED BY <3>1 DEF JavaClass!Next
    <2>7. QED BY <2>1, <2>2, <2>3, <2>4, <2>5, <2>6 DEF Initialize
<1>3. QED BY <1>1, <1>2

\* A class is initialized by one thread, after its superclass, and once: what
\* became of it is final (Class.initialize).
THEOREM ClassesRefined == Spec => ImplementsJavaClasses
<1>1. Consistent /\ Consistent' /\ [Next]_vars => [JavaClass!Next]_(JavaClass!vars)
    BY RefinedNext
<1>2. QED BY <1>1, RefinedInit, AlwaysConsistent, PTL DEF Spec, ImplementsJavaClasses, JavaClass!Spec
===============================================================================
