CONSTANTS
    t1 = t1
    o1 = o1
    Threads = {t1, t2}
    Objects = {o1}
    NoThread = NoThread
    NoObject = NoObject
    ThreadObj <- JoinT1
    Millis = {1}
    MaxClock = 2
    MaxDepth = 2
SPECIFICATION FairSpec
INVARIANTS
    MonitorHeld
    Consistent
PROPERTIES
    TimeoutEnds
    LockGranted
