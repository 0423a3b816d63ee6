CONSTANTS
    t1 = t1
    o1 = o1
    Threads = {t1, t2, t3}
    Objects = {o1, o2}
    NoThread = NoThread
    NoObject = NoObject
    ThreadObj <- NoJoins
    Millis = {1}
    MaxClock = 2
    MaxDepth = 1
SPECIFICATION Spec
SYMMETRY Symmetry
INVARIANT WaitingThreadIsInList
