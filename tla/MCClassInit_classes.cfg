SPECIFICATION FairSpec
CONSTANTS
    A = A
    B = B
    Threads = {t1, t2, t3}
    NoThread = NoThread
    Classes = {A, B}
    NoClass = NoClass
    Super <- MCSuper
    Uses <- MCUses
INVARIANTS WaitersRemembered Consistent
PROPERTIES ReturnsInitialized ImplementsJavaClasses EveryCallEnds
CHECK_DEADLOCK FALSE
