CONSTANTS
    Threads = {t1, t2, t3}
    NoThread = NoThread
    Priorities = {1, 2}
    Slots = 10
    Normal = 2
SPECIFICATION FairSpec
INVARIANTS
    TypeOK
    QueuesConsistent
PROPERTIES
    SearchComplete
    PriorityRespected
    YieldersShare
