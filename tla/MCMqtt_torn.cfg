SPECIFICATION Spec
CONSTANTS
    Clients <- OneClient
    BufSize = 2
    Messages <- Two
    Timeouts = {0}
CHECK_DEADLOCK FALSE
INVARIANTS
    DeliveredWhole
