SPECIFICATION Spec
CONSTANTS
    Fds <- OneSlot
    Pcbs <- TwoPcbs
    Size = 3
    Window = 4
    MaxSent = 4
    MaxLen = 2
    Datagrams = {}
    Errs = {"ok"}
    None = None
CHECK_DEADLOCK FALSE
INVARIANTS
    NothingLost
