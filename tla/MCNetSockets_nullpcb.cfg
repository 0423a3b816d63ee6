SPECIFICATION Spec
CONSTANTS
    Fds <- OneSlot
    Pcbs <- TwoPcbs
    Size = 3
    Window = 4
    MaxSent = 1
    MaxLen = 1
    Datagrams = {}
    Errs = {"ok"}
    None = None
CHECK_DEADLOCK FALSE
INVARIANTS
    LivePcb
