SPECIFICATION FairSpec
CONSTANTS
    Fds <- TwoSlots
    Pcbs <- TwoPcbs
    Size = 3
    Window = 4
    MaxSent = 3
    MaxLen = 2
    Datagrams = {d1, d2}
    Errs = {"ok", "failed"}
    None = None
CHECK_DEADLOCK FALSE
INVARIANTS
    TypeOK
    RingFaithful
    EofIsTheEnd
    CallbackOwnsSlot
    NothingLeaks
PROPERTIES
    NativesReturn
