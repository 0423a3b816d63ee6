SPECIFICATION FairSpec
CONSTANTS
    Clients <- TwoClients
    BufSize = 2
    Messages <- Two
    Timeouts = {0, 1}
CHECK_DEADLOCK FALSE
INVARIANTS
    TypeOK
    QuietMessageWhole
    DeliveredInOrder
    AnswerIsOwn
    ContextsAccounted
PROPERTIES
    NativesReturn
