SPECIFICATION FairSpec
CONSTANTS
    d1 = d1
    d2 = d2
    x1 = x1
    x2 = x2
    c1 = c1
    c2 = c2
    NoContent = NoContent
    NoMsg = NoMsg
    Content <- OneFile
    Doc <- OneDoc
    Coordinator <- OneCoordinator
    MaxMsg = 2
    MaxDeliver = 3
    Fault <- Recoverable
INVARIANTS
    ConsumedIsRecorded
    DoneIsForwarded
PROPERTIES
    QueuedSettles
    EntitiesReachLinker
CHECK_DEADLOCK FALSE
