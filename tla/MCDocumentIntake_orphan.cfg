SPECIFICATION FairSpec
CONSTANTS
    d1 = d1
    d2 = d2
    x1 = x1
    x2 = x2
    c1 = c1
    c2 = c2
    NoContent = NoContent
    NoMsg = NoMsg
    Content <- OneFile
    Doc <- OneDoc
    Coordinator <- OneCoordinator
    MaxMsg = 1
    MaxDeliver = 5
    Fault <- OnlyPublish
PROPERTY EveryUploadSettles
CHECK_DEADLOCK FALSE
