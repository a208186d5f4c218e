SPECIFICATION FairSpec
CONSTANTS
    g1 = g1
    g2 = g2
    w1 = w1
    NoGroup = NoGroup
    Group <- TwoGroups
    Worker <- OneWorker
    MaxDeliver = 2
    Fault <- Recoverable
INVARIANT NothingDropped
PROPERTY EveryLinkSettles
