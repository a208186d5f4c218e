SPECIFICATION FairSpec
CONSTANTS
    g1 = g1
    g2 = g2
    w1 = w1
    NoGroup = NoGroup
    Group <- OneGroup
    Worker <- OneWorker
    MaxDeliver = 5
    Fault <- OnlyPublish
PROPERTY EveryLinkSettles
