SPECIFICATION Spec
CONSTANTS
    ExtractedEntities <- MCRow
    Tolerance = 1
    AutoLink = 85
    ReviewFloor = 50
    MaxGroupSize = 5
    DateWindow = 3
    Lookback = 14
    NameFloor = 90
    MismatchRatio = 50
    Similarity <- MCSimilarity
    NoName = ""
    Book <- MCBooks
    Limit = 4
    MaxAttempts = 3
    MaxFaults = 3
INVARIANTS
    TypeOK
    AutoLinkedWithinTolerance
    NoTwinGroups
    AckedPassIsComplete
CHECK_DEADLOCK FALSE
